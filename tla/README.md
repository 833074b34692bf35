# Verification of lnstxbridge

lnstxbridge is a fork of Boltz-backend: a server that swaps Lightning payments
for coins on UTXO chains, Stacks (STX and SIP10 tokens) and EVM chains, and
coins of one chain for those of another. This directory holds TLA+ models of
its core, configurations for TLC, and proofs for TLAPS. Paths below are
relative to `src/`.

Contents: [inventory](#inventory), [modules](#modules),
[reverse swaps](#reverse-swaps), [normal swaps](#normal-swaps),
[swaps on Stacks](#swaps-on-stacks), [contracts](#contracts),
[atomic swaps](#atomic-swaps), [channel creations](#channel-creations),
[chain client](#chain-client), [runs](#runs), [fairness](#fairness),
[disagreements](#disagreements), [observations](#observations),
[proofs](#proofs), [what is not modelled](#what-is-not-modelled),
[plan](#plan).

## Inventory

The backend is one Node.js process: handlers interleave at every `await`, and
nothing else protects their reads and writes but a few `AsyncLock`s. Rows of a
database (Sequelize) survive a crash; everything else (event listeners,
filters, pending promises, queues of the locks) does not.

| Component | State | Operations | What is hard | What makes it correct |
|---|---|---|---|---|
| `lib/swap/SwapNursery.ts` | rows of swaps; locks `swapLock`, `reverseSwapLock`, `retryLock` | listeners of all nurseries: lock up, pay, claim, settle, refund, expire; retry loop | handlers wait for the lock with a copy of the row read earlier; every step may fail; crash between chain and database | money leaves only against money that came or is held; what is locked is claimed or refunded |
| `lib/swap/UtxoNursery.ts` | rows; output and input filters of the chain client | lockups, claims, confirmations, expiries of UTXO swaps | runs outside SwapNursery's locks; duplicates and losses of ZMQ | every lockup and claim is noticed; only good lockups are accepted |
| `lib/swap/LightningNursery.ts` | subscriptions of hold invoices | `htlc.accepted` of the hold and the miner fee invoice | two handlers, each looks the other's invoice up | pays out once, with both invoices paid |
| `lib/swap/InvoiceNursery.ts` | timer | finds expired invoices | races the payment | cancels no payment that arrived |
| `lib/swap/ChannelNursery.ts` | rows of channel creations, retry map | open, settle through the channel, abandon | timers, gives up after three tries | a funded channel is settled or abandoned |
| `lib/swap/StacksNursery.ts`, `EthereumNursery.ts`, `RskNursery.ts` | rows | contract events, expiries | events from a websocket or from polling; one height for two chains | as UtxoNursery |
| `lib/swap/SwapManager.ts`, `lib/service/Service.ts` | rows | create swaps, set invoices, recreate filters at start-up | API calls read, await and write while nurseries do | an invoice is set once and judged against the lockup |
| `lib/db/*Repository.ts` | tables | updates and status queries | the statuses a query names decide who is looked after | no swap with money in it is outside every query |
| `lib/chain/ZmqClient.ts`, `ChainClient.ts` | filters, unconfirmed relevant transactions | relevance, notifications, rescans | first and second notification, lost ones, block gaps | a relevant transaction is reported once unconfirmed, once confirmed |
| `lib/lightning/LndClient.ts` | connection | pay, hold invoices, lookups | payments that outlast the caller | |
| `lib/wallet/**` | keys, Stacks nonce, pending Ethereum transactions | send, contract calls, contract events | one nonce for concurrent calls | |
| `lib/rates/*`, `TimeoutDeltaProvider.ts`, `InvoiceExpiryHelper.ts` | rates | amounts, fees, timeouts | rounding, conversions of blocks between chains | the two directions of an amount agree |
| `contracts/*.clar` | maps of HTLCs | lock, claim, refund, trigger | order of calls | a lock is claimed with the preimage or refunded late, once |
| `lib/service/EventHandler.ts`, `lib/api`, `lib/grpc`, `lib/cli` | event streams | status updates, forwarding | order of updates | |
| `lib/service/Balancer.ts`, provider swaps | rows | external services | | |
| `lib/notifications`, `lib/backup`, `lib/data`, `Config.ts`, `Boltz.ts` | | text, files, wiring | | |

How they meet: chain client and LND emit events; the nurseries look rows up
and emit events that carry the row they read; SwapNursery's listeners take a
lock and act on the copy they were handed; the API calls into SwapManager and
from there straight into SwapNursery, without the lock. Timers drive
InvoiceNursery, ChannelNursery and the retry loop. At start-up SwapManager
recreates filters and subscriptions from the rows and the chain is rescanned
from the last known tip.

## Modules

| Module | Models |
|---|---|
| `ReverseSwap` | reverse swaps (Lightning to a UTXO chain) |
| `Payout` | what a reverse swap promises, without processes, locks or rows |
| `MCReverseSwap` | instances of `ReverseSwap` for TLC |
| `ReverseSwap_proofs` | theorems of `ReverseSwap` |
| `ReverseSwapOnce_proofs` | theorems on how often coins are sent, and on what holds as long as no block overtakes the backend |
| `SubmarineSwap` | normal swaps (a UTXO chain to Lightning) |
| `Purchase` | what a normal swap promises to the operator |
| `MCSubmarineSwap` | instances of `SubmarineSwap` for TLC |
| `SubmarineSwap_proofs` | theorems of `SubmarineSwap` |
| `StacksSwap` | reverse and normal swaps whose chain is Stacks, with the account all contract calls share |
| `MCStacksSwap` | an instance of `StacksSwap` for TLC |
| `StacksSwap_proofs` | theorems of `StacksSwap` |
| `SwapContract` | the Clarity contracts `stxswap_v10`, `sip10swap_v3` and `triggerswap-v7` |
| `Htlc` | what a hash time lock promises, whatever the calls |
| `SwapContract_proofs` | theorems of `SwapContract` |
| `Rewards` | the Clarity contract `trustless-rewards` |
| `Sums` | sums over finite sets, as cardinalities |
| `AtomicSwap` | chain-to-chain swaps between a UTXO chain and Stacks |
| `AtomicSwap_proofs` | theorems of `AtomicSwap` |
| `ChannelCreation` | ChannelNursery and the part of SwapNursery it races with |
| `ChannelCreation_proofs` | theorems of `ChannelCreation` |
| `ZmqClient` | how a Bitcoin-like chain is followed: blocks, a transaction, rescans |
| `MCParts` | the last five components side by side, for TLC |
| `Parts_proofs` | theorems of `Rewards`, `ZmqClient` and `MCParts` |

Each action is one stretch of code between two `await`s that others can see:
a query, an update of a row, a call of LND or of the node. Updates are of the
row, decisions are often of a copy; where the code decides from a copy, the
copy (or the part of it that matters) is in the event or in the state of the
handler. Ids, amounts, scripts and preimages are abstracted to what the
properties tell apart: which swap, which lockup, whether it is enough.

## Reverse swaps

`ReverseSwap` keeps, per swap, the columns `status` and `transactionId`
(`txOut`), the states of the hold invoice and of the miner fee invoice in LND,
the lockups that were sent with what spends them, and what ZMQ has told about
claims. `queue` is `reverseSwapLock`: the handler at its head holds the lock,
the others await it with the copy they were emitted with; `step` is where the
head is. LightningNursery's two handlers and UtxoNursery's confirmation check
run outside that lock and have their own program counters.

* `OnHoldAccepted`, `OnFeeAccepted`, `FeeSetStatus`, `FeeLookup`,
  `HoldSettlesFee`, `FeeSettlesFee`: `LightningNursery.listenInvoices`.
* `SendToAddress`, `AddFilters`, `SetLockupTransaction`, `SendFails`,
  `CancelAfterFailure`, `SetTransactionFailed`: `lockupUtxo` and its catch.
* `CheckReverseSwapClaims`, `SettleInvoice`, `SetInvoiceSettled`,
  `SettleFails`: from the claim in the mempool to the settled invoice.
* `CheckExpiredReverseSwaps`, `QueryExpired`, `SetSwapExpired`, `RefundUtxo`,
  `SetTransactionRefunded`, `CancelHold`, `CancelFee`: from the block to the
  refund and the cancelled invoices.
* `CheckExpiredInvoices`, `LookupExpired`, `CancelExpiredHold`,
  `CancelExpiredFee`, `SetInvoiceExpired`: invoices that expire unpaid.
* `ReadMempoolSwaps`, `ReverseSwapLockupConfirmed`: the confirmation check,
  the fallback of every block included.
* `Restart`: a crash and what start-up recreates. `LoseNews`: a lost message.

LND settles an accepted hold invoice, and to settle it again succeeds as well
(`proto/lnd/invoices.proto:34`). So both of LightningNursery's handlers may
settle the miner fee invoice and emit `invoice.paid`: a swap with a miner fee
invoice can be paid out twice in one life of the process, which is one of the
[disagreements](#disagreements). A row knows one lockup, the last; properties
about rows and claims are therefore about swaps that were paid out once.

The action `RefundUtxo` fails, as the node does, when the output is spent.
`calm` is a history variable: no block has overtaken what the backend had under
way (`Quiet`, `InTime`), it has not crashed, and sending has not failed
half-way. Behaviours in which blocks do overtake it are explored all the same;
three properties say what is lost with them.

Lockups per swap (`MaxLockups`), waiting expiry events (`MaxPending`), blocks,
crashes and faults are bounded; each bound is a constant.

`Payout` promises that coins are locked only for a payment that arrived, a
payment is taken only against a claimed payout, and is given back only when
the swap has expired or paying out has failed. `KeepsPromise` states that
`ReverseSwap` implements it.

## Normal swaps

`SubmarineSwap` keeps the columns `status`, `invoice`, `acceptZeroConf` and
`lockupTransactionId`, the payment in LND, the user's lockup and what spends
it. Three parties touch the same row:

* UtxoNursery, outside any lock: `CheckSwapOutputs` reads the row,
  `SetLockupTransaction` writes it, and `RejectLowAmount`, `RejectZeroConf` or
  `AcceptLockup` judges the copy and emits. Both notifications of a lockup may
  be under way at once. `CheckExpiredSwaps` runs with every block.
* SwapNursery under `swapLock` (`queue`, `step`): `QueryExpired` and
  `SetSwapExpired`, `LockupFailed`, `ZeroConfRejected`, `OnLockup`, and the
  retry loop `RetryTimer`, `RetryQuery`, `RetryNext`, `RetryDone`.
* The API call: `ReadSwap` and `SetInvoice`, which may settle at once.

`claimUtxo` with `paySwapInvoice` is run by two workers, `"lock"` (the holder
of the lock) and `"api"`: `SetInvoicePending`, `SendPayment`, the answers
(`SentBefore`, `PaidBefore`, `InvoiceIsExpired`, `RaceTimeout`, and LND's
`PaymentSucceeds`, `PaymentRejected`, `PaymentFails`), `Abandon`,
`SetInvoicePaid`, `Broadcast`, `SetMinerFee`. LND pays an invoice once,
whoever asks: this is the only thing that keeps two workers apart.

Whether a lockup signals RBF or pays too small a fee is left open: a 0-conf
lockup may always be rejected, and is accepted only if the row says so. A
payment that is looked at after the invoice expired may get either answer. Of
the API, one call per swap at a time.

`Purchase` promises the operator that an invoice is paid only against coins
that are locked and enough, and that coins are claimed only for a paid
invoice. That users take coins back only after expiry is there for the chain.

## Swaps on Stacks

`StacksSwap` has any number of reverse swaps (`Outgoing`) and normal swaps
(`Incoming`), two locks with a queue each (`queue`, `at`: the await the head
stands at), the contract's entry of every swap with its history, the account's
transactions in the node (`executed`, `mempool`, `aborted`, `refused`), and the
process's `nonce`.

* `Sign`, `CallAccepted`, `CallRefused`, `LoseAnswer`, `IncrementNonce`: what
  `ContractHandler` and its callers do for `lockStx`, `claimStx` and `refundStx`:
  read the nonce, sign, broadcast, and increment once the node has answered.
  `AskNonces` and `ApplyNonces` are the check of every minute.
* `ListenLockup`, `ListenRefusedLockup`, `SetLockupTransaction`: a lockup's row
  is written by the handler and by a listener nobody awaits, in any order.
* `ClaimStx`, `SetInvoicePending`, `SendPayment`, `PaymentAnswered`,
  `SetMinerFee`, `LockupFailed`, `ExpireSwap`, `RetryTimer`, `RetryQuery`:
  normal swaps; `SettleInvoice`, `SetInvoiceSettled`, `SendFailed`,
  `MarkFailed`, `ExpireReverseSwap`, `SetTransactionRefunded`,
  `SetSwapExpired`, `CancelInvoice`: reverse swaps.
* `OnLockup`, `ConfirmOwnLockup`, `StoreUserLockup`, `OnClaim`, `CheckExpired`:
  StacksNursery, outside the locks; an event reads the row first and writes it
  after an await.
* `ExecuteCall`, `MineBlock` and the users' calls are the chain; the contract
  is reduced to `Succeeds`, which `SwapContract` has in full. Users choose the
  terms of a lockup: whether amount and time lock are the swap's, and whether
  the backend is the one who may claim it. The code checks the first only.
* `LoseNote`: the web socket drops an event. `Restart`: a crash, what
  `StacksNursery.init` does to lockups still in the mempool, and the rescan.

The node takes a call whose nonce is not used and not below the account's; it
answers the nonce question with what is pending and missing. `skewed` records
that two uses of the nonce overlapped: of two handlers, of a handler and the
nonce check, through a lost answer, or at a restart with calls pending. Without
any of these one variable is enough, and that is what `SerialCallsAccepted`
says; with them it is not, and nothing in the code makes up for it.

## Contracts

`SwapContract` has one action per public function that succeeds; a call that
fails changes nothing, with one exception: a trigger call whose second part
fails is undone, but its arguments, the preimage among them, are public
(`TriggerFails`). `Htlc` is the promise: terms nobody changes, and one way out
for either party. `KeepsHashLock` states that the contracts keep it, with the
users who know the preimage (`Knows`) as the refinement's knowledge. `Solvent`
states that the contract holds exactly what its entries promise, token by token.

`Rewards` has lobbies with a price, players with a purse, and one pot. Batches
(`publish-result-many`, `finish-result-many`) succeed or fail as a whole, which
the contract gets by folding the results of its parts. The owner may finish a
lobby again and withdraw what he likes: `EntriesPaidFor` promises the players no
more than that nobody joins unpaid or pays twice.

## Atomic swaps

`AtomicSwap` is one swap from the moment the user's lockup is confirmed. `ours`
is the backend's lock and `theirs` the user's, on the chain that `side` does not
name. Handlers wait for `swapLock` (`asJobs`, `at`); the listener of a Stacks
broadcast and refunds run beside it because nobody awaits them. `excuse`
collects what may make the backend lose: it names the state of the row that hid
a claim, a failed call, or a timeout that came first. `ClaimedInTimePaid` and
`OursComesBack` say that there is no other way; which excuses are needed is what
the run shows about the code. An expiry event carries the copy of the row it was
found with: `expireLocked` if that has the id of the backend's lockup, `expire`
if not. Only the first starts a refund, so that an event which is older than the
record of the lockup leaves the coins locked (excuse `stale`).

## Channel creations

`ChannelCreation` is one normal swap whose invoice may need a channel. Its three
handlers stand for `swapLock`, `channelCreationLock` and `channelSettleLock`,
each with the copies of the rows it has read. `saw` records two openings under
way at once, and swaps that are paid for though the handler itself read them as
expired. `start.failed` is a start-up that threw: the backend does not come up.

## Chain client

`ZmqClient` has the node as a tree of blocks with a tip (each block with its
height and the set of blocks it builds on), and the client's `blockHeight` and
`bestBlockHash`. `ReceiveBlock` is the raw block handler, which asks the node
about a block that does not follow; `AnswerBlock` takes the answer, or one of
the hash block handler; both may be overtaken. `ReceiveTx`, `NodeAnswers` and
`TakeAnswer` are the transaction handler and its query, and `QueryFails` a query
that throws, which takes the announcement with it. A crash may come at any time,
during the start and the rescan too. `Crash`, `Connect`, `Subscribe`,
`RescanBlock` and `RescanEnds` are a restart: height first, filters later, and
then the rescan from the height on record. The swap models assume no more than
this one shows: a notification may be lost, and after a crash what is confirmed
may be reported again or not.

## Runs

| Run | Instance | Checks |
|---|---|---|
| `RS_races` | one swap with the miner fee protocol, three lockups, the heights before and at the timeout, one waiting expiry event, one crash, one fault of any kind, blocks and claims at any time (545 thousand states) | `TypeOK`, `SettledImpliesClaimed`, `RefundedRowHasRefund`, `PayoutsBounded`, `EarlyClaimNotCancelled`, `CoinsTracked`, `KeepsPromise`, `SentWhileHeld` |
| `RS_live` | one swap with the miner fee protocol, two lockups, blocks slower than handlers, no crash, no fault, users who claim in time or never | `CoinsResolved`, `PaymentResolved`, `ClaimSettles` |
| `SS_races` | one swap whose invoice is set late, one crash, one failing claim, expiry at any time | `TypeOK`, `PaidOnlySufficient`, `RowIsRight`, `KeepsBargain` |
| `SS_timely` | two swaps created with their invoices, handlers and payments faster than blocks, one temporary payment failure | `ZeroConfOnlyIfAccepted`, `PaidIsPursued`, `LockupSettled`, `PaidIsClaimed` |
| `ST_races` | a reverse and a normal swap on Stacks that overlap; or one of them with a crash, a lost answer or a lost event; two nonces, blocks before and after the timeout | `StacksTypeOK`, `TakenOnlyForClaim`, `PaysOnlyGoodLockups`, `SerialCallsAccepted`, `RowExplained`, `GivenBackForRefund` |
| `Parts` | contracts with two users, two hashes and two tokens; rewards with two players and two lobbies; one channel creation with two channels, a retry and a crash; one atomic swap on either side with a failing call; a chain of three blocks with a lost announcement or a failing query, and a crash | `PartsTypeOK`, `Solvent`, `PaysOutEntries`, `KeepsHashLock`, `EntriesPaidFor`, `SecondChannelOnlyByRace`, `ExpiredPaidOnlyAtStart`, `StartFailsOnlyByRace`, `ClaimedInTimePaid`, `OursComesBack`, `EveryHeightOnce`, `ConfirmationSeen` |
| `RS_double_payout`, `RS_lockup_after_expiry`, `RS_late_claim`, `RS_failed_but_sent`, `SS_claim_fails`, `SS_zero_conf` | as small as shows it | one property each, violated: see [disagreements](#disagreements) |

Why the instances are enough: swaps share the lock and the retry loop and
nothing else, so a second swap is there to delay the first and to be confused
with it. Delay needs no second swap: a handler may wait for as long as it likes.
The runs of reverse swaps therefore have one, and the proofs are for any number.
One crash and one fault are enough for each to fall between any two steps. Three
lockups in `RS_races` are one more than two handlers, or one and a crash,
explain. An expiry event that waits while the row changes is what can go wrong
with expiry, and one such event does; the liveness run has two. Of heights, one
before and one at the timeout are told apart.

In `ST_races` `MaxLoad` bounds what one behaviour combines: two swaps, or one
and a fault, or two faults. A lockup of coins that the backend may not claim
counts twice, so it is explored alone: whether the call of its claim fails tells
it from any other only after the payment. Two nonces are enough for a call after
a skewed one. That makes 1.6 million states. The
five components of `Parts` share no state and are explored side by side, never
interleaved: the initial state chooses one. Amounts up to two let an entry be
worth another or two; one height before and one after every time lock; two
channels are one too many; three blocks are a fork and a reorganisation (five
blocks without losses were explored as well). `Timely` is set for atomic swaps:
the user's lock does not time out while a claim is being handled.

Deadlock is not checked: swaps end, and the bounds stop blocks and crashes.

`TimelyBlocks` and `Timely` say that blocks (and expiries of invoices) are
slower than the handlers: no block comes while an event waits or a handler runs.
Swaps time out after days and handlers take seconds, so this is the normal case,
and several properties hold only in it. Without it, stale events meet rows they
know nothing of; the races runs and the violated properties show what that does
and does not break. In `RS_races` nothing is cut away: `calm` records whether a
block came too early, and only the three properties that name it claim nothing
afterwards. In normal swaps `Timely` also has payments end before the next
block. What happens to a payment that is in flight when its swap expires, or
that is begun from an old copy after the timeout, is not protected by the code;
no property is stated about it (see [observations](#observations)), and
`SS_races` explores it without `Timely`.

## Fairness

Liveness is checked under weak fairness of the process (every handler that can
go on does; the event loop is a queue), of the timers (`setInterval`), of
notifications and of blocks. LND's payments end: it gives up after
`paymentTimeout`. That the answer sometimes comes while a caller waits is
strong fairness of `Answered`: the race timer runs twice as long as LND's own.
Users, expiries and faults are not fair: users may never pay, lock or claim.
The liveness runs have no crashes; a crash may lose what the rows do not say.

## Disagreements

* `RS_double_payout`: the handlers of the hold invoice and of the miner fee
  invoice each find the other invoice paid, settle the miner fee, which LND
  allows twice (`proto/lnd/invoices.proto:34`), and emit `invoice.paid`. The
  coins are sent twice for one payment; the row keeps the second lockup
  (`docs/api.md:934`, `lib/swap/LightningNursery.ts:78`).
* `RS_lockup_after_expiry`: an expiry event emitted before a lockup, and run
  after it, marks the row `SwapExpired` though coins were just locked:
  `expireReverseSwap` looks at the `transactionId` of its copy. No query selects
  the row again, so the coins are not refunded (`docs/lifecycle.md:55`).
* `RS_late_claim`: the expiry check removes the input filter before it refunds.
  A claim that arrives then makes the refund fail and is not seen: the payment
  is not settled (`docs/lifecycle.md:41`).
* `RS_failed_but_sent`: the catch of `lockupUtxo` covers the steps after the
  broadcast too. If one throws, the payment is cancelled with the coins out
  (`docs/lifecycle.md:53`).
* `SS_claim_fails`: `InvoicePaid` is written before the claim is built and
  sent. If that fails, no query selects the row again (`docs/lifecycle.md:18`,
  `lib/swap/SwapNursery.ts:1790`).
* `SS_zero_conf`: `setSwapInvoice` takes every lockup that is not recorded as
  rejected for one it may pay for; the record waits for the lock, so that an
  unconfirmed lockup can be paid for that was not accepted
  (`lib/swap/SwapManager.ts:609`).

## Observations

What the models show of the code where no document, comment or test of the
repository says otherwise. None of these has a run of its own; the properties
named allow for them, and would be stronger without.

* Stacks, restart: a lockup still in the mempool counts as failed, since
  anything but `success` does (`lib/swap/StacksNursery.ts:236`): the payment is
  given back with the lockup on its way (`GivenBackForRefund`).
* Stacks, refusals: a claim is recorded as `TransactionClaimed`
  (`lib/swap/SwapNursery.ts:1678`) and a refund as `TransactionRefunded`
  (`:2127`) whatever the node answered (`RowExplained`).
* Stacks, rows: the stale write of an expiry covers `InvoiceSettled`, and that of
  a confirmation (`lib/swap/StacksNursery.ts:301`) covers whatever was written
  meanwhile. A missed event of its own lockup leaves a row in
  `TransactionMempool`, which no expiry selects.
* Stacks, tokens: `attemptSettleSwap` has no case for SIP10 tokens: a pending
  invoice of such a swap is never asked about again. The rescan asks for one
  transaction of every block (`lib/wallet/stacks/ContractEventHandler.ts:104`).
* Stacks, terms: who may claim a user's lockup is not checked
  (`lib/swap/StacksNursery.ts:412`, `contracts/stxswap_v10.clar:43`): a lockup of
  the right amount that only somebody else can claim is paid for, and the
  backend's claim fails. `PaysOnlyGoodLockups` is about amount and time lock.
* Normal swaps: a payment that is in flight at the timeout height goes on while
  its row becomes `SwapExpired` (`lib/db/SwapRepository.ts:12`), and `claimUtxo`
  pays from its event's copy however late it gets the lock
  (`lib/swap/SwapNursery.ts:280`). The user may take the coins back meanwhile.
* Reverse swaps: a confirmation may overwrite what a handler wrote meanwhile
  (`lib/swap/UtxoNursery.ts:459`). The row is then expired once more; the node
  refuses the second refund.
* Channels: the claim handler and the peer listener hold different locks and may
  each open a channel (`SecondChannelOnlyByRace`); start-up settles channels of
  expired swaps (`ExpiredPaidOnlyAtStart`), and throws on one whose swap was
  claimed, since `getSwap` then finds nothing (`StartFailsOnlyByRace`). A race
  timeout of the payment counts as settled.
* Atomic swaps: a refused Stacks lockup is recorded like an accepted one; the
  backend's own unconfirmed lockup is judged as if it were a user's and may be
  rejected, after which a claim of it is not found; both sides time out the same
  number of blocks from now (`lib/swap/SwapManager.ts:226`, `:312`); a refund is
  tried once, and not at all if the expiry event is older than the record of the
  lockup (`lib/swap/SwapNursery.ts:1892`), although the row becomes `SwapExpired`
  either way (`ClaimedInTimePaid`, `OursComesBack`).
* Chain client: a query of an announced transaction that throws
  (`lib/chain/ZmqClient.ts:204`) loses the event. New blocks save their height
  while older ones are being rescanned (`lib/chain/ChainClient.ts:267`), so that
  after a crash during the rescan the next one begins too high. Both may lose a
  confirmation (`ConfirmationSeen`).
* Chain client: the second announcement of a transaction is taken for its
  confirmation (`lib/chain/ZmqClient.ts:194`). Bitcoin Core announces it again
  too when a block is undone; `ConfirmationSeen` asks for no less than
  confirmations, and does not claim that each was one.

## Proofs

The swap models of UTXO chains are proved for every set of swaps, every timeout
height and every bound, from `BoundsAssumption` alone where no hypothesis is
named. Each proof module has the same parts: facts about the queue, types, what
steps never take back (`Grows`), one lemma per part of the invariant (or per
group of actions) with one step per action, and the refinement.

`ReverseSwap_proofs`: `TypeCorrect`, `Inductive`, `SettledOnlyIfClaimed`,
`RefundedOnlyIfRefunded`, `ImplementsPromise`.
`SettledImpliesClaimed` is not inductive: a claim event that waits must be about
a claimed lockup when its turn comes. `IInv` adds that what waiting events say
is so (`QueueInv`), that what the running handler found out before an `await`
still is (`StepInv`), and that LightningNursery's handlers settle the miner fee
only of a swap whose payment has arrived (`HandlerInv`).

`ReverseSwapOnce_proofs`: `OnceInductive`, `SendsAreBounded`, `SendsWhileHeld`,
`SentInductive`, `LockupsAreTracked`, `EarlyClaimsAreKept`, with no hypothesis
on the instance. `OnceInv` counts the payouts of a swap: the lockups sent, the
`invoice.paid` events that wait (`PayoutsDue`) and the handlers that may yet
emit one (`Rights`). They are never more than one and one per crash, or two if
there is a miner fee invoice; the two do not add up because a restart subscribes
to both invoices only as long as the row is `SwapCreated`, in which nothing was
sent (`FeeInv`: the miner fee is reported once and before anything is paid out).

The other theorems are about behaviours that are `calm`. `PayInv` says that then
nothing is to be paid out once the timeout is reached (`LateOK`) and that the
payment is held as long as coins may be sent for it (`HeldOK`: whoever settles
or cancels has a claim, a timeout or an open invoice to show); `SendsWhileHeld`
follows, with the second payout of a swap with a miner fee invoice as the
exception it names. `SentInv` adds, of swaps that were paid out once, that the
row knows of the coins that are out (`TrackedOK`), that expiry events that wait
say what the row says (`ExpiryOK`), that a payment is given back with no coins
out or all of them back (`KeptOK`), and what the running handler found out
(`FoundOK`); `LockupsAreTracked` and `EarlyClaimsAreKept` follow. Losses,
failing settle calls and late claims are allowed.

`SubmarineSwap_proofs`: `TypeCorrect`, `Inductive`, `PaysForGoodCoins`,
`RowsAreRight`, `ImplementsBargain`. Even types need the lock: a worker that
gives it back must hold it (`LockInv`). `PaidOnlySufficient` follows from
`GoodInv`: whatever may come to pay for a swap (a status, the retry loop's list,
the API's copy, a worker) rests on a lockup somebody compared with the invoice;
`JobInv` says so of events, `ChainInv` that only what was sent is looked at.
`WorkerInv` and `ClaimInv` carry "paid" and "claimed" from LND and the chain
over the awaits to the row.

The same module proves what `SS_timely` checks. `ZeroConfAccepted` needs no
hypothesis: of a swap that was created with its invoice, an unconfirmed lockup
is paid for only if the swap accepts 0-conf, with crashes, retries and lost
notifications. `ZeroConfInv` follows the acceptance from the check that read it
through the event to the worker; `KnownInv` says that the client knows a lockup
as unconfirmed only between its first and its second notification.
`InductiveInTime` and `PaymentsArePursued` assume `InTime`: `Timely`,
`InvoiceFirst = Swaps` and `MaxRestarts = 0`. `TimelyInv` says that each swap is
in one place (`OneOK`): a notification being looked at, an event that waits, or
a worker with the retry loop; that it is in none before its lockup was noticed
and none from its timeout on (`RestOK`); that the retry loop's list is right
(`LoopOK`); and what the row says of a payment that is out (`PayOK`). From it
follows `PaymentsArePursued`, if `"claim" \notin Failures`. TLC shows that the
hypotheses are needed: `PaidIsPursued` fails without `Timely`, with a swap whose
invoice comes late, and after a crash.

`StacksSwap_proofs`: `StacksTypeCorrect`, `StacksInductive`, `TakesForClaims`,
`PaysForLockups`, `RowsExplained`, `SerialCalls`, `GivesBackForRefunds`, from
`StacksAssumption` alone: for every finite set of swaps, every timeout height
and every bound. So all properties of `ST_races` are proved. `MoneyInv` carries
a claim or a lockup with the right terms from the contract through the event
(`ChainInv`) and the job (`JobInv`) to the payment (`PayInv`). `CallInv` says
that a handler which goes on to write "claimed" or "refunded" has a call behind
it. `NonceInv` counts the nonces that are taken: while calls are serial, those
in the node are exactly the ones from the next to execute up to `Taken`, where
the process is one behind between the node's answer and its own increment.
`CalmInv` orders the jobs of a reverse swap as long as there are no mishaps: one
payment job, no coins locked before its call is accepted, and no job that gives
the payment back unless the call was refused (`PaidOnce`, `JobFits`,
`HeadFits`).

`SwapContract_proofs`: `ContractTypeCorrect`, `PayoutsCorrect`,
`ContractImplementsHtlc`, `ContractIsSolvent`, from `ContractAssumption` alone.
The type invariant says that no balance falls below zero, and is inductive; with
it every transfer is two balances that change (`MovedFacts`), from which both
other theorems follow call by call. `Solvent` compares a balance with a sum over
entries. `Sums` writes a sum as the number of coins it counts, so that adding or
removing an entry adds or removes a finite set that is disjoint from the rest
(`TotalGrows`), which needs no induction.

`AtomicSwap_proofs`: `AtomicTypeCorrect`, `AtomicInductive`, `NoFreeSwap`,
`CoinsComeBack`. Neither property is inductive. `TheirsInv` adds that an expiry
under way means the user's side is past its timeout (`ExpiryInv`), where a
failed lockup comes from (`FailedInv`) and that a user who has claimed in time
is either paid for or being handled (`ClaimInv`); `OursInv` that the lockup goes
out once and that a handled expiry leaves a refund under way until the coins are
gone, unless the copy in its event had no lockup, or the refund was early or
failed.

`ChannelCreation_proofs`: `ChannelTypeCorrect`, `ChannelInductive`,
`OneChannel`, `ExpiredPaidAtStart`, `StartFailsByRace`, for every number of
channels, retries and crashes. `OpenInv` says that, unless handlers raced, who
opens a channel is alone: the claim handler is past paying before the peer
listener may open one (`NoOpening`); `CalmInv` that before the first crash a
created channel is settled by one handler that walks the row from
`ChannelCreated` to `TransactionClaimed` (`SettleAlone`), so that a start-up
finds nothing in between.

`Parts_proofs`: `RewardsTypeCorrect` and `EntriesArePaidFor` by the same sums
(`RewardsInv` adds that lobbies are numbered without gaps, so that a new one has
nobody on its scoreboard); `ZmqTypeCorrect`, `HeightsOnce`,
`ConfirmationIsSeen`, for any number of blocks, losses and crashes;
`PartsImplementEach` and `PartsTypeCorrect`, which carry over to the run what is
proved of each part. `BaseInv` says that the node's blocks form a tree and that
the client is behind it by what is in the mail. `ConfirmationSeen` needs
`WillBeSeen`: a transaction that is in the node's chain and was not reported is
announced, asked for, about to be rescanned, or excused by `trouble.missed`: a
dropped announcement or failed query, one made before the filters were, or a
crash at any time that forgot it with a later block saved.

Only model-checked: liveness under fairness, which is out of TLAPS's reach
(`CoinsResolved`, `PaymentResolved`, `ClaimSettles`, `LockupSettled`,
`PaidIsClaimed`), and that a property of a violated run fails, which TLC shows
with a counterexample. Every invariant, action property and refinement that a
passing run checks is a theorem, some under the hypotheses stated above.

## What is not modelled

* EVM chains: `EthereumNursery`, `RskNursery` and their wallets. Their contracts
  are not in the repository.
* SIP10 swaps of the backend follow the code for STX with another contract; the
  contract is modelled, the backend's copies of the handlers are not. Nor are
  atomic swaps between two UTXO chains.
* Double spends of unconfirmed lockups, and reorganisations in the swap models.
* Amounts, fees and rates are floating point arithmetic whose rounding TLA+
  integers would not follow.
* Migrations, configuration, notifications, balancing, the API, gRPC and CLI:
  sequential, text or I/O.

Two thirds of the implementation's lines are code generated from protocol
definitions (`lib/proto`), and much of the rest is logging, text, configuration
and commented-out code, so that the share of mapped lines is small although the
swap logic is in it. `PROJECT.json` lists each component with what is left out
of it and why.

## Plan

What a next step could add, most useful first: `EthereumNursery` with a contract
modelled from how the code uses it; fault models in which calls hang; a run of
normal swaps with late invoices and blocks faster than handlers; a
reorganisation in the swap models, now that `ZmqClient` says what is reported of
one.
