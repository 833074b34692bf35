----------------------------- MODULE ReverseSwap -----------------------------
(***************************************************************************)
(* Reverse submarine swaps (Lightning to chain) of a UTXO chain: the       *)
(* database row of a swap, the two hold invoices LND keeps for it, the     *)
(* lockup outputs on the chain, and the parts of the backend that move     *)
(* them.  LightningNursery, InvoiceNursery and UtxoNursery detect events   *)
(* outside any lock and hand SwapNursery a copy of the row they read;      *)
(* SwapNursery runs its handlers one at a time, in the order their events  *)
(* were emitted, under the AsyncLock "reverseSwapLock".  Every await of a  *)
(* handler is a point where something else can happen, so a handler is     *)
(* several actions, each named for what it does between two awaits.        *)
(***************************************************************************)
EXTENDS Naturals, Sequences, FiniteSets

CONSTANTS
  Swaps,          \* the reverse swaps, all created before the behaviour starts
  Prepay,         \* those with a miner fee invoice to be paid in advance
  Timeout,        \* [Swaps -> block height], the timeoutBlockHeight column
  MaxHeight,      \* bound: the last block height
  MaxLockups,     \* bound: lockup transactions of one swap
  MaxPending,     \* bound: expiry events of one swap waiting for the lock
  MaxRestarts,    \* bound: crashes of the backend
  MaxFaults,      \* bound: failing calls and lost notifications
  Failures,       \* what may fail: "send", "settle" (calls), "news" (is lost)
  TimelyBlocks,   \* bound: only blocks that are slower than handlers
  LateClaims      \* users also claim at or after the timeout height

ASSUME BoundsAssumption ==
  /\ Prepay \subseteq Swaps
  /\ Timeout \in [Swaps -> Nat \ {0}]   \* a swap times out in a later block
  /\ MaxHeight \in Nat /\ MaxLockups \in Nat /\ MaxPending \in Nat
  /\ MaxRestarts \in Nat /\ MaxFaults \in Nat
  /\ Failures \subseteq {"send", "settle", "news"}
  /\ TimelyBlocks \in BOOLEAN /\ LateClaims \in BOOLEAN

VARIABLES
  status,         \* the status column
  txOut,          \* transactionId and transactionVout: the lockup on record, 0 is null
  hold, fee,      \* state in LND of the hold invoice and of the miner fee invoice
  invoiceExpired, \* the expiry time of the swap's invoices has passed
  sub,            \* live invoice subscriptions
  holdHandler,    \* where a "htlc.accepted" handler of the hold invoice waits
  feeHandler,     \* the same for the miner fee invoice
  queue,          \* handlers holding (head) or awaiting reverseSwapLock
  step,           \* the await at which the head of the queue stands
  confirming,     \* swaps UtxoNursery read as TransactionMempool and has yet to update
  sent,           \* number of lockup transactions broadcast
  mined,          \* which of them are in a block
  spend,          \* what spends a lockup: "none", "claim" or "refund"
  early,          \* history: a claim was broadcast before the timeout height
  height,         \* chain height
  claimNews,      \* ZMQ notifications of a claim that were sent: 0, 1 (mempool), 2 (block)
  watched,        \* ChainClient's input filters
  known,          \* ZmqClient.utxos: claims that were relevant when first seen
  restarts, faults,
  calm            \* history: no block overtook the backend, which sent what it had to

db    == <<status, txOut>>
ln    == <<hold, fee, invoiceExpired>>
subs  == <<sub, holdHandler, feeHandler>>
lock  == <<queue, step>>
chain == <<sent, mined, spend, early, height>>
zmq   == <<claimNews, watched, known>>
env   == <<restarts, faults, calm>>
vars  == <<db, ln, subs, lock, confirming, chain, zmq, env>>

Statuses == {"SwapCreated", "MinerFeePaid", "InvoiceExpired", "TransactionMempool",
             "TransactionConfirmed", "TransactionFailed", "TransactionRefunded",
             "InvoiceSettled", "SwapExpired"}
InvoiceStates == {"OPEN", "ACCEPTED", "SETTLED", "CANCELED"}
Outs  == 1..MaxLockups
Kinds == {"invoice.paid", "reverseSwap.expired", "reverseSwap.claimed", "invoice.expired"}
Steps == {"start", "broadcast", "watching", "sendFailed", "failedCancelled",
          "refund", "refunded", "expire", "cancel", "cancelFee", "settled",
          "cancelHold", "cancelPrepay", "markExpired"}
Jobs  == [kind: Kinds, swap: Swaps, out: 0..MaxLockups]

Init ==
  /\ status = [s \in Swaps |-> "SwapCreated"]
  /\ txOut = [s \in Swaps |-> 0]
  /\ hold = [s \in Swaps |-> "OPEN"]
  /\ fee = [s \in Swaps |-> "OPEN"]
  /\ invoiceExpired = [s \in Swaps |-> FALSE]
  /\ sub = [s \in Swaps |-> IF s \in Prepay THEN {"hold", "fee"} ELSE {"hold"}]
  /\ holdHandler = [s \in Swaps |-> "idle"]
  /\ feeHandler = [s \in Swaps |-> "idle"]
  /\ queue = << >> /\ step = "start"
  /\ confirming = {}
  /\ sent = [s \in Swaps |-> 0]
  /\ mined = [s \in Swaps |-> {}]
  /\ spend = [s \in Swaps |-> [n \in Outs |-> "none"]]
  /\ early = [s \in Swaps |-> FALSE]
  /\ height = 0
  /\ claimNews = [s \in Swaps |-> [n \in Outs |-> 0]]
  /\ watched = [s \in Swaps |-> {}]
  /\ known = [s \in Swaps |-> {}]
  /\ restarts = 0 /\ faults = 0 /\ calm = TRUE

-----------------------------------------------------------------------------
(* The lock, and reading and writing the row *)

Enqueue(kind, s, n) == queue' = Append(queue, [kind |-> kind, swap |-> s, out |-> n])
Running(kind, at)   == queue # << >> /\ Head(queue).kind = kind /\ step = at
Current == Head(queue).swap
Release == queue' = Tail(queue) /\ step' = "start"
Goto(at) == step' = at /\ UNCHANGED queue

SetStatus(s, value) == status' = [status EXCEPT ![s] = value]

(* What LND does with a hold invoice: it settles an accepted one, and to    *)
(* settle it again succeeds as well; it cancels every invoice but a settled *)
(* one.  Anything else is answered with an error.                           *)
CanSettle(state) == state \in {"ACCEPTED", "SETTLED"}
CanCancel(state) == state # "SETTLED"

(***************************************************************************)
(* The users, the chain and LND                                            *)
(***************************************************************************)
PayHold(s) ==
  /\ hold[s] = "OPEN" /\ ~invoiceExpired[s]
  /\ hold' = [hold EXCEPT ![s] = "ACCEPTED"]
  /\ UNCHANGED <<db, fee, invoiceExpired, subs, lock, confirming, chain, zmq, env>>

PayFee(s) ==
  /\ s \in Prepay
  /\ fee[s] = "OPEN" /\ ~invoiceExpired[s]
  /\ fee' = [fee EXCEPT ![s] = "ACCEPTED"]
  /\ UNCHANGED <<db, hold, invoiceExpired, subs, lock, confirming, chain, zmq, env>>

ExpireInvoices(s) ==
  /\ ~invoiceExpired[s]
  /\ invoiceExpired' = [invoiceExpired EXCEPT ![s] = TRUE]
  /\ UNCHANGED <<db, hold, fee, subs, lock, confirming, chain, zmq, env>>

(* LND's own expiry watcher cancels an open invoice that has expired.      *)
LndCancelsHold(s) ==
  /\ hold[s] = "OPEN" /\ invoiceExpired[s]
  /\ hold' = [hold EXCEPT ![s] = "CANCELED"]
  /\ UNCHANGED <<db, fee, invoiceExpired, subs, lock, confirming, chain, zmq, env>>

LndCancelsFee(s) ==
  /\ s \in Prepay
  /\ fee[s] = "OPEN" /\ invoiceExpired[s]
  /\ fee' = [fee EXCEPT ![s] = "CANCELED"]
  /\ UNCHANGED <<db, hold, invoiceExpired, subs, lock, confirming, chain, zmq, env>>

(* The claim path of the redeem script has no time lock: an unspent lockup *)
(* output can be claimed at any height, in the mempool already.            *)
UserClaims(s, n) ==
  /\ n <= sent[s] /\ spend[s][n] = "none"
  /\ LateClaims \/ height < Timeout[s]
  /\ spend' = [spend EXCEPT ![s][n] = "claim"]
  /\ early' = [early EXCEPT ![s] = @ \/ height < Timeout[s]]
  /\ UNCHANGED <<db, ln, subs, lock, confirming, sent, mined, height, zmq, env>>

(* No handler runs, waits for the lock or is about to be called.           *)
Quiet ==
  /\ queue = << >>
  /\ \A s \in Swaps :
       /\ holdHandler[s] = "idle" /\ feeHandler[s] = "idle"
       /\ ~(hold[s] = "ACCEPTED" /\ "hold" \in sub[s])
       /\ ~(fee[s] = "ACCEPTED" /\ "fee" \in sub[s])
       /\ \A n \in Outs : spend[s][n] = "claim" => claimNews[s][n] > 0

(* The next block overtakes nothing: what happens before the timeout height*)
(* is over, invoices have expired, and claims are mined and reported.      *)
InTime ==
  /\ Quiet
  /\ \A s \in Swaps : height + 1 >= Timeout[s] =>
       /\ invoiceExpired[s]
       /\ \A n \in Outs : spend[s][n] = "claim" => claimNews[s][n] = 2

MineLockup(s, n) ==
  /\ n <= sent[s] /\ n \notin mined[s]
  /\ TimelyBlocks => Quiet
  /\ mined' = [mined EXCEPT ![s] = @ \union {n}]
  /\ calm' = (calm /\ Quiet)
  /\ UNCHANGED <<db, ln, subs, lock, confirming, sent, spend, early, height, zmq>>
  /\ UNCHANGED <<restarts, faults>>

MineBlock ==
  /\ height < MaxHeight
  /\ TimelyBlocks => InTime
  /\ height' = height + 1
  /\ calm' = (calm /\ InTime)
  /\ UNCHANGED <<db, ln, subs, lock, confirming, sent, mined, spend, early, zmq>>
  /\ UNCHANGED <<restarts, faults>>

(***************************************************************************)
(* LightningNursery: LND reports an accepted invoice once per subscription *)
(***************************************************************************)
OnHoldAccepted(s) ==
  /\ hold[s] = "ACCEPTED" /\ "hold" \in sub[s]
  /\ sub' = [sub EXCEPT ![s] = @ \ {"hold"}]
  /\ \/ /\ s \notin Prepay
        /\ Enqueue("invoice.paid", s, 0)
        /\ UNCHANGED holdHandler
     \/ /\ s \in Prepay /\ status[s] = "MinerFeePaid"
        /\ holdHandler' = [holdHandler EXCEPT ![s] = "settleFee"]
        /\ UNCHANGED queue
     \/ /\ s \in Prepay /\ status[s] # "MinerFeePaid"
        /\ UNCHANGED <<holdHandler, queue>>
  /\ UNCHANGED <<db, ln, feeHandler, step, confirming, chain, zmq, env>>

OnFeeAccepted(s) ==
  /\ fee[s] = "ACCEPTED" /\ "fee" \in sub[s]
  /\ sub' = [sub EXCEPT ![s] = @ \ {"fee"}]
  /\ feeHandler' = [feeHandler EXCEPT ![s] = "setStatus"]
  /\ UNCHANGED <<db, ln, holdHandler, lock, confirming, chain, zmq, env>>

FeeSetStatus(s) ==
  /\ feeHandler[s] = "setStatus"
  /\ SetStatus(s, "MinerFeePaid")
  /\ feeHandler' = [feeHandler EXCEPT ![s] = "lookup"]
  /\ UNCHANGED <<txOut, ln, sub, holdHandler, lock, confirming, chain, zmq, env>>

FeeLookup(s) ==
  /\ feeHandler[s] = "lookup"
  /\ feeHandler' = [feeHandler EXCEPT ![s] =
                      IF hold[s] = "ACCEPTED" THEN "settleFee" ELSE "idle"]
  /\ UNCHANGED <<db, ln, sub, holdHandler, lock, confirming, chain, zmq, env>>

(* The event is emitted unless LND refuses to settle the miner fee invoice.*)
(* If both handlers found both invoices accepted, both emit it.            *)
EmitPaid(s) ==
  IF CanSettle(fee[s])
  THEN /\ fee' = [fee EXCEPT ![s] = "SETTLED"]
       /\ Enqueue("invoice.paid", s, 0)
  ELSE UNCHANGED <<fee, queue>>

HoldSettlesFee(s) ==
  /\ holdHandler[s] = "settleFee"
  /\ holdHandler' = [holdHandler EXCEPT ![s] = "idle"]
  /\ EmitPaid(s)
  /\ UNCHANGED <<db, hold, invoiceExpired, sub, feeHandler, step, confirming, chain, zmq, env>>

FeeSettlesFee(s) ==
  /\ feeHandler[s] = "settleFee"
  /\ feeHandler' = [feeHandler EXCEPT ![s] = "idle"]
  /\ EmitPaid(s)
  /\ UNCHANGED <<db, hold, invoiceExpired, sub, holdHandler, step, confirming, chain, zmq, env>>

(***************************************************************************)
(* InvoiceNursery polls rows whose invoices were not paid in time.  Bound: *)
(* one event of a swap at a time waits for the lock.                       *)
(***************************************************************************)
Waiting(kind, s) == {i \in 1..Len(queue) : queue[i].kind = kind /\ queue[i].swap = s}

CheckExpiredInvoices(s) ==
  /\ status[s] \in {"SwapCreated", "MinerFeePaid"} /\ invoiceExpired[s]
  /\ Waiting("invoice.expired", s) = {}
  /\ Enqueue("invoice.expired", s, txOut[s])
  /\ UNCHANGED <<db, ln, subs, step, confirming, chain, zmq, env>>

(***************************************************************************)
(* UtxoNursery                                                             *)
(***************************************************************************)
(* A notification of the transaction claiming output n: at most one when   *)
(* it enters the mempool and one when it is in a block.  The second is     *)
(* relevant if the first was, whatever the filters say by then.  A refund  *)
(* is reported too, but has no preimage: LND refuses to settle with what   *)
(* detectPreimage finds in it, and nothing changes.                        *)
Relevant(s, n) == n \in watched[s] \/ n \in known[s]

NextNewsRepeated(s, n) ==   \* faulty variant: a block notification repeats
  /\ spend[s][n] = "claim"
  /\ claimNews[s][n] = 1 => n \in mined[s]
  /\ claimNews' = [claimNews EXCEPT ![s][n] = @ + 1]

NextNewsOfAnySpend(s, n) ==   \* faulty variant: a refund passes for a claim
  /\ spend[s][n] # "none" /\ claimNews[s][n] < 2
  /\ claimNews[s][n] = 1 => n \in mined[s]
  /\ claimNews' = [claimNews EXCEPT ![s][n] = @ + 1]

NextNews(s, n) ==
  /\ spend[s][n] = "claim" /\ claimNews[s][n] < 2
  /\ claimNews[s][n] = 1 => n \in mined[s]
  /\ claimNews' = [claimNews EXCEPT ![s][n] = @ + 1]

OnlyConfirmed == {"TransactionConfirmed"}   \* faulty variant: no 0-conf claims
ClaimableStatuses == {"TransactionMempool", "TransactionConfirmed"}

CheckReverseSwapClaims(s, n) ==
  /\ NextNews(s, n)
  /\ known' = [known EXCEPT ![s] =
                 IF claimNews[s][n] = 0 /\ n \in watched[s]
                 THEN @ \union {n} ELSE @ \ {n}]
  /\ IF /\ Relevant(s, n)
        /\ status[s] \in ClaimableStatuses
        /\ txOut[s] = n
     THEN /\ watched' = [watched EXCEPT ![s] = @ \ {n}]
          /\ Enqueue("reverseSwap.claimed", s, n)
     ELSE UNCHANGED <<watched, queue>>
  /\ UNCHANGED <<db, ln, subs, step, confirming, chain, env>>

(* Both ways to see a lockup confirm, one per transaction and one per      *)
(* block, read the row, wait, and write it back through the copy they      *)
(* read.  They exclude each other by a lock of their own, not by           *)
(* reverseSwapLock.                                                        *)
ReadMempoolSwaps(S) ==
  /\ confirming = {} /\ S # {}
  /\ \A s \in S : status[s] = "TransactionMempool"
  /\ confirming' = S
  /\ UNCHANGED <<db, ln, subs, lock, chain, zmq, env>>

ReverseSwapLockupConfirmed(s) ==
  /\ s \in confirming
  /\ confirming' = confirming \ {s}
  /\ IF txOut[s] \in mined[s] THEN SetStatus(s, "TransactionConfirmed")
                              ELSE UNCHANGED status
  /\ UNCHANGED <<txOut, ln, subs, lock, chain, zmq, env>>

ExpirableInMempool(s) ==   \* faulty variant: lockups stuck in the mempool expire
  /\ status[s] \notin {"SwapExpired", "TransactionFailed", "TransactionRefunded",
                       "InvoiceSettled"}
  /\ Timeout[s] <= height

ExpirableUnlessConfirmed(s) ==   \* faulty variant: confirmed lockups never expire
  /\ status[s] \notin {"SwapExpired", "TransactionFailed", "TransactionRefunded",
                       "InvoiceSettled", "TransactionMempool", "TransactionConfirmed"}
  /\ Timeout[s] <= height

Expirable(s) ==
  /\ status[s] \notin {"SwapExpired", "TransactionFailed", "TransactionRefunded",
                       "InvoiceSettled", "TransactionMempool"}
  /\ Timeout[s] <= height

(* Every block looks for expired swaps, so an event can be emitted again   *)
(* while an earlier one waits; MaxPending bounds how often.                *)
CheckExpiredReverseSwaps(s) ==
  /\ Expirable(s)
  /\ Cardinality(Waiting("reverseSwap.expired", s)) < MaxPending
  /\ watched' = [watched EXCEPT ![s] = @ \ {txOut[s]}]
  /\ Enqueue("reverseSwap.expired", s, txOut[s])
  /\ UNCHANGED <<db, ln, subs, step, confirming, chain, claimNews, known, env>>

(***************************************************************************)
(* SwapNursery on "invoice.paid": lockupUtxo                               *)
(***************************************************************************)
SendToAddress ==
  /\ Running("invoice.paid", "start")
  /\ sent[Current] < MaxLockups
  /\ sent' = [sent EXCEPT ![Current] = @ + 1]
  /\ Goto("broadcast")
  /\ UNCHANGED <<db, ln, subs, confirming, mined, spend, early, height, zmq, env>>

AddFilters ==
  /\ Running("invoice.paid", "broadcast")
  /\ watched' = [watched EXCEPT ![Current] = @ \union {sent[Current]}]
  /\ Goto("watching")
  /\ UNCHANGED <<db, ln, subs, confirming, chain, claimNews, known, env>>

SetLockupTransaction ==
  /\ Running("invoice.paid", "watching")
  /\ SetStatus(Current, "TransactionMempool")
  /\ txOut' = [txOut EXCEPT ![Current] = sent[Current]]
  /\ Release
  /\ UNCHANGED <<ln, subs, confirming, chain, zmq, env>>

SendFailsRetried ==   \* faulty variant: the handler tries again
  /\ Running("invoice.paid", "start") \/ Running("invoice.paid", "broadcast")
  /\ "send" \in Failures /\ faults < MaxFaults
  /\ faults' = faults + 1 /\ calm' = FALSE
  /\ Goto("start")
  /\ UNCHANGED <<db, ln, subs, confirming, chain, zmq, restarts>>

(* Any exception of the block, also one raised after the broadcast while   *)
(* the wallet looks up the transaction it sent, leads to the same handler. *)
SendFails ==
  /\ Running("invoice.paid", "start") \/ Running("invoice.paid", "broadcast")
  /\ "send" \in Failures /\ faults < MaxFaults
  /\ faults' = faults + 1 /\ calm' = FALSE
  /\ Goto("sendFailed")
  /\ UNCHANGED <<db, ln, subs, confirming, chain, zmq, restarts>>

CancelAfterFailure ==
  /\ Running("invoice.paid", "sendFailed")
  /\ IF CanCancel(hold[Current])
     THEN hold' = [hold EXCEPT ![Current] = "CANCELED"] /\ Goto("failedCancelled")
     ELSE Release /\ UNCHANGED hold
  /\ UNCHANGED <<db, fee, invoiceExpired, subs, confirming, chain, zmq, env>>

SetTransactionFailed ==
  /\ Running("invoice.paid", "failedCancelled")
  /\ SetStatus(Current, "TransactionFailed")
  /\ Release
  /\ UNCHANGED <<txOut, ln, subs, confirming, chain, zmq, env>>

(***************************************************************************)
(* SwapNursery on "reverseSwap.claimed": settleReverseSwapInvoice          *)
(***************************************************************************)
SettleInvoice ==
  /\ Running("reverseSwap.claimed", "start")
  /\ IF CanSettle(hold[Current])
     THEN hold' = [hold EXCEPT ![Current] = "SETTLED"] /\ Goto("settled")
     ELSE Release /\ UNCHANGED hold
  /\ UNCHANGED <<db, fee, invoiceExpired, subs, confirming, chain, zmq, env>>

SettleFails ==
  /\ Running("reverseSwap.claimed", "start")
  /\ "settle" \in Failures /\ faults < MaxFaults
  /\ faults' = faults + 1
  /\ Release
  /\ UNCHANGED <<db, ln, subs, confirming, chain, zmq, restarts, calm>>

SetInvoiceSettled ==
  /\ Running("reverseSwap.claimed", "settled")
  /\ SetStatus(Current, "InvoiceSettled")
  /\ Release
  /\ UNCHANGED <<txOut, ln, subs, confirming, chain, zmq, env>>

(***************************************************************************)
(* SwapNursery on "reverseSwap.expired": expireReverseSwap.  The row is    *)
(* queried again for its status; which lockup to refund, and whether there *)
(* is one, is taken from the copy the event carries.                       *)
(***************************************************************************)
HandledBefore(s) == status[s] \in {"SwapExpired", "TransactionRefunded"}
RefundDue(s, n)  == n # 0 /\ status[s] # "TransactionMempool"

QueryExpired ==
  /\ Running("reverseSwap.expired", "start")
  /\ IF HandledBefore(Current) THEN Release
     ELSE Goto(IF RefundDue(Current, Head(queue).out) THEN "refund" ELSE "expire")
  /\ UNCHANGED <<db, ln, subs, confirming, chain, zmq, env>>

SetSwapExpired ==
  /\ Running("reverseSwap.expired", "expire")
  /\ SetStatus(Current, "SwapExpired")
  /\ Goto("cancel")
  /\ UNCHANGED <<txOut, ln, subs, confirming, chain, zmq, env>>

(* The node accepts the refund of a confirmed output no transaction spends *)
(* yet, and once the time lock is reached; else sendRawTransaction throws  *)
(* and nothing after it runs.                                              *)
RefundAccepted(s, n) ==
  n \in mined[s] /\ spend[s][n] = "none" /\ Timeout[s] <= height

RefundUtxoAnyway ==   \* faulty variant: the node's answer is ignored
  /\ Running("reverseSwap.expired", "refund")
  /\ LET n == Head(queue).out IN
       spend' = IF RefundAccepted(Current, n)
                THEN [spend EXCEPT ![Current][n] = "refund"] ELSE spend
  /\ Goto("refunded")
  /\ UNCHANGED <<db, ln, subs, confirming, sent, mined, early, height, zmq, env>>

RefundUtxo ==
  /\ Running("reverseSwap.expired", "refund")
  /\ LET n == Head(queue).out IN
       IF RefundAccepted(Current, n)
       THEN spend' = [spend EXCEPT ![Current][n] = "refund"] /\ Goto("refunded")
       ELSE Release /\ UNCHANGED spend
  /\ UNCHANGED <<db, ln, subs, confirming, sent, mined, early, height, zmq, env>>

SetTransactionRefundedOnly ==   \* faulty variant: the payment is not given back
  /\ Running("reverseSwap.expired", "refunded")
  /\ SetStatus(Current, "TransactionRefunded")
  /\ Release
  /\ UNCHANGED <<txOut, ln, subs, confirming, chain, zmq, env>>

SetTransactionRefunded ==
  /\ Running("reverseSwap.expired", "refunded")
  /\ SetStatus(Current, "TransactionRefunded")
  /\ Goto("cancel")
  /\ UNCHANGED <<txOut, ln, subs, confirming, chain, zmq, env>>

CancelHold ==
  /\ Running("reverseSwap.expired", "cancel")
  /\ IF CanCancel(hold[Current])
     THEN /\ hold' = [hold EXCEPT ![Current] = "CANCELED"]
          /\ IF Current \in Prepay THEN Goto("cancelFee") ELSE Release
     ELSE Release /\ UNCHANGED hold
  /\ UNCHANGED <<db, fee, invoiceExpired, subs, confirming, chain, zmq, env>>

CancelFee ==
  /\ Running("reverseSwap.expired", "cancelFee")
  /\ fee' = [fee EXCEPT ![Current] = IF CanCancel(@) THEN "CANCELED" ELSE @]
  /\ Release
  /\ UNCHANGED <<db, hold, invoiceExpired, subs, confirming, chain, zmq, env>>

(***************************************************************************)
(* SwapNursery on "invoice.expired"                                        *)
(***************************************************************************)
NoHtlcs(s) == FALSE   \* faulty variant: the check for payments is missing

(* htlcsList of the looked up invoice; partial payments are not modelled.  *)
HasHtlcs(s) == hold[s] \in {"ACCEPTED", "SETTLED"}

LookupExpired ==
  /\ Running("invoice.expired", "start")
  /\ \/ hold[Current] = "CANCELED" /\ Goto("markExpired")
     \/ hold[Current] # "CANCELED" /\ HasHtlcs(Current) /\ Release
     \/ hold[Current] # "CANCELED" /\ ~HasHtlcs(Current) /\ Goto("cancelHold")
  /\ UNCHANGED <<db, ln, subs, confirming, chain, zmq, env>>

CancelExpiredHold ==
  /\ Running("invoice.expired", "cancelHold")
  /\ hold' = [hold EXCEPT ![Current] = "CANCELED"]
  /\ Goto(IF Current \in Prepay THEN "cancelPrepay" ELSE "markExpired")
  /\ UNCHANGED <<db, fee, invoiceExpired, subs, confirming, chain, zmq, env>>

CancelExpiredFee ==
  /\ Running("invoice.expired", "cancelPrepay")
  /\ IF CanCancel(fee[Current])
     THEN fee' = [fee EXCEPT ![Current] = "CANCELED"] /\ Goto("markExpired")
     ELSE Release /\ UNCHANGED fee
  /\ UNCHANGED <<db, hold, invoiceExpired, subs, confirming, chain, zmq, env>>

SetInvoiceExpired ==
  /\ Running("invoice.expired", "markExpired")
  /\ SetStatus(Current, "InvoiceExpired")
  /\ Release
  /\ UNCHANGED <<txOut, ln, subs, confirming, chain, zmq, env>>

(***************************************************************************)
(* Faults: a lost notification, and a crash followed by the start-up that  *)
(* subscribes to invoices and sets filters from the rows (recreateFilters) *)
(* and rescans the blocks from the last chain tip on record.  How far back *)
(* that is is left open: any set of mined claims may be reported again.    *)
(***************************************************************************)
LoseNews(s, n) ==
  /\ "news" \in Failures /\ faults < MaxFaults
  /\ NextNews(s, n)
  /\ faults' = faults + 1
  /\ UNCHANGED <<db, ln, subs, lock, confirming, chain, watched, known, restarts, calm>>

Resubscribe(s) ==
  CASE status[s] = "SwapCreated"  -> IF s \in Prepay THEN {"hold", "fee"} ELSE {"hold"}
    [] status[s] = "MinerFeePaid" -> {"hold"}
    [] OTHER                      -> {}

RecreateFilters(s) ==
  IF status[s] \in {"TransactionMempool", "TransactionConfirmed"} THEN {txOut[s]} ELSE {}

Restart ==
  /\ restarts < MaxRestarts
  /\ restarts' = restarts + 1 /\ calm' = FALSE
  /\ queue' = << >> /\ step' = "start" /\ confirming' = {}
  /\ holdHandler' = [s \in Swaps |-> "idle"]
  /\ feeHandler' = [s \in Swaps |-> "idle"]
  /\ sub' = [s \in Swaps |-> Resubscribe(s)]
  /\ watched' = [s \in Swaps |-> RecreateFilters(s)]
  /\ known' = [s \in Swaps |-> {}]
  /\ \E rescanned \in SUBSET (Swaps \X Outs) :
       claimNews' = [s \in Swaps |-> [n \in Outs |->
         IF spend[s][n] = "claim" /\ n \in mined[s] /\ <<s, n>> \in rescanned
         THEN 1 ELSE claimNews[s][n]]]
  /\ UNCHANGED <<db, ln, chain, faults>>

-----------------------------------------------------------------------------
Environment(s) ==
  \/ PayHold(s) \/ PayFee(s) \/ ExpireInvoices(s)
  \/ LndCancelsHold(s) \/ LndCancelsFee(s)
  \/ \E n \in Outs : UserClaims(s, n)

Lightning(s) ==
  \/ OnHoldAccepted(s) \/ OnFeeAccepted(s) \/ FeeSetStatus(s) \/ FeeLookup(s)
  \/ HoldSettlesFee(s) \/ FeeSettlesFee(s)

Nurseries(s) ==
  \/ CheckExpiredInvoices(s) \/ ReverseSwapLockupConfirmed(s)
  \/ CheckExpiredReverseSwaps(s)
  \/ \E n \in Outs : CheckReverseSwapClaims(s, n)

Handler ==
  \/ SendToAddress \/ AddFilters \/ SetLockupTransaction
  \/ CancelAfterFailure \/ SetTransactionFailed
  \/ SettleInvoice \/ SetInvoiceSettled
  \/ QueryExpired \/ SetSwapExpired \/ RefundUtxo \/ SetTransactionRefunded
  \/ CancelHold \/ CancelFee
  \/ LookupExpired \/ CancelExpiredHold \/ CancelExpiredFee \/ SetInvoiceExpired

Faults ==
  \/ SendFails \/ SettleFails \/ Restart
  \/ \E s \in Swaps, n \in Outs : LoseNews(s, n)

Next ==
  \/ \E s \in Swaps : Environment(s) \/ Lightning(s) \/ Nurseries(s)
  \/ \E s \in Swaps, n \in Outs : MineLockup(s, n)
  \/ \E S \in SUBSET Swaps : ReadMempoolSwaps(S)
  \/ MineBlock \/ Handler \/ Faults

Spec == Init /\ [][Next]_vars

(***************************************************************************)
(* Fairness: the event loop runs what is ready, LND and the node answer    *)
(* (no await lasts for ever), polls and notifications keep coming, and the *)
(* chain grows and includes lockups.  Users, LND's expiry watcher and      *)
(* faults are not fair.                                                    *)
(***************************************************************************)
Fairness ==
  /\ WF_vars(Handler) /\ SF_vars(MineBlock)
  /\ WF_vars(\E S \in SUBSET Swaps : ReadMempoolSwaps(S))
  /\ \A s \in Swaps :
       /\ WF_vars(Lightning(s)) /\ WF_vars(ExpireInvoices(s))
       /\ WF_vars(CheckExpiredInvoices(s)) /\ WF_vars(CheckExpiredReverseSwaps(s))
       /\ WF_vars(ReverseSwapLockupConfirmed(s))
       /\ \A n \in Outs : SF_vars(MineLockup(s, n)) /\ WF_vars(CheckReverseSwapClaims(s, n))

FairSpec == Spec /\ Fairness

-----------------------------------------------------------------------------
(* Properties *)

(* Every variable has its type.                                            *)
TypeOK ==
  /\ status \in [Swaps -> Statuses]
  /\ txOut \in [Swaps -> 0..MaxLockups]
  /\ hold \in [Swaps -> InvoiceStates]
  /\ fee \in [Swaps -> InvoiceStates]
  /\ invoiceExpired \in [Swaps -> BOOLEAN]
  /\ sub \in [Swaps -> SUBSET {"hold", "fee"}]
  /\ holdHandler \in [Swaps -> {"idle", "settleFee"}]
  /\ feeHandler \in [Swaps -> {"idle", "setStatus", "lookup", "settleFee"}]
  /\ queue \in Seq(Jobs)
  /\ step \in Steps
  /\ confirming \subseteq Swaps
  /\ sent \in [Swaps -> 0..MaxLockups]
  /\ mined \in [Swaps -> SUBSET Outs]
  /\ spend \in [Swaps -> [Outs -> {"none", "claim", "refund"}]]
  /\ early \in [Swaps -> BOOLEAN]
  /\ height \in 0..MaxHeight
  /\ claimNews \in [Swaps -> [Outs -> 0..2]]
  /\ watched \in [Swaps -> SUBSET (0..MaxLockups)]
  /\ known \in [Swaps -> SUBSET Outs]
  /\ restarts \in 0..MaxRestarts
  /\ faults \in 0..MaxFaults
  /\ calm \in BOOLEAN

(* The Lightning payment is taken only after the user took the onchain     *)
(* coins: settling needs the preimage, which detectors read from a claim   *)
(* and nothing else, whatever the order in which events wait for the lock. *)
SettledImpliesClaimed ==
  \A s \in Swaps : hold[s] = "SETTLED" => \E n \in Outs : spend[s][n] = "claim"

(* A row that says the coins were refunded is backed by a refund on the    *)
(* chain, although expiry, claims and confirmations race: the order of     *)
(* broadcast and update in refundUtxo, and its exception on a conflict.    *)
RefundedRowHasRefund ==
  \A s \in Swaps :
    status[s] = "TransactionRefunded" => \E n \in Outs : spend[s][n] = "refund"

(* The coins of a swap are sent once per life of the process, however many *)
(* invoices have to be paid for them.                                      *)
OneLockupPerLife ==
  \A s \in Swaps : sent[s] <= 1 + restarts

(* With the miner fee protocol the handlers of both invoices may find both *)
(* accepted and pay out twice; a crash between a broadcast and the update  *)
(* of the row costs one payout more.  The two do not add up, and nothing   *)
(* else repeats a payout, whatever is retried, lost or reported again.     *)
PayoutsBounded ==
  \A s \in Swaps : sent[s] <= 1 + restarts \/ (s \in Prepay /\ sent[s] <= 2)

(* As long as blocks wait for handlers, sending does not fail half-way and *)
(* the backend does not crash, a user who was paid out once and claimed    *)
(* before the timeout never gets the Lightning payment back as well:       *)
(* expiry cancels only invoices whose coins are not taken, also when       *)
(* settling fails or the claim is not heard of.                            *)
EarlyClaimNotCancelled ==
  \A s \in Swaps : calm /\ early[s] /\ sent[s] <= 1 => hold[s] # "CANCELED"

(* The row of a lockup that was not spent can be found by the expiry check *)
(* or by the confirmation check: no handler is left that knows of it, so   *)
(* the row has to.  This is about swaps that were paid out once: a second  *)
(* payout takes the first one's place in the row.                          *)
CoinsOnRecord ==
  \A s \in Swaps :
    (queue = << >> /\ sent[s] = 1 /\ spend[s][1] = "none") =>
      /\ status[s] \in {"TransactionMempool", "TransactionConfirmed"}
      /\ txOut[s] = 1

(* It is so as long as blocks wait for handlers, sending does not fail     *)
(* half-way and the backend does not crash.                                *)
CoinsTracked == calm => CoinsOnRecord

(* Locked coins of a swap that is paid out once do not stay locked: they   *)
(* are claimed, or refunded after the timeout.                             *)
CoinsResolved ==
  \A s \in Swaps : \A n \in Outs :
    n <= sent[s] ~> spend[s][n] # "none" \/ sent[s] > 1

(* A held payment does not stay held: it is settled or given back.         *)
PaymentResolved ==
  \A s \in Swaps : hold[s] = "ACCEPTED" ~> hold[s] \in {"SETTLED", "CANCELED"}

(* The claim of a single payout makes the backend take the payment.        *)
ClaimSettles ==
  \A s \in Swaps :
    (\E n \in Outs : spend[s][n] = "claim") ~> hold[s] = "SETTLED" \/ sent[s] > 1

(* A swap whose payout is reported to have failed was not paid out.        *)
FailedMeansNotSent ==
  \A s \in Swaps : status[s] = "TransactionFailed" => sent[s] = 0

(* As long as blocks wait for handlers, sending does not fail half-way and *)
(* the backend does not crash, coins are sent only while it holds the      *)
(* payment for them: no expiry check gets ahead of a payment and cancels   *)
(* it while the event that pays out waits.  The exception is the second    *)
(* payout of a swap with a miner fee invoice.                              *)
SentWhileHeld ==
  [][\A s \in Swaps :
       calm /\ sent'[s] # sent[s]
         => hold[s] = "ACCEPTED" \/ (s \in Prepay /\ sent[s] > 0)]_vars

(* Sending the coins of the swap failed, and the backend acts upon it.     *)
PayoutFailed(s) == Running("invoice.paid", "sendFailed") /\ Current = s

(* Reverse swaps implement the promise made to users and to the operator.  *)
Coins(s, n) ==
  IF spend[s][n] = "claim" THEN "claimed"
  ELSE IF spend[s][n] = "refund" THEN "refunded"
  ELSE IF n <= sent[s] THEN "locked" ELSE "none"

PaymentOf(s) ==
  IF hold[s] = "OPEN" THEN "open" ELSE
  IF hold[s] = "ACCEPTED" THEN "held" ELSE
  IF hold[s] = "SETTLED" THEN "settled" ELSE "returned"

payment == [s \in Swaps |-> PaymentOf(s)]
coins   == [s \in Swaps |-> [n \in Outs |-> Coins(s, n)]]
expired == [s \in Swaps |-> Timeout[s] <= height]
failed  == [s \in Swaps |-> PayoutFailed(s)]

Promise == INSTANCE Payout

KeepsPromise == Promise!Spec

-----------------------------------------------------------------------------
(***************************************************************************)
(* The invariant that is inductive: what an event says stays true while it *)
(* waits for the lock, and what a handler found out stays true over its    *)
(* awaits.                                                                 *)
(***************************************************************************)
JobOK(j) ==
  /\ j.kind = "reverseSwap.claimed" => j.out \in Outs /\ spend[j.swap][j.out] = "claim"
  /\ j.kind = "reverseSwap.expired" => Timeout[j.swap] <= height
  /\ j.kind = "invoice.expired" => invoiceExpired[j.swap]
  /\ j.kind = "invoice.paid" => hold[j.swap] # "OPEN"

QueueInv == \A i \in 1..Len(queue) : JobOK(queue[i])

StepInv ==
  /\ step # "start" => queue # << >>
  /\ step = "refunded" => /\ Head(queue).out \in Outs
                          /\ spend[Current][Head(queue).out] = "refund"
  /\ step = "cancelHold" => /\ Head(queue).kind = "invoice.expired"
                            /\ hold[Current] \in {"OPEN", "CANCELED"}

HandlerInv ==
  \A s \in Swaps : holdHandler[s] = "settleFee" \/ feeHandler[s] = "settleFee" => hold[s] # "OPEN"

ChainInv ==
  \A s \in Swaps : \A n \in Outs : n \in mined[s] \/ spend[s][n] # "none" => n <= sent[s]

(***************************************************************************)
(* Why coins are not sent more often: the lockups sent, the events that    *)
(* wait to send one (they do so at their first await) and the handlers     *)
(* that may yet emit such an event add up.  A restart gives that right     *)
(* again only to rows that do not know of a lockup, and to both handlers   *)
(* only if the miner fee was not taken, that is before anything was sent.  *)
(***************************************************************************)
HoldMayEmit(s) == "hold" \in sub[s] \/ holdHandler[s] = "settleFee"
FeeMayEmit(s)  == "fee" \in sub[s] \/ feeHandler[s] # "idle"
Rights(s) == (IF HoldMayEmit(s) THEN 1 ELSE 0) + (IF FeeMayEmit(s) THEN 1 ELSE 0)
PayoutsDue(s) == {i \in Waiting("invoice.paid", s) : i # 1 \/ step = "start"}
Payouts(s) == sent[s] + Cardinality(PayoutsDue(s)) + Rights(s)

(* The handler that runs has sent, or failed to send, coins of the swap.   *)
PayingOut(s) == queue # << >> /\ step # "start" /\ Head(queue).kind = "invoice.paid" /\ Current = s

Fresh == {"SwapCreated", "MinerFeePaid"}

(* The miner fee is reported once, and before any coins are sent.          *)
FeeInv ==
  \A s \in Swaps :
    /\ FeeMayEmit(s) \/ holdHandler[s] # "idle" \/ fee[s] \in {"ACCEPTED", "SETTLED"} => s \in Prepay
    /\ "fee" \in sub[s] => feeHandler[s] = "idle"
    /\ "fee" \in sub[s] \/ feeHandler[s] = "setStatus" =>
         fee[s] # "SETTLED" /\ holdHandler[s] = "idle" /\ status[s] # "MinerFeePaid"
    /\ holdHandler[s] = "settleFee" => "hold" \notin sub[s]
    /\ \/ holdHandler[s] = "settleFee" \/ feeHandler[s] \in {"lookup", "settleFee"}
       \/ fee[s] = "SETTLED"
       => status[s] # "SwapCreated"
    /\ s \in Prepay /\ fee[s] # "SETTLED" => sent[s] = 0 /\ Waiting("invoice.paid", s) = {}

OnceInv ==
  \A s \in Swaps :
    /\ Payouts(s) <= 1 + restarts \/ (s \in Prepay /\ Payouts(s) <= 2)
    /\ status[s] \in Fresh =>
         /\ sent[s] <= restarts \/ (sent[s] <= restarts + 1 /\ PayingOut(s))
         /\ hold[s] # "SETTLED" /\ Waiting("reverseSwap.claimed", s) = {}

IInv ==
  /\ TypeOK /\ QueueInv /\ StepInv /\ HandlerInv /\ ChainInv
  /\ SettledImpliesClaimed /\ RefundedRowHasRefund
=============================================================================
