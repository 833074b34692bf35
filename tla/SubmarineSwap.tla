---------------------------- MODULE SubmarineSwap ----------------------------
(***************************************************************************)
(* Normal submarine swaps (chain to Lightning) of a UTXO chain: the row of *)
(* a swap, the user's lockup transaction, and the payment of the invoice   *)
(* that gives the backend the preimage to claim the coins.  UtxoNursery    *)
(* stores what it finds on the chain outside any lock and hands            *)
(* SwapNursery the copy of the row it read; SwapNursery's handlers and its *)
(* retry loop run one at a time under the AsyncLock "swapLock"; the API    *)
(* call that sets the invoice pays and claims under no lock at all.        *)
(* Channel creations, atomic swaps and the double spend of an unconfirmed  *)
(* lockup are left out.                                                    *)
(***************************************************************************)
EXTENDS Naturals, Sequences, FiniteSets

CONSTANTS
  Swaps,          \* the swaps, all created before the behaviour starts
  InvoiceFirst,   \* those created together with their invoice
  Timeout,        \* [Swaps -> block height], the timeoutBlockHeight column
  MaxHeight,      \* bound: the last block height
  MaxPending,     \* bound: expiry events of one swap waiting for the lock
  MaxRestarts,    \* bound: crashes of the backend
  MaxFaults,      \* bound: temporary payment failures and failing broadcasts
  Failures,       \* what may fail: "payment" (for a while), "claim" (a call)
  Timely          \* handlers and payments are faster than blocks and expiries

ASSUME BoundsAssumption ==
  /\ InvoiceFirst \subseteq Swaps
  /\ Timeout \in [Swaps -> Nat]
  /\ MaxHeight \in Nat /\ MaxPending \in Nat
  /\ MaxRestarts \in Nat /\ MaxFaults \in Nat
  /\ Failures \subseteq {"payment", "claim"} /\ Timely \in BOOLEAN

VARIABLES
  status,         \* the status column
  invoice,        \* the invoice column (and expectedAmount) is set
  zeroConf,       \* the acceptZeroConf column
  lockup,         \* the lockupTransactionId column is set
  payment,        \* in LND: "none", "inflight" or "paid"
  invoiceExpired, \* the invoice of the user has expired
  sent,           \* the user's lockup transaction was broadcast
  short,          \* it locks less than the invoice asks for
  mined,          \* it is in a block
  spend,          \* what spends it: "none", "claim" or "refund"
  height,         \* chain height
  news,           \* ZMQ notifications of it: 0, 1 (mempool), 2 (block)
  watched, known, \* ChainClient's output filter, ZmqClient.utxos
  check,          \* checkSwapOutputs, of an unconfirmed or a confirmed lockup
  call,           \* the API call setSwapInvoice and the copy of the row it read
  queue, step,    \* swapLock: handlers holding (head) or awaiting it, and where
  retrying,       \* swaps the retry loop has yet to settle
  claim,          \* claimUtxo, run by the holder of the lock and by the API
  restarts, faults

row     == <<status, invoice, zeroConf, lockup>>
ln      == <<payment, invoiceExpired>>
chain   == <<sent, short, mined, spend, height>>
zmq     == <<news, watched, known>>
lock    == <<queue, step, retrying>>
env     == <<restarts, faults>>
vars    == <<row, ln, chain, zmq, check, call, lock, claim, env>>

Statuses == {"SwapCreated", "InvoiceSet", "TransactionMempool", "TransactionConfirmed",
             "TransactionZeroConfRejected", "TransactionLockupFailed", "InvoicePending",
             "InvoicePaid", "InvoiceFailedToPay", "TransactionClaimed", "SwapExpired"}
Kinds    == {"swap.expired", "swap.lockup.failed", "swap.lockup.zeroconf.rejected",
             "swap.lockup"}
Retry    == [kind |-> "retry"]
Jobs     == [kind: Kinds, swap: Swaps, invoice: BOOLEAN] \union {Retry}
Workers  == {"lock", "api"}
Steps    == {"start", "expire", "claiming", "retrying"}
ClaimSteps == {"idle", "start", "send", "waiting", "rejected", "paid", "broadcast", "record"}
Checks   == [at: {"idle", "read", "stored"}, invoice: BOOLEAN, zeroConf: BOOLEAN]
Calls    == [at: {"idle", "read"}, lockup: BOOLEAN, status: Statuses]

NoCheck == [at |-> "idle", invoice |-> FALSE, zeroConf |-> FALSE]
NoCall  == [at |-> "idle", lockup |-> FALSE, status |-> "SwapCreated"]
NoClaim == [w \in Workers |-> "idle"]

Init ==
  /\ status = [s \in Swaps |-> IF s \in InvoiceFirst THEN "InvoiceSet" ELSE "SwapCreated"]
  /\ invoice = [s \in Swaps |-> s \in InvoiceFirst]
  /\ zeroConf \in {z \in [Swaps -> BOOLEAN] : \A s \in Swaps : z[s] => s \in InvoiceFirst}
  /\ lockup = [s \in Swaps |-> FALSE]
  /\ payment = [s \in Swaps |-> "none"]
  /\ invoiceExpired = [s \in Swaps |-> FALSE]
  /\ sent = [s \in Swaps |-> FALSE] /\ short = [s \in Swaps |-> FALSE]
  /\ mined = [s \in Swaps |-> FALSE] /\ spend = [s \in Swaps |-> "none"]
  /\ height = 0
  /\ news = [s \in Swaps |-> 0]
  /\ watched = [s \in Swaps |-> TRUE] /\ known = [s \in Swaps |-> FALSE]
  /\ check = [s \in Swaps |-> [c \in BOOLEAN |-> NoCheck]]
  /\ call = [s \in Swaps |-> NoCall]
  /\ queue = << >> /\ step = "start" /\ retrying = {}
  /\ claim = [s \in Swaps |-> NoClaim]
  /\ restarts = 0 /\ faults = 0

-----------------------------------------------------------------------------
(* The lock, and writing the row *)

Enqueue(k, s, i) == queue' = Append(queue, [kind |-> k, swap |-> s, invoice |-> i])
Running(k, s, at) ==
  queue # << >> /\ Head(queue).kind = k /\ Head(queue).swap = s /\ step = at
RunningRetry(at) == queue # << >> /\ Head(queue) = Retry /\ step = at
Release == queue' = Tail(queue) /\ step' = "start" /\ retrying' = {}
Goto(at) == step' = at /\ UNCHANGED <<queue, retrying>>

SetStatus(s, value) == status' = [status EXCEPT ![s] = value]

(***************************************************************************)
(* The user, the chain and LND                                             *)
(***************************************************************************)
(* With Timely, users lock coins before the timeout height.                *)
UserLocks(s) ==
  /\ ~sent[s]
  /\ Timely => height < Timeout[s]
  /\ sent' = [sent EXCEPT ![s] = TRUE]
  /\ \E b \in BOOLEAN : short' = [short EXCEPT ![s] = b]
  /\ UNCHANGED <<row, ln, mined, spend, height, zmq, check, call, lock, claim, env>>

UserRefunds(s) ==
  /\ mined[s] /\ spend[s] = "none" /\ Timeout[s] <= height
  /\ spend' = [spend EXCEPT ![s] = "refund"]
  /\ UNCHANGED <<row, ln, sent, short, mined, height, zmq, check, call, lock, claim, env>>

(* Nothing of the backend runs or is about to, and no payment is pending.  *)
Quiet ==
  /\ queue = << >>
  /\ \A s \in Swaps :
       /\ claim[s] = NoClaim /\ call[s] = NoCall
       /\ \A c \in BOOLEAN : check[s][c] = NoCheck
       /\ sent[s] => news[s] > 0
       /\ mined[s] => news[s] = 2
       /\ status[s] # "InvoicePending"

MineLockup(s) ==
  /\ sent[s] /\ ~mined[s]
  /\ Timely => Quiet
  /\ mined' = [mined EXCEPT ![s] = TRUE]
  /\ UNCHANGED <<row, ln, sent, short, spend, height, zmq, check, call, lock, claim, env>>

(* With Timely a lockup confirms before the timeout height.                *)
MineBlock ==
  /\ height < MaxHeight
  /\ Timely =>
       /\ Quiet
       /\ \A s \in Swaps : sent[s] /\ Timeout[s] <= height + 1 => mined[s]
  /\ height' = height + 1
  /\ UNCHANGED <<row, ln, sent, short, mined, spend, zmq, check, call, lock, claim, env>>

ExpireInvoice(s) ==
  /\ ~invoiceExpired[s]
  /\ Timely => Quiet
  /\ invoiceExpired' = [invoiceExpired EXCEPT ![s] = TRUE]
  /\ UNCHANGED <<row, payment, chain, zmq, check, call, lock, claim, env>>

(* LND finishes a payment.  Only the caller that started it and still      *)
(* waits is told, others ask for it again.                                 *)
Tell(s, result) ==
  claim' = [claim EXCEPT ![s] =
              [w \in Workers |-> IF claim[s][w] = "waiting" THEN result ELSE claim[s][w]]]

PaymentSucceeds(s) ==
  /\ payment[s] = "inflight"
  /\ payment' = [payment EXCEPT ![s] = "paid"]
  /\ Tell(s, "paid")
  /\ UNCHANGED <<row, invoiceExpired, chain, zmq, check, call, lock, env>>

(* FAILURE_REASON_INCORRECT_PAYMENT_DETAILS: the recipient rejects it.     *)
PaymentRejected(s) ==
  /\ payment[s] = "inflight"
  /\ payment' = [payment EXCEPT ![s] = "none"]
  /\ Tell(s, "rejected")
  /\ UNCHANGED <<row, invoiceExpired, chain, zmq, check, call, lock, env>>

(* Any other failure: no route, no balance, a timeout.                     *)
PaymentFails(s) ==
  /\ payment[s] = "inflight"
  /\ "payment" \in Failures /\ faults < MaxFaults
  /\ faults' = faults + 1
  /\ payment' = [payment EXCEPT ![s] = "none"]
  /\ Tell(s, "idle")
  /\ IF claim[s]["lock"] = "waiting" /\ Head(queue) # Retry
     THEN Release ELSE UNCHANGED lock
  /\ UNCHANGED <<row, invoiceExpired, chain, zmq, check, call, restarts>>

(***************************************************************************)
(* UtxoNursery                                                             *)
(***************************************************************************)
(* A notification of the lockup, when it enters the mempool and when it is *)
(* in a block.  The second is relevant if the first was unconfirmed and    *)
(* relevant, whatever the filters say by then.                             *)
NextNewsRepeated(s) ==   \* faulty variant: a block notification repeats
  /\ sent[s]
  /\ news[s] = 1 => mined[s]

NextNews(s) ==
  /\ sent[s] /\ news[s] < 2
  /\ news[s] = 1 => mined[s]

Awaiting == {"SwapCreated", "InvoiceSet", "TransactionMempool", "TransactionZeroConfRejected"}

CheckSwapOutputs(s) ==
  /\ NextNews(s)
  /\ LET confirmed == known[s] \/ mined[s]
         relevant  == known[s] \/ watched[s] IN
       /\ check[s][confirmed] = NoCheck
       /\ known' = [known EXCEPT ![s] = relevant /\ ~confirmed]
       /\ check' = IF relevant /\ status[s] \in Awaiting
                   THEN [check EXCEPT ![s][confirmed] =
                          [at |-> "read", invoice |-> invoice[s], zeroConf |-> zeroConf[s]]]
                   ELSE check
  /\ news' = [news EXCEPT ![s] = @ + 1]
  /\ UNCHANGED <<row, ln, chain, watched, call, lock, claim, env>>

SetLockupTransaction(s, confirmed) ==
  /\ check[s][confirmed].at = "read"
  /\ lockup' = [lockup EXCEPT ![s] = TRUE]
  /\ SetStatus(s, IF confirmed THEN "TransactionConfirmed" ELSE "TransactionMempool")
  /\ check' = [check EXCEPT ![s][confirmed].at = "stored"]
  /\ UNCHANGED <<invoice, zeroConf, ln, chain, zmq, call, lock, claim, env>>

TooLowNever(s, c) == FALSE   \* faulty variant: the amount is not checked
TooLow(s, c) == c.invoice /\ short[s]

(* Whether an unconfirmed lockup signals RBF or pays too small a fee is    *)
(* open; that the swap accepts 0-conf is not.                              *)
ZeroConfAlways(s, c) == TRUE   \* faulty variant: the criteria are not checked
MayAcceptZeroConf(s, c) == c.zeroConf

RejectLowAmount(s, confirmed) ==
  /\ check[s][confirmed].at = "stored" /\ TooLow(s, check[s][confirmed])
  /\ check' = [check EXCEPT ![s][confirmed] = NoCheck]
  /\ watched' = [watched EXCEPT ![s] = FALSE]
  /\ Enqueue("swap.lockup.failed", s, check[s][confirmed].invoice)
  /\ UNCHANGED <<row, ln, chain, news, known, call, step, retrying, claim, env>>

RejectZeroConf(s) ==
  /\ check[s][FALSE].at = "stored" /\ ~TooLow(s, check[s][FALSE])
  /\ check' = [check EXCEPT ![s][FALSE] = NoCheck]
  /\ Enqueue("swap.lockup.zeroconf.rejected", s, check[s][FALSE].invoice)
  /\ UNCHANGED <<row, ln, chain, zmq, call, step, retrying, claim, env>>

AcceptLockup(s, confirmed) ==
  /\ check[s][confirmed].at = "stored" /\ ~TooLow(s, check[s][confirmed])
  /\ confirmed \/ MayAcceptZeroConf(s, check[s][confirmed])
  /\ check' = [check EXCEPT ![s][confirmed] = NoCheck]
  /\ watched' = [watched EXCEPT ![s] = FALSE]
  /\ Enqueue("swap.lockup", s, check[s][confirmed].invoice)
  /\ UNCHANGED <<row, ln, chain, news, known, call, step, retrying, claim, env>>

Waiting(k, s) ==
  {i \in 1..Len(queue) : queue[i] # Retry /\ queue[i].kind = k /\ queue[i].swap = s}

(* Every block looks for expired swaps.  MaxPending bounds how many events *)
(* of a swap are waiting.                                                  *)
Expirable(s) ==
  /\ status[s] \notin {"SwapExpired", "InvoiceFailedToPay", "TransactionClaimed"}
  /\ Timeout[s] <= height

CheckExpiredSwaps(s) ==
  /\ Expirable(s)
  /\ Cardinality(Waiting("swap.expired", s)) < MaxPending
  /\ watched' = [watched EXCEPT ![s] = FALSE]
  /\ Enqueue("swap.expired", s, invoice[s])
  /\ UNCHANGED <<row, ln, chain, news, known, check, call, step, retrying, claim, env>>

(***************************************************************************)
(* The API call setSwapInvoice.  It reads the row, asks LND and validates, *)
(* stores the invoice, and decides from what it read first whether coins   *)
(* are locked that it should settle.  Bound: one call of a swap at a time. *)
(***************************************************************************)
ReadSwap(s) ==
  /\ call[s] = NoCall /\ ~invoice[s] /\ ~invoiceExpired[s]
  /\ ~(lockup[s] /\ short[s])
  /\ claim[s]["api"] = "idle"
  /\ call' = [call EXCEPT ![s] = [at |-> "read", lockup |-> lockup[s], status |-> status[s]]]
  /\ UNCHANGED <<row, ln, chain, zmq, check, lock, claim, env>>

SettlesAtOnce(c) == c.lockup /\ c.status # "TransactionZeroConfRejected"

SetInvoice(s) ==
  /\ call[s].at = "read"
  /\ invoice' = [invoice EXCEPT ![s] = TRUE]
  /\ \E b \in BOOLEAN : zeroConf' = [zeroConf EXCEPT ![s] = b]
  /\ SetStatus(s, "InvoiceSet")
  /\ call' = [call EXCEPT ![s] = NoCall]
  /\ claim' = IF SettlesAtOnce(call[s]) THEN [claim EXCEPT ![s]["api"] = "start"] ELSE claim
  /\ UNCHANGED <<lockup, ln, chain, zmq, check, lock, env>>

(***************************************************************************)
(* claimUtxo and paySwapInvoice, run by worker w                           *)
(***************************************************************************)
GoOn(s, w, at) == claim' = [claim EXCEPT ![s][w] = at]

(* The run ends: the lock is released, or the retry loop takes the next.   *)
Finish(s, w) ==
  /\ GoOn(s, w, "idle")
  /\ IF w = "lock" /\ Head(queue) # Retry THEN Release ELSE UNCHANGED lock

(* An exception ends the loop as well; the API catches it.                 *)
Throw(s, w) ==
  /\ GoOn(s, w, "idle")
  /\ IF w = "lock" THEN Release ELSE UNCHANGED lock

SetInvoicePending(s, w) ==
  /\ claim[s][w] = "start"
  /\ SetStatus(s, "InvoicePending")
  /\ GoOn(s, w, "send")
  /\ UNCHANGED <<invoice, zeroConf, lockup, ln, chain, zmq, check, call, lock, env>>

(* LND starts a payment it does not know of; it answers a second request   *)
(* with an error, and an expired invoice with another.                     *)
SendPayment(s, w) ==
  /\ claim[s][w] = "send"
  /\ payment[s] = "none" /\ ~invoiceExpired[s]
  /\ payment' = [payment EXCEPT ![s] = "inflight"]
  /\ GoOn(s, w, "waiting")
  /\ UNCHANGED <<row, invoiceExpired, chain, zmq, check, call, lock, env>>

SentBefore(s, w) ==
  /\ claim[s][w] = "send"
  /\ payment[s] = "inflight"
  /\ Finish(s, w)
  /\ UNCHANGED <<row, ln, chain, zmq, check, call, env>>

AlreadyPaidIsFailure(s, w) == Finish(s, w)   \* faulty variant: not looked up
TrackPayment(s, w) == GoOn(s, w, "paid") /\ UNCHANGED lock

PaidBefore(s, w) ==
  /\ claim[s][w] = "send"
  /\ payment[s] = "paid"
  /\ TrackPayment(s, w)
  /\ UNCHANGED <<row, ln, chain, zmq, check, call, env>>

InvoiceIsExpired(s, w) ==
  /\ claim[s][w] = "send" /\ invoiceExpired[s]
  /\ GoOn(s, w, "rejected")
  /\ UNCHANGED <<row, ln, chain, zmq, check, call, lock, env>>

RaceTimeoutAbandons(s, w) ==   \* faulty variant: taken for a failure
  /\ claim[s][w] = "waiting"
  /\ GoOn(s, w, "rejected")
  /\ UNCHANGED <<row, ln, chain, zmq, check, call, lock, env>>

(* Promise.race: the timer wins, the payment stays in flight.              *)
RaceTimeout(s, w) ==
  /\ claim[s][w] = "waiting"
  /\ Finish(s, w)
  /\ UNCHANGED <<row, ln, chain, zmq, check, call, env>>

Abandon(s, w) ==
  /\ claim[s][w] = "rejected"
  /\ SetStatus(s, "InvoiceFailedToPay")
  /\ Finish(s, w)
  /\ UNCHANGED <<invoice, zeroConf, lockup, ln, chain, zmq, check, call, env>>

SetInvoicePaid(s, w) ==
  /\ claim[s][w] = "paid"
  /\ SetStatus(s, "InvoicePaid")
  /\ GoOn(s, w, "broadcast")
  /\ UNCHANGED <<invoice, zeroConf, lockup, ln, chain, zmq, check, call, lock, env>>

BroadcastAnyway(s, w) ==   \* faulty variant: the node's answer is ignored
  /\ claim[s][w] = "broadcast"
  /\ spend' = [spend EXCEPT ![s] = IF @ = "none" THEN "claim" ELSE @]
  /\ GoOn(s, w, "record")
  /\ UNCHANGED <<row, ln, sent, short, mined, height, zmq, check, call, lock, env>>

(* sendRawTransaction throws if the output is spent already.               *)
Broadcast(s, w) ==
  /\ claim[s][w] = "broadcast"
  /\ IF spend[s] = "none"
     THEN spend' = [spend EXCEPT ![s] = "claim"] /\ GoOn(s, w, "record") /\ UNCHANGED lock
     ELSE Throw(s, w) /\ UNCHANGED spend
  /\ UNCHANGED <<row, ln, sent, short, mined, height, zmq, check, call, env>>

(* getAddress, estimateFee or sendRawTransaction fails.                    *)
BroadcastFails(s, w) ==
  /\ claim[s][w] = "broadcast"
  /\ "claim" \in Failures /\ faults < MaxFaults
  /\ faults' = faults + 1
  /\ Throw(s, w)
  /\ UNCHANGED <<row, ln, chain, zmq, check, call, restarts>>

SetMinerFee(s, w) ==
  /\ claim[s][w] = "record"
  /\ SetStatus(s, "TransactionClaimed")
  /\ Finish(s, w)
  /\ UNCHANGED <<invoice, zeroConf, lockup, ln, chain, zmq, check, call, env>>

(***************************************************************************)
(* SwapNursery's handlers under swapLock                                   *)
(***************************************************************************)
QueryExpired(s) ==
  /\ Running("swap.expired", s, "start")
  /\ IF status[s] = "SwapExpired" THEN Release ELSE Goto("expire")
  /\ UNCHANGED <<row, ln, chain, zmq, check, call, claim, env>>

SetSwapExpired(s) ==
  /\ Running("swap.expired", s, "expire")
  /\ SetStatus(s, "SwapExpired")
  /\ Release
  /\ UNCHANGED <<invoice, zeroConf, lockup, ln, chain, zmq, check, call, claim, env>>

LockupFailed(s) ==
  /\ Running("swap.lockup.failed", s, "start")
  /\ SetStatus(s, "TransactionLockupFailed")
  /\ Release
  /\ UNCHANGED <<invoice, zeroConf, lockup, ln, chain, zmq, check, call, claim, env>>

ZeroConfRejected(s) ==
  /\ Running("swap.lockup.zeroconf.rejected", s, "start")
  /\ SetStatus(s, "TransactionZeroConfRejected")
  /\ Release
  /\ UNCHANGED <<invoice, zeroConf, lockup, ln, chain, zmq, check, call, claim, env>>

(* Whether there is an invoice to pay is read from the copy of the event.  *)
(* Without one there is nothing to do: lockupStxSwap, which every swap     *)
(* with a redeem script comes to, acts on atomic swaps only.               *)
OnLockup(s) ==
  /\ Running("swap.lockup", s, "start")
  /\ IF Head(queue).invoice
     THEN Goto("claiming") /\ GoOn(s, "lock", "start")
     ELSE Release /\ UNCHANGED claim
  /\ UNCHANGED <<row, ln, chain, zmq, check, call, env>>

(***************************************************************************)
(* The retry loop.  A round that finds nothing to retry is left out.       *)
(***************************************************************************)
NoInvoices == {}   \* faulty variant: the loop finds nothing

PendingInvoices == {s \in Swaps : status[s] = "InvoicePending"}

RetryTimer ==
  /\ \A i \in 1..Len(queue) : queue[i] # Retry
  /\ PendingInvoices # {}
  /\ queue' = Append(queue, Retry)
  /\ UNCHANGED <<row, ln, chain, zmq, check, call, step, retrying, claim, env>>

RetryQuery ==
  /\ RunningRetry("start")
  /\ retrying' = PendingInvoices
  /\ step' = "retrying" /\ UNCHANGED queue
  /\ UNCHANGED <<row, ln, chain, zmq, check, call, claim, env>>

LoopIdle == RunningRetry("retrying") /\ \A s \in Swaps : claim[s]["lock"] = "idle"

RetryNext(s) ==
  /\ LoopIdle /\ s \in retrying
  /\ retrying' = retrying \ {s}
  /\ GoOn(s, "lock", "send")
  /\ UNCHANGED <<row, ln, chain, zmq, check, call, queue, step, env>>

RetryDone ==
  /\ LoopIdle /\ retrying = {}
  /\ Release
  /\ UNCHANGED <<row, ln, chain, zmq, check, call, claim, env>>

(***************************************************************************)
(* A crash, and the start-up that sets filters from the rows and rescans   *)
(* the chain from the last tip on record: any set of mined lockups may be  *)
(* reported again.  LND and the chain go on.                               *)
(***************************************************************************)
Filtered(s) ==
  status[s] \notin {"SwapExpired", "InvoicePending", "InvoiceFailedToPay", "TransactionClaimed"}

Restart ==
  /\ restarts < MaxRestarts
  /\ restarts' = restarts + 1
  /\ queue' = << >> /\ step' = "start" /\ retrying' = {}
  /\ check' = [s \in Swaps |-> [c \in BOOLEAN |-> NoCheck]]
  /\ call' = [s \in Swaps |-> NoCall]
  /\ claim' = [s \in Swaps |-> NoClaim]
  /\ watched' = [s \in Swaps |-> Filtered(s)]
  /\ known' = [s \in Swaps |-> FALSE]
  /\ \E rescanned \in SUBSET Swaps :
       news' = [s \in Swaps |-> IF mined[s] /\ s \in rescanned THEN 1 ELSE news[s]]
  /\ UNCHANGED <<row, ln, chain, faults>>

-----------------------------------------------------------------------------
Environment(s) ==
  \/ UserLocks(s) \/ UserRefunds(s) \/ MineLockup(s) \/ ExpireInvoice(s)
  \/ PaymentSucceeds(s) \/ PaymentRejected(s) \/ PaymentFails(s)

Nursery(s) ==
  \/ CheckSwapOutputs(s) \/ CheckExpiredSwaps(s) \/ RejectZeroConf(s)
  \/ \E c \in BOOLEAN : SetLockupTransaction(s, c) \/ RejectLowAmount(s, c) \/ AcceptLockup(s, c)

Api(s) == ReadSwap(s) \/ SetInvoice(s)

Claim(s, w) ==
  \/ SetInvoicePending(s, w) \/ SendPayment(s, w) \/ SentBefore(s, w) \/ PaidBefore(s, w)
  \/ InvoiceIsExpired(s, w) \/ Abandon(s, w) \/ SetInvoicePaid(s, w)
  \/ Broadcast(s, w) \/ SetMinerFee(s, w)

Handler(s) ==
  \/ QueryExpired(s) \/ SetSwapExpired(s) \/ LockupFailed(s) \/ ZeroConfRejected(s)
  \/ OnLockup(s)

RetryLoop == RetryQuery \/ RetryDone \/ \E s \in Swaps : RetryNext(s)

Next ==
  \/ \E s \in Swaps : Environment(s) \/ Nursery(s) \/ Api(s) \/ Handler(s)
  \/ \E s \in Swaps, w \in Workers : Claim(s, w) \/ RaceTimeout(s, w) \/ BroadcastFails(s, w)
  \/ RetryTimer \/ RetryLoop \/ MineBlock \/ Restart

Spec == Init /\ [][Next]_vars

(***************************************************************************)
(* Fairness: what is ready runs, the retry interval fires, notifications   *)
(* come and lockups are mined.  LND finishes payments, and not always when *)
(* nobody waits any more: it gives up after paymentTimeout, and the race   *)
(* timer takes twice as long.  Users, expiries and faults are not fair.    *)
(***************************************************************************)
Answered(s) ==
  /\ \E w \in Workers : claim[s][w] = "waiting"
  /\ PaymentSucceeds(s) \/ PaymentRejected(s)

Fairness ==
  /\ WF_vars(RetryLoop) /\ WF_vars(RetryTimer)
  /\ \A s \in Swaps :
       /\ WF_vars(Nursery(s)) /\ WF_vars(SetInvoice(s)) /\ WF_vars(Handler(s))
       /\ WF_vars(PaymentSucceeds(s) \/ PaymentRejected(s)) /\ SF_vars(Answered(s))
       /\ SF_vars(MineLockup(s))
       /\ \A w \in Workers : WF_vars(Claim(s, w))

FairSpec == Spec /\ Fairness

-----------------------------------------------------------------------------
(* Properties *)

(* Every variable has its type.                                            *)
TypeOK ==
  /\ status \in [Swaps -> Statuses]
  /\ invoice \in [Swaps -> BOOLEAN] /\ zeroConf \in [Swaps -> BOOLEAN]
  /\ lockup \in [Swaps -> BOOLEAN]
  /\ payment \in [Swaps -> {"none", "inflight", "paid"}]
  /\ invoiceExpired \in [Swaps -> BOOLEAN]
  /\ sent \in [Swaps -> BOOLEAN] /\ short \in [Swaps -> BOOLEAN]
  /\ mined \in [Swaps -> BOOLEAN] /\ spend \in [Swaps -> {"none", "claim", "refund"}]
  /\ height \in 0..MaxHeight
  /\ news \in [Swaps -> 0..2]
  /\ watched \in [Swaps -> BOOLEAN] /\ known \in [Swaps -> BOOLEAN]
  /\ check \in [Swaps -> [BOOLEAN -> Checks]]
  /\ call \in [Swaps -> Calls]
  /\ queue \in Seq(Jobs) /\ step \in Steps /\ retrying \subseteq Swaps
  /\ claim \in [Swaps -> [Workers -> ClaimSteps]]
  /\ restarts \in 0..MaxRestarts /\ faults \in 0..MaxFaults

(* An invoice is paid only against a lockup that covers it, although the   *)
(* amount is checked by three different readers of the row: the API call,  *)
(* the check of the unconfirmed and that of the confirmed lockup.          *)
PaidOnlySufficient ==
  \A s \in Swaps : payment[s] # "none" => sent[s] /\ ~short[s]

(* A row that says the coins were claimed, or the invoice paid, is right,  *)
(* with two workers settling the same swap and an expiry in between.       *)
RowIsRight ==
  \A s \in Swaps :
    /\ status[s] = "TransactionClaimed" => spend[s] = "claim"
    /\ status[s] = "InvoicePaid" => payment[s] = "paid"

(* An unconfirmed lockup is paid for only if the swap accepts 0-conf.      *)
ZeroConfOnlyIfAccepted ==
  \A s \in Swaps : payment[s] # "none" => mined[s] \/ zeroConf[s]

(* A payment that went out is followed up: the coins are claimed, or a     *)
(* worker or the retry loop is going to.                                   *)
PaidIsPursued ==
  \A s \in Swaps : payment[s] = "paid" /\ spend[s] = "none" =>
    status[s] = "InvoicePending" \/ claim[s] # NoClaim

(* A lockup that is good is paid for, or the swap is abandoned.            *)
LockupSettled ==
  \A s \in Swaps : sent[s] /\ ~short[s] ~>
    payment[s] = "paid" \/ status[s] = "InvoiceFailedToPay"

(* A payment that went out is turned into a claim of the coins.            *)
PaidIsClaimed == \A s \in Swaps : payment[s] = "paid" ~> spend[s] = "claim"

(* Normal swaps implement the bargain of Purchase: whichever worker pays,  *)
(* there are coins that cover the invoice; whichever claims, it is paid.   *)
Coins(s) ==
  IF spend[s] = "claim" THEN "claimed"
  ELSE IF spend[s] = "refund" THEN "refunded"
  ELSE IF sent[s] THEN "locked" ELSE "none"

coins   == [s \in Swaps |-> Coins(s)]
enough  == [s \in Swaps |-> ~short[s]]
bill    == [s \in Swaps |-> IF payment[s] = "none" THEN "due" ELSE payment[s]]
expired == [s \in Swaps |-> Timeout[s] <= height]

Bargain == INSTANCE Purchase WITH invoice <- bill

KeepsBargain == Bargain!Spec

-----------------------------------------------------------------------------
(***************************************************************************)
(* The invariant that is inductive: whoever may come to pay for a swap     *)
(* knows that its lockup covers the invoice, whoever claims it knows that  *)
(* the invoice is paid, and at most one run of claimUtxo holds the lock.   *)
(***************************************************************************)
Good(s) == sent[s] /\ ~short[s]
Active(s) == claim[s]["lock"] # "idle"

ChainInv ==
  \A s \in Swaps :
    /\ lockup[s] \/ mined[s] \/ spend[s] # "none" => sent[s]
    /\ \A c \in BOOLEAN : check[s][c].at # "idle" => sent[s]

JobOK(j) == j # Retry /\ j.kind = "swap.lockup" /\ j.invoice => Good(j.swap)

JobInv == \A i \in 1..Len(queue) : JobOK(queue[i])

(* What makes somebody pay, or has: the lockup was looked at before.       *)
Depends(s) ==
  \/ payment[s] # "none" \/ status[s] = "InvoicePending" \/ s \in retrying
  \/ call[s].at = "read" /\ call[s].lockup
  \/ \E w \in Workers : claim[s][w] # "idle"

GoodInv == \A s \in Swaps : Depends(s) => Good(s)

WorkerInv ==
  \A s \in Swaps : \A w \in Workers :
    /\ claim[s][w] \in {"paid", "broadcast", "record"} => payment[s] = "paid"
    /\ claim[s][w] = "record" => spend[s] = "claim"

ClaimInv == \A s \in Swaps : spend[s] = "claim" => payment[s] = "paid"

LockInv ==
  /\ queue = << >> => step = "start"
  /\ \A s \in Swaps : Active(s) =>
       /\ queue # << >>
       /\ step = IF Head(queue) = Retry THEN "retrying" ELSE "claiming"
       /\ \A t \in Swaps : Active(t) => t = s

IInv ==
  /\ TypeOK /\ ChainInv /\ JobInv /\ GoodInv /\ WorkerInv /\ ClaimInv /\ LockInv
  /\ RowIsRight
=============================================================================
