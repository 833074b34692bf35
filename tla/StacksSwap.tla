------------------------------ MODULE StacksSwap ------------------------------
(***************************************************************************)
(* Swaps whose chain side is the STX swap contract on Stacks, in both      *)
(* directions.  All contract calls of the backend are transactions of one  *)
(* account.  Their nonce is a variable of the process that a handler reads *)
(* when it signs, that it increments only after the node answered, and     *)
(* that a timer overwrites with what an API says; the handlers run under   *)
(* two locks, so calls of the two can overlap.  Contract events reach      *)
(* StacksNursery over a websocket, outside the locks, and may be lost.     *)
(*                                                                         *)
(* A job is one listener of SwapNursery holding (head) or awaiting its     *)
(* lock; at[l] is the await at which the head of queue l stands.           *)
(***************************************************************************)
EXTENDS Naturals, Sequences, FiniteSets, SequencesExt

CONSTANTS
  Outgoing,     \* reverse swaps: the backend locks STX, the user claims them
  Incoming,     \* normal swaps with an invoice: the user locks, the backend claims
  Timeout,      \* [swaps -> block height], the timeoutBlockHeight column
  MaxHeight,    \* bound: the last block height
  MaxNonce,     \* bound: the last nonce the backend signs with
  MaxPending,   \* bound: expiry events of one swap waiting for their lock
  MaxLoad       \* bound: swaps begun, mishaps, and lockups for other claimers

StxSwaps == Outgoing \union Incoming

ASSUME StacksAssumption ==
  /\ Outgoing \cap Incoming = {} /\ IsFiniteSet(StxSwaps)
  /\ Timeout \in [StxSwaps -> Nat]
  /\ MaxHeight \in Nat /\ MaxNonce \in Nat /\ MaxPending \in Nat
  /\ MaxLoad \in Nat

VARIABLES
  row,        \* the status column
  txid,       \* transactionId of a reverse swap: the nonce of its call, 0 is null
  invoice,    \* LND: the hold invoice of a reverse, the payment of a normal swap
  sub,        \* reverse swaps with a live invoice subscription
  height,     \* chain height
  entry,      \* the contract's entry of a swap: "none", "locked", or how it went
  past,       \* history: what has happened to its entries
  lockedBy,   \* the call of the backend that created the entry, 0 is none
  terms,      \* which of the swap's terms a user's lockup has: of LockupTerms
  executed,   \* the nonce of the account on the chain: the next to execute
  mempool,    \* calls the node has accepted and no block includes
  aborted,    \* calls that were included and failed in the contract
  refused,    \* history: calls the node answered with an error
  nonce,      \* StacksUtils.nonce
  poll,       \* answers of the nonce API getAccountNonce has yet to apply
  queue, at,  \* jobs of each lock and the await of the head
  used,       \* nonce the head's call was signed with
  notes,      \* contract events on their way through StacksNursery
  skewed,     \* history: something came between two uses of the nonce
  mishaps     \* number of crashes and faults so far

db    == <<row, txid>>
chain == <<entry, past, lockedBy, terms>>
node  == <<executed, mempool, aborted, refused>>
acct  == <<nonce, poll, skewed>>
lock  == <<queue, at, used>>
stxVars == <<db, invoice, sub, height, chain, node, acct, lock, notes, mishaps>>

Locks == {"swap", "reverse"}
Ops   == {"lock", "claim", "refund"}
Nonces == 1..MaxNonce
Calls == [nonce : Nonces, op : Ops, swap : StxSwaps]
RowStates ==
  {"SwapCreated", "InvoiceSet", "InvoicePending", "InvoicePaid", "InvoiceFailedToPay",
   "InvoiceSettled", "TransactionMempool", "TransactionConfirmed", "TransactionFailed",
   "TransactionLockupFailed", "TransactionClaimed", "TransactionRefunded", "SwapExpired"}
JobKinds == {"invoice.paid", "claim", "reverseSwap.expired", "lockup.failedToSend",
             "eth.lockup", "retry", "retryTimer", "lockup.failed", "swap.expired"}
Jobs  == [kind : JobKinds, swap : StxSwaps, sent : BOOLEAN]
Awaits == {"start", "pay", "send", "paying", "claim", "refund", "signed", "recordLock",
           "accepted", "refusedLock", "record", "recordClaim", "recordRefund", "cancel", "settled",
           "sendFailed", "markFailed", "expire"}
Notes == [event : {"lock", "claim"}, swap : StxSwaps, found : BOOLEAN]
(* The amount and the time lock, and the backend as the one who may claim. *)
LockupTerms == {"amount", "claimer"}
Replies == [next : Nonces \union {MaxNonce + 1}, missing : 0..MaxNonce]

StacksInit ==
  /\ row = [s \in StxSwaps |-> IF s \in Outgoing THEN "SwapCreated" ELSE "InvoiceSet"]
  /\ txid = [s \in Outgoing |-> 0]
  /\ invoice = [s \in StxSwaps |-> IF s \in Outgoing THEN "open" ELSE "unpaid"]
  /\ sub = Outgoing
  /\ height = 0
  /\ entry = [s \in StxSwaps |-> "none"]
  /\ past = [s \in StxSwaps |-> {}]
  /\ lockedBy = [s \in StxSwaps |-> 0]
  /\ terms = [s \in Incoming |-> {}]
  /\ executed = 1 /\ mempool = {} /\ aborted = {} /\ refused = {}
  /\ nonce = 1 /\ poll = {} /\ skewed = FALSE
  /\ queue = [l \in Locks |-> << >>] /\ at = [l \in Locks |-> "start"]
  /\ used = [l \in Locks |-> 0]
  /\ notes = {}
  /\ mishaps = 0

-----------------------------------------------------------------------------
(* The locks *)

LockOf(s) == IF s \in Outgoing THEN "reverse" ELSE "swap"
Job(kind, s, sent) == [kind |-> kind, swap |-> s, sent |-> sent]
Enqueue(kind, s, sent) ==
  queue' = [queue EXCEPT ![LockOf(s)] = Append(@, Job(kind, s, sent))]
JobsFor(kind, swaps) == SetToSeq({Job(kind, s, TRUE) : s \in swaps})
HeadOf(l) == Head(queue[l])
Running(l, kinds, await) ==
  queue[l] # << >> /\ HeadOf(l).kind \in kinds /\ at[l] = await
Goto(l, await) == at' = [at EXCEPT ![l] = await] /\ UNCHANGED queue
Release(l) ==
  /\ queue' = [queue EXCEPT ![l] = Tail(@)]
  /\ at' = [at EXCEPT ![l] = "start"]

(* What an exception does: it also ends a retry loop that holds the lock,  *)
(* whose jobs are the first of the queue.                                  *)
Retries(l) == {i \in 1..Len(queue[l]) : queue[l][i].kind = "retry"}
Throw(l) ==
  /\ queue' = [queue EXCEPT ![l] =
       IF Head(@).kind = "retry" THEN SubSeq(@, Cardinality(Retries(l)) + 1, Len(@)) ELSE Tail(@)]
  /\ at' = [at EXCEPT ![l] = "start"]
SetRow(s, value) == row' = [row EXCEPT ![s] = value]

(* The bound on what one behaviour combines: swaps, mishaps, and lockups  *)
(* of users that the backend is not allowed to claim.                      *)
Begun == {s \in StxSwaps : invoice[s] \notin {"open", "unpaid"} \/ past[s] # {}}
Foreign == {s \in Incoming : past[s] # {} /\ "claimer" \notin terms[s]}
Load == Cardinality(Begun) + Cardinality(Foreign) + mishaps
Room == Load < MaxLoad

(***************************************************************************)
(* The Stacks node and chain                                               *)
(***************************************************************************)
Live(op, s) == \E c \in mempool : c.op = op /\ c.swap = s
NoncesOf(calls) == {c.nonce : c \in calls}

(* Calls execute in the order of their nonces; after a gap they wait.      *)
Pending == {n \in Nonces : n >= executed /\ n \in NoncesOf(mempool)}
Missing == {n \in Nonces : /\ n >= executed /\ n \notin Pending
                           /\ \E m \in Pending : n < m}
NextNonce(n) ==
  IF Pending = {} THEN n = executed ELSE n - 1 \in Pending /\ \A m \in Pending : m < n
FirstMissing(n) ==
  IF Missing = {} THEN n = 0 ELSE n \in Missing /\ \A m \in Missing : n <= m

Accepts(n) == n >= executed /\ n \notin NoncesOf(mempool)

(* The contract: one entry at a time for a preimage hash; a claim has no   *)
(* time limit, but is for the claimPrincipal the entry was made with; a    *)
(* refund is for blocks after the time lock.                               *)
Succeeds(op, s) ==
  CASE op = "lock"   -> entry[s] # "locked"
    [] op = "claim"  -> entry[s] = "locked" /\ (s \in Incoming => "claimer" \in terms[s])
    [] op = "refund" -> entry[s] = "locked" /\ height + 1 > Timeout[s]

ResultOf == [lock |-> "locked", claim |-> "claimed", refund |-> "refunded"]
\* faulty variant: a refund is taken for a claim
EventsOfAnySpend(op, s) ==
  IF op = "lock" \/ s \in Outgoing
  THEN {[event |-> IF op = "lock" THEN op ELSE "claim", swap |-> s, found |-> FALSE]} ELSE {}
EventsOf(op, s) ==
  IF op = "lock" \/ (op = "claim" /\ s \in Outgoing)
  THEN {[event |-> op, swap |-> s, found |-> FALSE]} ELSE {}

SetEntry(s, value) ==
  /\ entry' = [entry EXCEPT ![s] = value]
  /\ past' = [past EXCEPT ![s] = @ \union {value}]

ExecuteCall(c) ==
  /\ c \in mempool /\ c.nonce = executed
  /\ executed' = executed + 1
  /\ mempool' = mempool \ {c}
  /\ \/ /\ Succeeds(c.op, c.swap)
        /\ SetEntry(c.swap, ResultOf[c.op])
        /\ lockedBy' = [lockedBy EXCEPT ![c.swap] = IF c.op = "lock" THEN c.nonce ELSE @]
        /\ notes' = notes \union EventsOf(c.op, c.swap)
        /\ UNCHANGED aborted
     \/ /\ ~Succeeds(c.op, c.swap)
        /\ aborted' = aborted \union {c}
        /\ UNCHANGED <<entry, past, lockedBy, notes>>
  /\ UNCHANGED <<db, invoice, sub, height, terms, refused, acct, lock, mishaps>>

MineBlock ==
  /\ height < MaxHeight
  /\ height' = height + 1
  /\ UNCHANGED <<db, invoice, sub, chain, node, acct, lock, notes, mishaps>>

(***************************************************************************)
(* The users and LND                                                       *)
(***************************************************************************)
PayHoldInvoice(s) ==
  /\ s \in Outgoing /\ invoice[s] = "open" /\ Room
  /\ invoice' = [invoice EXCEPT ![s] = "held"]
  /\ UNCHANGED <<db, sub, height, chain, node, acct, lock, notes, mishaps>>

UserClaims(s) ==
  /\ s \in Outgoing /\ Succeeds("claim", s)
  /\ SetEntry(s, "claimed")
  /\ notes' = notes \union EventsOf("claim", s)
  /\ UNCHANGED <<db, invoice, sub, height, lockedBy, terms, node, acct, lock, mishaps>>

UserLocks(s, chosen) ==
  /\ s \in Incoming /\ entry[s] = "none"
  /\ Room /\ ("claimer" \in chosen \/ Load + 1 < MaxLoad)
  /\ SetEntry(s, "locked")
  /\ terms' = [terms EXCEPT ![s] = chosen]
  /\ notes' = notes \union EventsOf("lock", s)
  /\ UNCHANGED <<db, invoice, sub, height, lockedBy, node, acct, lock, mishaps>>

UserRefunds(s) ==
  /\ s \in Incoming /\ Succeeds("refund", s)
  /\ SetEntry(s, "refunded")
  /\ UNCHANGED <<db, invoice, sub, height, lockedBy, terms, node, acct, lock, notes, mishaps>>

PaymentEnds(s, result) ==
  /\ s \in Incoming /\ invoice[s] = "flying"
  /\ invoice' = [invoice EXCEPT ![s] = result]
  /\ UNCHANGED <<db, sub, height, chain, node, acct, lock, notes, mishaps>>

(* LightningNursery reports an accepted hold invoice once.                 *)
InvoicePaid(s) ==
  /\ s \in sub /\ invoice[s] = "held"
  /\ sub' = sub \ {s}
  /\ Enqueue("invoice.paid", s, FALSE)
  /\ UNCHANGED <<db, invoice, height, chain, node, acct, at, used, notes, mishaps>>

(***************************************************************************)
(* Signing, broadcasting and the nonce                                     *)
(***************************************************************************)
OpOf(kind) ==
  CASE kind = "invoice.paid" -> "lock"
    [] kind = "reverseSwap.expired" -> "refund"
    [] OTHER -> "claim"
Calling(l) == at[l] \in {"signed", "recordLock", "accepted"}
Other(l) == CHOOSE k \in Locks : k # l

(* The handler reads the nonce when it builds the transaction.             *)
Sign(l) ==
  /\ \/ Running(l, {"invoice.paid"}, "start")
     \/ Running(l, {"eth.lockup", "retry"}, "claim")
     \/ Running(l, {"reverseSwap.expired"}, "refund")
  /\ nonce <= MaxNonce
  /\ used' = [used EXCEPT ![l] = nonce]
  /\ skewed' = (skewed \/ Calling(Other(l)))
  /\ Goto(l, "signed")
  /\ UNCHANGED <<db, invoice, sub, height, chain, node, nonce, poll, notes, mishaps>>

Submit(l) ==
  mempool' = mempool \union
    {[nonce |-> used[l], op |-> OpOf(HeadOf(l).kind), swap |-> HeadOf(l).swap]}

\* faulty variant: a refund does not increment the nonce
CallAcceptedNoIncrement(l) ==
  /\ queue[l] # << >> /\ at[l] = "signed"
  /\ Accepts(used[l])
  /\ Submit(l)
  /\ Goto(l, CASE OpOf(HeadOf(l).kind) = "lock" -> "recordLock"
               [] OpOf(HeadOf(l).kind) = "refund" -> "recordRefund" [] OTHER -> "accepted")
  /\ UNCHANGED <<db, invoice, sub, height, chain, executed, aborted, refused, acct, used, notes, mishaps>>

(* The node takes the call; a lockup has its row written first.            *)
CallAccepted(l) ==
  /\ queue[l] # << >> /\ at[l] = "signed"
  /\ Accepts(used[l])
  /\ Submit(l)
  /\ Goto(l, IF OpOf(HeadOf(l).kind) = "lock" THEN "recordLock" ELSE "accepted")
  /\ UNCHANGED <<db, invoice, sub, height, chain, executed, aborted, refused, acct, used, notes, mishaps>>

(* The node answers with an error: claims and refunds go on regardless.    *)
Unanswered == [lock |-> "refusedLock", claim |-> "recordClaim", refund |-> "recordRefund"]
CallRefused(l) ==
  /\ queue[l] # << >> /\ at[l] = "signed"
  /\ ~Accepts(used[l])
  /\ LET op == OpOf(HeadOf(l).kind) IN
       /\ refused' = refused \union {<<op, HeadOf(l).swap>>}
       /\ Goto(l, Unanswered[op])
  /\ UNCHANGED <<db, invoice, sub, height, chain, executed, mempool, aborted, acct, used, notes, mishaps>>

IncrementNonce(l) ==
  /\ queue[l] # << >> /\ at[l] = "accepted"
  /\ nonce <= MaxNonce
  /\ nonce' = nonce + 1
  /\ Goto(l, CASE OpOf(HeadOf(l).kind) = "lock"  -> "record"
               [] OpOf(HeadOf(l).kind) = "claim" -> "recordClaim"
               [] OTHER                          -> "recordRefund")
  /\ UNCHANGED <<db, invoice, sub, height, chain, node, poll, skewed, used, notes, mishaps>>

\* faulty variant: the exception of a claim or a refund is swallowed
LoseAnswerSwallowed(l) ==
  /\ Room /\ mishaps' = mishaps + 1
  /\ queue[l] # << >> /\ at[l] = "signed"
  /\ \/ Accepts(used[l]) /\ Submit(l) /\ skewed' = TRUE
     \/ UNCHANGED <<mempool, skewed>>
  /\ Goto(l, IF OpOf(HeadOf(l).kind) = "lock" THEN "sendFailed" ELSE Unanswered[OpOf(HeadOf(l).kind)])
  /\ UNCHANGED <<db, invoice, sub, height, chain, executed, aborted, refused, nonce, poll, used, notes>>

(* The answer is lost: the call throws, whether or not the node has it.    *)
LoseAnswer(l) ==
  /\ Room /\ mishaps' = mishaps + 1
  /\ queue[l] # << >> /\ at[l] = "signed"
  /\ \/ Accepts(used[l]) /\ Submit(l) /\ skewed' = TRUE
     \/ UNCHANGED <<mempool, skewed>>
  /\ IF OpOf(HeadOf(l).kind) = "lock" THEN Goto(l, "sendFailed") ELSE Throw(l)
  /\ UNCHANGED <<db, invoice, sub, height, chain, executed, aborted, refused, nonce, poll, used, notes>>

(* checkblockheight, every minute: what the API says of the account (an    *)
(* answer that could change nothing is left out) ...                       *)
AskNonces ==
  /\ poll = {}
  /\ \E reply \in Replies :
       /\ NextNonce(reply.next) /\ FirstMissing(reply.missing)
       /\ reply.next # nonce \/ reply.missing # 0 \/ \E l \in Locks : Calling(l)
       /\ poll' = {reply}
  /\ UNCHANGED <<db, invoice, sub, height, chain, node, nonce, skewed, lock, notes, mishaps>>

(* ... is applied when the answer arrives.                                 *)
ApplyNonces ==
  /\ \E p \in poll :
       /\ nonce' = IF p.missing # 0 THEN p.missing
                   ELSE IF p.next > nonce THEN p.next ELSE nonce
       /\ skewed' = (skewed \/ \E l \in Locks : Calling(l))
  /\ poll' = {}
  /\ UNCHANGED <<db, invoice, sub, height, chain, node, lock, notes, mishaps>>

(***************************************************************************)
(* Handlers under reverseSwapLock                                          *)
(***************************************************************************)
(* lockupStx: listenStacksContractTransaction is not awaited, and its      *)
(* update and the one that follows share one instance of the row: the      *)
(* first writes what either has set.                                       *)
ListenLockup(l, value) ==
  /\ queue[l] # << >> /\ at[l] = "recordLock"
  /\ value \in {"TransactionConfirmed", "TransactionMempool"}
  /\ SetRow(HeadOf(l).swap, value)
  /\ Goto(l, "accepted")
  /\ UNCHANGED <<txid, invoice, sub, height, chain, node, acct, used, notes, mishaps>>

ListenRefusedLockup(l, value) ==
  /\ queue[l] # << >> /\ at[l] = "refusedLock"
  /\ value \in {"TransactionFailed", "TransactionMempool"}
  /\ SetRow(HeadOf(l).swap, value)
  /\ queue' = [queue EXCEPT ![l] = Append(@, Job("lockup.failedToSend", HeadOf(l).swap, TRUE))]
  /\ at' = [at EXCEPT ![l] = "record"]
  /\ UNCHANGED <<txid, invoice, sub, height, chain, node, acct, used, notes, mishaps>>

SetLockupTransaction(l) ==
  /\ Running(l, {"invoice.paid"}, "record")
  /\ SetRow(HeadOf(l).swap, "TransactionMempool")
  /\ txid' = [txid EXCEPT ![HeadOf(l).swap] = used[l]]
  /\ Release(l)
  /\ UNCHANGED <<invoice, sub, height, chain, node, acct, used, notes, mishaps>>

(* handleReverseSwapSendFailed, after an exception or as a job of its own. *)
SendFailed(l) ==
  /\ Running(l, {"invoice.paid"}, "sendFailed") \/ Running(l, {"lockup.failedToSend"}, "start")
  /\ \/ /\ invoice[HeadOf(l).swap] # "settled"
        /\ invoice' = [invoice EXCEPT ![HeadOf(l).swap] = "canceled"]
        /\ Goto(l, "markFailed")
     \/ /\ invoice[HeadOf(l).swap] = "settled"
        /\ Throw(l) /\ UNCHANGED invoice
  /\ UNCHANGED <<db, sub, height, chain, node, acct, used, notes, mishaps>>

MarkFailed(l) ==
  /\ queue[l] # << >> /\ at[l] = "markFailed"
  /\ SetRow(HeadOf(l).swap, "TransactionFailed")
  /\ Release(l)
  /\ UNCHANGED <<txid, invoice, sub, height, chain, node, acct, used, notes, mishaps>>

(* settleReverseSwapInvoice: to settle a settled invoice is no error.      *)
SettleInvoice(l) ==
  /\ Running(l, {"claim"}, "start")
  /\ \/ /\ invoice[HeadOf(l).swap] \in {"held", "settled"}
        /\ invoice' = [invoice EXCEPT ![HeadOf(l).swap] = "settled"]
        /\ Goto(l, "settled")
     \/ /\ invoice[HeadOf(l).swap] \notin {"held", "settled"}
        /\ Throw(l) /\ UNCHANGED invoice
  /\ UNCHANGED <<db, sub, height, chain, node, acct, used, notes, mishaps>>

SetInvoiceSettled(l) ==
  /\ Running(l, {"claim"}, "settled")
  /\ SetRow(HeadOf(l).swap, "InvoiceSettled")
  /\ Release(l)
  /\ UNCHANGED <<txid, invoice, sub, height, chain, node, acct, used, notes, mishaps>>

(* expireReverseSwap: the row is queried again; the copy of the event says *)
(* whether there is a lockup transaction.                                  *)
ExpireReverseSwap(l) ==
  /\ Running(l, {"reverseSwap.expired"}, "start")
  /\ LET s == HeadOf(l).swap IN
       \/ /\ row[s] \in {"SwapExpired", "TransactionRefunded"}
          /\ Release(l)
       \/ /\ row[s] \notin {"SwapExpired", "TransactionRefunded", "TransactionMempool"}
          /\ HeadOf(l).sent
          /\ Goto(l, "refund")
       \/ /\ row[s] \notin {"SwapExpired", "TransactionRefunded"}
          /\ row[s] = "TransactionMempool" \/ ~HeadOf(l).sent
          /\ Goto(l, "expire")
  /\ UNCHANGED <<db, invoice, sub, height, chain, node, acct, used, notes, mishaps>>

(* refundStx records the refund whatever the node answered.                *)
SetTransactionRefunded(l) ==
  /\ queue[l] # << >> /\ at[l] = "recordRefund"
  /\ SetRow(HeadOf(l).swap, "TransactionRefunded")
  /\ Goto(l, "cancel")
  /\ UNCHANGED <<txid, invoice, sub, height, chain, node, acct, used, notes, mishaps>>

(* Both directions write this status; only reverse swaps go on to cancel.  *)
SetSwapExpired(l) ==
  /\ queue[l] # << >> /\ at[l] = "expire"
  /\ SetRow(HeadOf(l).swap, "SwapExpired")
  /\ IF l = "reverse" THEN Goto(l, "cancel") ELSE Release(l)
  /\ UNCHANGED <<txid, invoice, sub, height, chain, node, acct, used, notes, mishaps>>

CancelInvoice(l) ==
  /\ Running(l, {"reverseSwap.expired"}, "cancel")
  /\ invoice' = [invoice EXCEPT ![HeadOf(l).swap] = IF @ = "settled" THEN @ ELSE "canceled"]
  /\ Release(l)
  /\ UNCHANGED <<db, sub, height, chain, node, acct, used, notes, mishaps>>

(***************************************************************************)
(* Handlers under swapLock                                                 *)
(***************************************************************************)
ClaimKinds == {"eth.lockup", "retry"}

(* claimStx asks for the height before it pays, and never again.           *)
TooLate(s) == Timeout[s] <= height

ClaimStx(l) ==
  /\ Running(l, ClaimKinds, "start")
  /\ IF TooLate(HeadOf(l).swap) THEN Release(l) ELSE Goto(l, "pay")
  /\ UNCHANGED <<db, invoice, sub, height, chain, node, acct, used, notes, mishaps>>

SetInvoicePending(l) ==
  /\ Running(l, ClaimKinds, "pay")
  /\ \/ HeadOf(l).kind = "eth.lockup" /\ SetRow(HeadOf(l).swap, "InvoicePending")
     \/ HeadOf(l).kind = "retry" /\ UNCHANGED row
  /\ Goto(l, "send")
  /\ UNCHANGED <<txid, invoice, sub, height, chain, node, acct, used, notes, mishaps>>

(* LND answers at once if the payment is in flight or was made before.     *)
SendPayment(l) ==
  /\ Running(l, ClaimKinds, "send")
  /\ LET s == HeadOf(l).swap IN
       \/ /\ invoice[s] \in {"unpaid", "rejected"}
          /\ invoice' = [invoice EXCEPT ![s] = "flying"]
          /\ Goto(l, "paying")
       \/ invoice[s] = "paid" /\ Goto(l, "paying") /\ UNCHANGED invoice
       \/ invoice[s] = "flying" /\ Release(l) /\ UNCHANGED invoice
  /\ UNCHANGED <<db, sub, height, chain, node, acct, used, notes, mishaps>>

(* The payment ends, or it takes longer than the race gives it.            *)
PaymentAnswered(l) ==
  /\ Running(l, ClaimKinds, "paying")
  /\ LET s == HeadOf(l).swap IN
       \/ invoice[s] = "paid" /\ SetRow(s, "InvoicePaid") /\ Goto(l, "claim")
       \/ invoice[s] = "rejected" /\ SetRow(s, "InvoiceFailedToPay") /\ Release(l)
       \/ invoice[s] \in {"unpaid", "flying"} /\ Release(l) /\ UNCHANGED row
  /\ UNCHANGED <<txid, invoice, sub, height, chain, node, acct, used, notes, mishaps>>

(* setMinerFee writes TransactionClaimed whatever the node answered.       *)
SetMinerFee(l) ==
  /\ queue[l] # << >> /\ at[l] = "recordClaim"
  /\ SetRow(HeadOf(l).swap, "TransactionClaimed")
  /\ Release(l)
  /\ UNCHANGED <<txid, invoice, sub, height, chain, node, acct, used, notes, mishaps>>

LockupFailed(l) ==
  /\ Running(l, {"lockup.failed"}, "start")
  /\ SetRow(HeadOf(l).swap, "TransactionLockupFailed")
  /\ Release(l)
  /\ UNCHANGED <<txid, invoice, sub, height, chain, node, acct, used, notes, mishaps>>

ExpireSwap(l) ==
  /\ Running(l, {"swap.expired"}, "start")
  /\ IF row[HeadOf(l).swap] \in {"SwapExpired", "TransactionRefunded"}
     THEN Release(l) ELSE Goto(l, "expire")
  /\ UNCHANGED <<db, invoice, sub, height, chain, node, acct, used, notes, mishaps>>

(* The retry interval: once it has the lock it reads the swaps with a      *)
(* pending invoice and handles one after the other.                        *)
RetryTimer ==
  /\ \A i \in 1..Len(queue["swap"]) : queue["swap"][i].kind \notin {"retryTimer", "retry"}
  /\ \E s \in Incoming : row[s] = "InvoicePending" /\ Enqueue("retryTimer", s, FALSE)
  /\ UNCHANGED <<db, invoice, sub, height, chain, node, acct, at, used, notes, mishaps>>

RetryQuery(l) ==
  /\ Running(l, {"retryTimer"}, "start")
  /\ queue' = [queue EXCEPT ![l] =
       JobsFor("retry", {s \in Incoming : row[s] = "InvoicePending"}) \o Tail(@)]
  /\ UNCHANGED <<db, invoice, sub, height, chain, node, acct, at, used, notes, mishaps>>

(***************************************************************************)
(* StacksNursery                                                           *)
(***************************************************************************)
FindsLockup(s) ==
  IF s \in Incoming THEN row[s] \in {"SwapCreated", "InvoiceSet"}
  ELSE row[s] = "TransactionMempool" /\ txid[s] # 0

(* The row is queried when the event arrives ...                           *)
OnLockup(e) ==
  /\ e \in notes /\ e.event = "lock" /\ ~e.found
  /\ notes' = (notes \ {e}) \union
       (IF FindsLockup(e.swap) THEN {[e EXCEPT !.found = TRUE]} ELSE {})
  /\ UNCHANGED <<db, invoice, sub, height, chain, node, acct, lock, mishaps>>

(* ... and written after an await, whatever it has become meanwhile.       *)
ConfirmOwnLockup(e) ==
  /\ e \in notes /\ e.found /\ e.swap \in Outgoing
  /\ notes' = notes \ {e}
  /\ SetRow(e.swap, "TransactionConfirmed")
  /\ UNCHANGED <<txid, invoice, sub, height, chain, node, acct, lock, mishaps>>

\* faulty variant: the amount and the time lock are not checked
SufficientAlways(s) == TRUE
(* Who may claim the entry is not looked at.                               *)
Sufficient(s) == "amount" \in terms[s]
StoreUserLockup(e) ==
  /\ e \in notes /\ e.found /\ e.swap \in Incoming
  /\ notes' = notes \ {e}
  /\ SetRow(e.swap, "TransactionConfirmed")
  /\ Enqueue(IF Sufficient(e.swap) THEN "eth.lockup" ELSE "lockup.failed", e.swap, TRUE)
  /\ UNCHANGED <<txid, invoice, sub, height, chain, node, acct, at, used, mishaps>>

OnClaim(e) ==
  /\ e \in notes /\ e.event = "claim"
  /\ notes' = notes \ {e}
  /\ \/ row[e.swap] # "InvoiceSettled" /\ Enqueue("claim", e.swap, TRUE)
     \/ row[e.swap] = "InvoiceSettled" /\ UNCHANGED queue
  /\ UNCHANGED <<db, invoice, sub, height, chain, node, acct, at, used, mishaps>>

(* Swaps whose coins may have to go back; rows in the mempool are left out.*)
\* faulty variant: lockups in the mempool expire too
ReverseExpirableMempool(s) ==
  row[s] \notin {"SwapExpired", "TransactionFailed", "TransactionRefunded", "InvoiceSettled"}
ReverseExpirable(s) ==
  row[s] \notin {"SwapExpired", "TransactionFailed", "TransactionRefunded",
                 "InvoiceSettled", "TransactionMempool"}
NormalExpirable(s) ==
  row[s] \notin {"SwapExpired", "InvoiceFailedToPay", "TransactionClaimed"}
Waiting(kind, s) ==
  Cardinality({i \in 1..Len(queue[LockOf(s)]) : /\ queue[LockOf(s)][i].kind = kind
                                               /\ queue[LockOf(s)][i].swap = s})

CheckExpired(s) ==
  /\ Timeout[s] <= height
  /\ \/ /\ s \in Incoming /\ NormalExpirable(s)
        /\ Waiting("swap.expired", s) < MaxPending
        /\ Enqueue("swap.expired", s, TRUE)
     \/ /\ s \in Outgoing /\ ReverseExpirable(s)
        /\ Waiting("reverseSwap.expired", s) < MaxPending
        /\ Enqueue("reverseSwap.expired", s, txid[s] # 0)
  /\ UNCHANGED <<db, invoice, sub, height, chain, node, acct, at, used, notes, mishaps>>

(***************************************************************************)
(* Faults                                                                  *)
(***************************************************************************)
LoseNote(e) ==
  /\ Room /\ mishaps' = mishaps + 1
  /\ e \in notes /\ ~e.found
  /\ notes' = notes \ {e}
  /\ UNCHANGED <<db, invoice, sub, height, chain, node, acct, lock>>

(* What a rescan may find again: one transaction of every block.           *)
Rescannable ==
  UNION {EventsOf(q[1], q[2]) : q \in
           {p \in {"lock", "claim"} \X StxSwaps : ResultOf[p[1]] \in past[p[2]]}}

(* StacksNursery.init looks up the lockups in the mempool: one that is not *)
(* executed counts as failed, one the node does not know is left alone.    *)
LockCall(s) == [nonce |-> txid[s], op |-> "lock", swap |-> s]
InMempool == {s \in Outgoing : row[s] = "TransactionMempool" /\ txid[s] # 0}
FoundFailed(s) == s \in InMempool /\ LockCall(s) \in mempool \union aborted
FoundDone(s) == s \in InMempool /\ lockedBy[s] = txid[s]

\* faulty variant: the row takes the status of the transaction
RowAfterInitTxStatus(s) ==
  IF FoundFailed(s) THEN "pending"
  ELSE IF FoundDone(s) THEN "TransactionConfirmed" ELSE row[s]
RowAfterInit(s) ==
  IF FoundFailed(s) THEN "TransactionFailed"
  ELSE IF FoundDone(s) THEN "TransactionConfirmed" ELSE row[s]

Restart ==
  /\ Room /\ mishaps' = mishaps + 1
  /\ nonce' = executed /\ poll' = {}
  /\ skewed' = (skewed \/ mempool # {})
  /\ sub' = {s \in Outgoing : row[s] = "SwapCreated"}
  /\ row' = [s \in StxSwaps |-> IF s \in Outgoing THEN RowAfterInit(s) ELSE row[s]]
  /\ queue' = [l \in Locks |-> IF l = "swap" THEN << >>
                ELSE JobsFor("lockup.failedToSend", {s \in Outgoing : FoundFailed(s)})]
  /\ at' = [l \in Locks |-> "start"]
  /\ notes' \in SUBSET Rescannable
  /\ UNCHANGED <<txid, invoice, height, chain, node, used>>

-----------------------------------------------------------------------------
Outside ==
  \/ \E c \in mempool : ExecuteCall(c)
  \/ MineBlock
  \/ \E s \in StxSwaps : PayHoldInvoice(s) \/ UserClaims(s) \/ UserRefunds(s)
  \/ \E s \in StxSwaps, chosen \in SUBSET LockupTerms : UserLocks(s, chosen)
  \/ \E s \in StxSwaps, result \in {"paid", "rejected", "unpaid"} : PaymentEnds(s, result)

Nursery ==
  \/ \E s \in StxSwaps : InvoicePaid(s) \/ CheckExpired(s)
  \/ \E e \in notes : OnLockup(e) \/ ConfirmOwnLockup(e) \/ StoreUserLockup(e) \/ OnClaim(e)
  \/ RetryTimer \/ AskNonces \/ ApplyNonces

CallSteps(l) == Sign(l) \/ CallAccepted(l) \/ CallRefused(l) \/ IncrementNonce(l)

ReverseSteps ==
  LET l == "reverse" IN
  \/ \E value \in RowStates : ListenLockup(l, value) \/ ListenRefusedLockup(l, value)
  \/ SetLockupTransaction(l) \/ SendFailed(l) \/ MarkFailed(l)
  \/ SettleInvoice(l) \/ SetInvoiceSettled(l)
  \/ ExpireReverseSwap(l) \/ SetTransactionRefunded(l) \/ CancelInvoice(l)

SwapSteps ==
  LET l == "swap" IN
  \/ ClaimStx(l) \/ SetInvoicePending(l) \/ SendPayment(l) \/ PaymentAnswered(l)
  \/ SetMinerFee(l) \/ LockupFailed(l) \/ ExpireSwap(l) \/ RetryQuery(l)

StacksNext ==
  \/ Outside \/ Nursery
  \/ \E l \in Locks : CallSteps(l) \/ SetSwapExpired(l)
  \/ ReverseSteps \/ SwapSteps
  \/ \E l \in Locks : LoseAnswer(l)
  \/ \E e \in notes : LoseNote(e)
  \/ Restart

StacksSpec == StacksInit /\ [][StacksNext]_stxVars

-----------------------------------------------------------------------------
StacksTypeOK ==
  /\ row \in [StxSwaps -> RowStates]
  /\ txid \in [Outgoing -> 0..MaxNonce]
  /\ invoice \in [StxSwaps -> {"open", "held", "settled", "canceled",
                               "unpaid", "flying", "paid", "rejected"}]
  /\ sub \subseteq Outgoing
  /\ height \in 0..MaxHeight
  /\ entry \in [StxSwaps -> {"none", "locked", "claimed", "refunded"}]
  /\ past \in [StxSwaps -> SUBSET {"locked", "claimed", "refunded"}]
  /\ lockedBy \in [StxSwaps -> 0..MaxNonce]
  /\ terms \in [Incoming -> SUBSET LockupTerms]
  /\ executed \in 1..(MaxNonce + 1)
  /\ mempool \subseteq Calls /\ aborted \subseteq Calls
  /\ refused \subseteq Ops \X StxSwaps
  /\ nonce \in 1..(MaxNonce + 1) /\ poll \subseteq Replies /\ skewed \in BOOLEAN
  /\ queue \in [Locks -> Seq(Jobs)]
  /\ at \in [Locks -> Awaits] /\ used \in [Locks -> 0..MaxNonce]
  /\ notes \subseteq Notes
  /\ mishaps \in 0..MaxLoad

(* A Lightning payment for a reverse swap is taken only for coins the user *)
(* has taken: whatever events are lost, repeated or late, only a claim in  *)
(* the contract reveals the preimage that settles the hold invoice.        *)
TakenOnlyForClaim ==
  \A s \in Outgoing : invoice[s] = "settled" => "claimed" \in past[s]

(* The backend pays an invoice, at once or on a retry, only if coins with  *)
(* the amount and the time lock of the swap were locked for it.  That it   *)
(* is the one who may claim them is not said: StacksNursery does not check *)
(* the claimPrincipal of the entry, and pays for coins only another user   *)
(* can take as well.                                                       *)
PaysOnlyGoodLockups ==
  \A s \in Incoming :
    invoice[s] \in {"flying", "paid"} => "locked" \in past[s] /\ "amount" \in terms[s]

(* One nonce for all calls is enough as long as they are made one at a     *)
(* time: if no two calls overlap, no call overlaps with the nonce check,   *)
(* no answer is lost and nothing is pending at a restart, the node refuses *)
(* no call, no gap holds calls up, and the nonce is right between calls.   *)
SerialCallsAccepted ==
  ~skewed =>
    /\ refused = {} /\ Missing = {}
    /\ (\A l \in Locks : ~Calling(l)) => NextNonce(nonce)

(* A row says that coins were claimed or refunded only if a call that does *)
(* it was made: it is pending, it was executed, or it failed in the node   *)
(* or in the contract, which the row does not tell.                        *)
Explained(op, s) ==
  \/ ResultOf[op] \in past[s] \/ Live(op, s) \/ <<op, s>> \in refused
  \/ \E c \in aborted : c.op = op /\ c.swap = s

RowExplained ==
  \A s \in StxSwaps :
    /\ row[s] = "TransactionClaimed" => Explained("claim", s)
    /\ row[s] = "TransactionRefunded" => Explained("refund", s)

(* Without crashes and faults the backend gives a held payment back while  *)
(* its coins are locked, or about to be, only after it tried to take the   *)
(* coins back, or for an expiry event that is older than the lockup.       *)
GivenBackForRefund ==
  [][\A s \in Outgoing :
       (/\ invoice[s] = "held" /\ invoice'[s] = "canceled"
        /\ Live("lock", s) \/ "locked" \in past[s]
        /\ mishaps = 0)
         => \/ Explained("refund", s)
            \/ Running("reverse", {"reverseSwap.expired"}, "cancel") /\ ~HeadOf("reverse").sent]_stxVars

-----------------------------------------------------------------------------
(* What the proofs rest on.  Events, jobs and rows that stand for something*)
(* on the chain: a claim, or a lockup that the handler found good.         *)
Queued(l) == {queue[l][i] : i \in 1..Len(queue[l])}
Good(s) == "locked" \in past[s] /\ Sufficient(s)

JobInv ==
  \A l \in Locks : \A j \in Queued(l) :
    /\ LockOf(j.swap) = l
    /\ j.kind = "claim" => "claimed" \in past[j.swap]
    /\ j.kind \in ClaimKinds => j.swap \in Incoming /\ Good(j.swap)

ChainInv ==
  /\ \A e \in notes :
       /\ e.event = "claim" => "claimed" \in past[e.swap]
       /\ e.event = "lock" => "locked" \in past[e.swap]
       /\ e.found => e.event = "lock"
  /\ \A s \in StxSwaps : entry[s] = "none" => past[s] = {}

PayInv ==
  \A s \in Incoming :
    row[s] = "InvoicePending" \/ invoice[s] \in {"flying", "paid"} => Good(s)

MoneyInv == JobInv /\ ChainInv /\ PayInv /\ TakenOnlyForClaim

(* A handler goes on to record what a call of its swap was for.            *)
CallInv ==
  \A l \in Locks :
    IF queue[l] = << >> THEN at[l] = "start"
    ELSE /\ at[l] \in {"recordLock", "accepted"} => Explained(OpOf(HeadOf(l).kind), HeadOf(l).swap)
         /\ at[l] \in {"recordLock", "refusedLock"} => OpOf(HeadOf(l).kind) = "lock"
         /\ at[l] = "recordClaim" => Explained("claim", HeadOf(l).swap)
         /\ at[l] = "recordRefund" => Explained("refund", HeadOf(l).swap)

RecordInv == CallInv /\ RowExplained

(* The nonces from the next to execute up to Taken are in the mempool, each*)
(* once; the process is one behind between the node's answer and its own   *)
(* increment, and what it asked of the API is not newer than that.         *)
Taken == IF \E l \in Locks : at[l] \in {"recordLock", "accepted"} THEN nonce ELSE nonce - 1

Serial ==
  /\ refused = {}
  /\ NoncesOf(mempool) = executed..Taken /\ executed <= Taken + 1
  /\ \A k, l \in Locks : Calling(k) /\ Calling(l) => k = l
  /\ \A l \in Locks : Calling(l) => used[l] = nonce
  /\ \A p \in poll : p.missing = 0 /\ p.next <= Taken + 1

OneCallPerNonce == \A c, d \in mempool : c.nonce = d.nonce => c = d
NonceInv == OneCallPerNonce /\ (~skewed => Serial)

(* Without mishaps a payment is handled once, what is known not to be      *)
(* locked stays so, and an expiry event that knows of a lockup comes after *)
(* the last time its row said that the lockup is in the mempool.           *)
Paying(s) == {i \in 1..Len(queue["reverse"]) :
                queue["reverse"][i].kind = "invoice.paid" /\ queue["reverse"][i].swap = s}
Unlocked(s) == ~Live("lock", s) /\ "locked" \notin past[s]

PaidOnce(s) ==
  /\ s \in sub => Paying(s) = {} /\ Unlocked(s)
  /\ \A i, j \in Paying(s) : i = j
  /\ \A i \in Paying(s) :
       i # 1 \/ at["reverse"] \in {"start", "signed", "refusedLock"} => Unlocked(s)
  /\ txid[s] # 0 => s \notin sub /\ Paying(s) = {}

JobFits(j) ==
  /\ j.kind = "lockup.failedToSend" =>
       /\ Unlocked(j.swap) /\ j.swap \notin sub
       /\ \A i \in Paying(j.swap) : i = 1 /\ at["reverse"] = "record"
  /\ j.kind = "reverseSwap.expired" /\ j.sent =>
       txid[j.swap] # 0 /\ row[j.swap] # "TransactionMempool"

HeadFits ==
  /\ at["reverse"] # "sendFailed"
  /\ queue["reverse"] # << >> /\ HeadOf("reverse").sent =>
       /\ at["reverse"] = "cancel" => Explained("refund", HeadOf("reverse").swap)
       /\ at["reverse"] # "expire"

Calm == (\A s \in Outgoing : PaidOnce(s)) /\ (\A j \in Queued("reverse") : JobFits(j)) /\ HeadFits
CalmInv == mishaps = 0 => Calm
=============================================================================
