----------------------- MODULE ReverseSwapOnce_proofs -----------------------
(***************************************************************************)
(* How often the coins of a swap are sent, for every set of swaps and      *)
(* every bound: OnceInv counts the payouts made, those that wait and those *)
(* that may yet be asked for.  And what holds as long as blocks wait for   *)
(* the backend, which neither crashes nor fails half-way: coins are sent   *)
(* for payments that are held, their lockup is on record, and a payment is *)
(* not given back to a user who claimed in time.                           *)
(***************************************************************************)
EXTENDS ReverseSwap_proofs, FiniteSetTheorems

-----------------------------------------------------------------------------
(* What one step may do *)

PaidJobs(s) == Waiting("invoice.paid", s)

(* A handler that goes on is not at its start.                             *)
LEMMA GotoGoesOn ==
  ASSUME Handler \/ SendFails \/ SettleFails
  PROVE  Release \/ (UNCHANGED queue /\ step' # "start")
  BY DEF Handler, SendToAddress, AddFilters, SetLockupTransaction, CancelAfterFailure,
         SetTransactionFailed, SettleInvoice, SetInvoiceSettled, QueryExpired,
         SetSwapExpired, RefundUtxo, SetTransactionRefunded, CancelHold, CancelFee,
         LookupExpired, CancelExpiredHold, CancelExpiredFee, SetInvoiceExpired,
         SendFails, SettleFails, Goto

Late(s) == Timeout[s] <= height

(* LightningNursery passes a payment on, if the miner fee can be settled.  *)
Pays(s) == OnHoldAccepted(s) \/ HoldSettlesFee(s) \/ FeeSettlesFee(s)

(* Who changes what is known of a swap.                                    *)
Touches(s) ==
  /\ \/ hold'[s] = hold[s] \/ PayHold(s) \/ LndCancelsHold(s)
     \/ s = Current /\ (SettleInvoice \/ CancelAfterFailure \/ CancelHold \/ CancelExpiredHold)
  /\ \/ fee'[s] = fee[s] \/ (fee[s] # "SETTLED" /\ fee'[s] = "CANCELED")
     \/ PayFee(s) \/ HoldSettlesFee(s) \/ FeeSettlesFee(s)
  /\ invoiceExpired[s] => invoiceExpired'[s]
  /\ sub'[s] = sub[s] \/ OnHoldAccepted(s) \/ OnFeeAccepted(s)
  /\ holdHandler'[s] = holdHandler[s] \/ OnHoldAccepted(s) \/ HoldSettlesFee(s)
  /\ \/ feeHandler'[s] = feeHandler[s] \/ OnFeeAccepted(s) \/ FeeSetStatus(s)
     \/ FeeLookup(s) \/ FeeSettlesFee(s)
  /\ \/ status'[s] = status[s] \/ FeeSetStatus(s) \/ ReverseSwapLockupConfirmed(s)
     \/ s = Current /\ \/ SetLockupTransaction \/ SetTransactionFailed \/ SetInvoiceSettled
                       \/ SetSwapExpired \/ SetTransactionRefunded \/ SetInvoiceExpired
  /\ txOut'[s] = txOut[s] \/ (SetLockupTransaction /\ s = Current)
  /\ sent'[s] = sent[s] \/ (SendToAddress /\ s = Current)
  /\ early'[s] = early[s] \/ \E n \in Outs : UserClaims(s, n)
  /\ UNCHANGED height \/ MineBlock

(* No step does anything else to a swap, whichever swap it is of.          *)
LEMMA NextTouches ==
  ASSUME TypeOK, [Next]_vars, ~Restart, NEW s \in Swaps
  PROVE  Touches(s)
  <1>1. ASSUME NEW r \in Swaps, PayHold(r) \/ LndCancelsHold(r) PROVE Touches(s)
    BY <1>1 DEF Touches, TypeOK, PayHold, LndCancelsHold, db, subs, lock, chain, zmq, env
  <1>2. ASSUME NEW r \in Swaps, PayFee(r) \/ LndCancelsFee(r) \/ ExpireInvoices(r)
        PROVE  Touches(s)
    BY <1>2 DEF Touches, TypeOK, PayFee, LndCancelsFee, ExpireInvoices, db, subs, chain
  <1>3. ASSUME NEW r \in Swaps, NEW n \in Outs, UserClaims(r, n) PROVE Touches(s)
    BY <1>3 DEF Touches, TypeOK, UserClaims, db, ln, subs
  <1>4. ASSUME NEW r \in Swaps, OnHoldAccepted(r) \/ OnFeeAccepted(r) PROVE Touches(s)
    BY <1>4 DEF Touches, TypeOK, OnHoldAccepted, OnFeeAccepted, db, ln, chain
  <1>5. ASSUME NEW r \in Swaps, FeeSetStatus(r) \/ FeeLookup(r) PROVE Touches(s)
    BY <1>5 DEF Touches, TypeOK, FeeSetStatus, FeeLookup, SetStatus, db, ln, chain
  <1>6. ASSUME NEW r \in Swaps, HoldSettlesFee(r) \/ FeeSettlesFee(r) PROVE Touches(s)
    BY <1>6 DEF Touches, TypeOK, HoldSettlesFee, FeeSettlesFee, EmitPaid, db, chain
  <1>7. ASSUME NEW r \in Swaps, Nurseries(r) PROVE Touches(s)
    BY <1>7 DEF Touches, TypeOK, Nurseries, CheckExpiredInvoices, ReverseSwapLockupConfirmed,
                CheckExpiredReverseSwaps, CheckReverseSwapClaims, SetStatus, db, ln, subs, chain
  <1>8. CASE \/ MineBlock \/ SendFails \/ SettleFails \/ UNCHANGED vars
             \/ \E r \in Swaps, n \in Outs : LoseNews(r, n) \/ MineLockup(r, n)
             \/ \E S \in SUBSET Swaps : ReadMempoolSwaps(S)
    BY <1>8 DEF Touches, MineBlock, SendFails, SettleFails, LoseNews, MineLockup,
                ReadMempoolSwaps, vars, db, ln, subs, chain
  <1>9. CASE SettleInvoice \/ CancelAfterFailure \/ CancelHold \/ CancelExpiredHold
    BY <1>9 DEF Touches, TypeOK, SettleInvoice, CancelAfterFailure, CancelHold,
                CancelExpiredHold, db, subs, chain
  <1>10. CASE CancelFee \/ CancelExpiredFee
    BY <1>10 DEF Touches, TypeOK, CancelFee, CancelExpiredFee, CanCancel, db, subs, chain
  <1>11. CASE \/ SetLockupTransaction \/ SetTransactionFailed \/ SetInvoiceSettled
              \/ SetSwapExpired \/ SetTransactionRefunded \/ SetInvoiceExpired
    BY <1>11 DEF Touches, TypeOK, SetLockupTransaction, SetTransactionFailed,
                 SetInvoiceSettled, SetSwapExpired, SetTransactionRefunded, SetInvoiceExpired,
                 SetStatus, ln, subs, chain
  <1>12. CASE SendToAddress \/ AddFilters \/ QueryExpired \/ RefundUtxo \/ LookupExpired
    BY <1>12 DEF Touches, TypeOK, SendToAddress, AddFilters, QueryExpired, RefundUtxo,
                 LookupExpired, db, ln, subs, chain
  <1>. QED
    BY <1>1, <1>2, <1>3, <1>4, <1>5, <1>6, <1>7, <1>8, <1>9, <1>10, <1>11, <1>12
    DEF Next, Environment, Lightning, Handler, Faults

(* Where an event comes from that waits for the lock.                      *)
Emitted(j) ==
  /\ j.kind = "invoice.paid" => Pays(j.swap)
  /\ j.kind = "reverseSwap.expired" =>
       CheckExpiredReverseSwaps(j.swap) /\ j.out = txOut[j.swap]
  /\ j.kind = "reverseSwap.claimed" => status[j.swap] \in ClaimableStatuses

(* LightningNursery emits nothing but payments, the others everything else.*)
LEMMA EmitPaidJob ==
  ASSUME NEW s \in Swaps, Pays(s), Enqueue("invoice.paid", s, 0)
  PROVE  \E j \in Jobs : queue' = Append(queue, j) /\ Emitted(j)
  <1>. DEFINE job == [kind |-> "invoice.paid", swap |-> s, out |-> 0]
  <1>1. job \in Jobs /\ queue' = Append(queue, job)
    BY BoundsAssumption DEF Jobs, Kinds, Enqueue
  <1>2. Emitted(job)
    BY DEF Emitted
  <1>. QED  BY <1>1, <1>2

LEMMA LightningEmits ==
  ASSUME TypeOK, NEW s \in Swaps, Lightning(s)
  PROVE  /\ UNCHANGED step
         /\ UNCHANGED queue \/ \E j \in Jobs : queue' = Append(queue, j) /\ Emitted(j)
  <1>1. CASE OnHoldAccepted(s)
    BY <1>1, EmitPaidJob DEF OnHoldAccepted, Pays
  <1>2. CASE HoldSettlesFee(s) \/ FeeSettlesFee(s)
    BY <1>2, EmitPaidJob DEF HoldSettlesFee, FeeSettlesFee, EmitPaid, Pays
  <1>3. CASE OnFeeAccepted(s) \/ FeeSetStatus(s) \/ FeeLookup(s)
    BY <1>3 DEF OnFeeAccepted, FeeSetStatus, FeeLookup, lock
  <1>. QED  BY <1>1, <1>2, <1>3 DEF Lightning

LEMMA NurseriesEmit ==
  ASSUME TypeOK, NEW s \in Swaps, Nurseries(s)
  PROVE  /\ UNCHANGED step
         /\ UNCHANGED queue \/ \E j \in Jobs : queue' = Append(queue, j) /\ Emitted(j)
  <1>1. ASSUME NEW kind \in Kinds, NEW n \in 0..MaxLockups, Enqueue(kind, s, n),
               kind # "invoice.paid",
               kind = "reverseSwap.expired" => CheckExpiredReverseSwaps(s) /\ n = txOut[s],
               kind = "reverseSwap.claimed" => status[s] \in ClaimableStatuses
        PROVE  \E j \in Jobs : queue' = Append(queue, j) /\ Emitted(j)
    <2>. DEFINE job == [kind |-> kind, swap |-> s, out |-> n]
    <2>1. job \in Jobs /\ queue' = Append(queue, job)
      BY <1>1 DEF Jobs, Enqueue
    <2>2. Emitted(job)
      BY <1>1 DEF Emitted
    <2>. QED  BY <2>1, <2>2
  <1>2. txOut[s] \in 0..MaxLockups /\ \A n \in Outs : n \in 0..MaxLockups
    BY BoundsAssumption DEF TypeOK, Outs
  <1>3. CASE CheckExpiredInvoices(s)
    BY <1>1, <1>2, <1>3 DEF CheckExpiredInvoices, Kinds
  <1>4. CASE CheckExpiredReverseSwaps(s)
    BY <1>1, <1>2, <1>4 DEF CheckExpiredReverseSwaps, Kinds
  <1>5. ASSUME NEW n \in Outs, CheckReverseSwapClaims(s, n)
        PROVE  /\ UNCHANGED step
               /\ UNCHANGED queue \/ \E j \in Jobs : queue' = Append(queue, j) /\ Emitted(j)
    BY <1>1, <1>2, <1>5 DEF CheckReverseSwapClaims, Kinds
  <1>6. CASE ReverseSwapLockupConfirmed(s)
    BY <1>6 DEF ReverseSwapLockupConfirmed, lock
  <1>. QED  BY <1>3, <1>4, <1>5, <1>6 DEF Nurseries, CheckExpiredInvoices, CheckExpiredReverseSwaps

(* What one step does to the lock: it leaves it alone, emits an event, or  *)
(* is one of the handler at its head, which goes on or gives it back.      *)
LEMMA NextLock ==
  ASSUME TypeOK, [Next]_vars, ~Restart
  PROVE  \/ UNCHANGED <<queue, step>>
         \/ UNCHANGED step /\ \E j \in Jobs : queue' = Append(queue, j) /\ Emitted(j)
         \/ /\ Handler \/ SendFails \/ SettleFails
            /\ queue # << >> /\ (Release \/ (UNCHANGED queue /\ step' # "start"))
  <1>1. ASSUME NEW s \in Swaps, Environment(s) PROVE UNCHANGED <<queue, step>>
    BY <1>1 DEF Environment, PayHold, PayFee, ExpireInvoices, LndCancelsHold, LndCancelsFee,
                UserClaims, lock
  <1>2. CASE Handler \/ SendFails \/ SettleFails
    BY <1>2, HandlerSteps, GotoGoesOn DEF RefundUtxo, LookupExpired
  <1>3. CASE \/ MineBlock \/ UNCHANGED vars
             \/ \E r \in Swaps, n \in Outs : LoseNews(r, n) \/ MineLockup(r, n)
             \/ \E S \in SUBSET Swaps : ReadMempoolSwaps(S)
    BY <1>3 DEF MineBlock, LoseNews, MineLockup, ReadMempoolSwaps, vars, lock
  <1>. QED  BY <1>1, <1>2, <1>3, LightningEmits, NurseriesEmit DEF Next, Faults

(* An event that waits after a step waited before, or the step emitted it; *)
(* none that has begun begins again.                                       *)
LEMMA NextWaiting ==
  ASSUME TypeOK, [Next]_vars, ~Restart, NEW i \in 1..Len(queue')
  PROVE  \/ Emitted(queue'[i]) /\ UNCHANGED step
         \/ \E k \in 1..Len(queue) :
              /\ queue'[i] = queue[k]
              /\ (i # 1 \/ step' = "start") => (k # 1 \/ step = "start")
  <1>. DEFINE Old == \E k \in 1..Len(queue) :
                       /\ queue'[i] = queue[k]
                       /\ (i # 1 \/ step' = "start") => (k # 1 \/ step = "start")
  <1>1. CASE UNCHANGED <<queue, step>>
    BY <1>1
  <1>2. ASSUME NEW j \in Jobs, queue' = Append(queue, j), Emitted(j), UNCHANGED step
        PROVE  (Emitted(queue'[i]) /\ UNCHANGED step) \/ Old
    <2>1. queue'[i] = j \/ (i \in 1..Len(queue) /\ queue'[i] = queue[i])
      BY <1>2, AppendFacts DEF TypeOK
    <2>. QED  BY <1>2, <2>1
  <1>3. CASE queue # << >> /\ Release
    <2>1. i + 1 \in 1..Len(queue) /\ queue'[i] = queue[i + 1]
      BY <1>3, TailFacts DEF Release, TypeOK
    <2>2. i \in Int /\ i >= 1
      BY <1>3, TailFacts DEF Release, TypeOK
    <2>3. i + 1 # 1
      BY <2>2
    <2>. QED  BY <2>1, <2>3
  <1>4. CASE UNCHANGED queue /\ step' # "start"
    BY <1>4
  <1>. QED  BY <1>1, <1>2, <1>3, <1>4, NextLock

(* The running handler, by the invariants of the queue.                    *)
LEMMA Running1 ==
  ASSUME IInv, NEW kind, NEW at, Running(kind, at)
  PROVE  /\ queue # << >> /\ Current \in Swaps /\ step = at
         /\ Head(queue) = queue[1] /\ 1 \in Waiting(kind, Current)
         /\ JobOK(Head(queue)) /\ Head(queue).kind = kind
  <1>1. queue # << >> /\ Head(queue).kind = kind /\ step = at
    BY DEF Running
  <1>2. 1 \in 1..Len(queue) /\ Head(queue) = queue[1] /\ Current \in Swaps
    BY <1>1, HeadFacts, LockType DEF IInv, TypeOK
  <1>. QED  BY <1>1, <1>2 DEF IInv, QueueInv, Waiting, Current

(* Payments that wait were passed on.                                      *)
LEMMA PaidJobsCome ==
  ASSUME TypeOK, [Next]_vars, ~Restart, NEW s \in Swaps
  PROVE  /\ PaidJobs(s)' # {} => PaidJobs(s) # {} \/ Pays(s)
         /\ PayoutsDue(s)' # {} => PayoutsDue(s) # {} \/ Pays(s)
  <1>1. ASSUME NEW i \in PaidJobs(s)', ~Pays(s)
        PROVE  \E k \in PaidJobs(s) : (i # 1 \/ step' = "start") => (k # 1 \/ step = "start")
    <2>1. /\ i \in 1..Len(queue') /\ queue'[i].kind = "invoice.paid"
          /\ queue'[i].swap = s
      BY <1>1 DEF PaidJobs, Waiting
    <2>2. ~Emitted(queue'[i])
      BY <1>1, <2>1 DEF Emitted
    <2>3. PICK k \in 1..Len(queue) :
            /\ queue'[i] = queue[k]
            /\ (i # 1 \/ step' = "start") => (k # 1 \/ step = "start")
      BY <2>1, <2>2, NextWaiting
    <2>4. k \in PaidJobs(s)
      BY <2>1, <2>3 DEF PaidJobs, Waiting
    <2>. QED  BY <2>3, <2>4
  <1>. QED  BY <1>1 DEF PayoutsDue, PaidJobs

(* No step under the lock but those of a handler changes who runs.         *)
LEMMA SameRunner ==
  ASSUME TypeOK, StepInv, [Next]_vars, ~Restart, ~(Handler \/ SendFails \/ SettleFails)
  PROVE  /\ UNCHANGED step
         /\ step # "start" => queue # << >> /\ queue' # << >> /\ Head(queue') = Head(queue)
  <1>1. step # "start" => queue # << >>
    BY DEF StepInv
  <1>2. ASSUME NEW j \in Jobs, queue' = Append(queue, j), queue # << >>
        PROVE  queue' # << >> /\ Head(queue') = Head(queue)
    BY <1>2, AppendFacts DEF TypeOK
  <1>. QED  BY <1>1, <1>2, NextLock

-----------------------------------------------------------------------------
(* The miner fee is reported once, and before any coins are sent           *)

(* What FeeInv says of one swap.                                           *)
FeeOK(s) ==
  /\ FeeMayEmit(s) \/ holdHandler[s] # "idle" \/ fee[s] \in {"ACCEPTED", "SETTLED"} => s \in Prepay
  /\ "fee" \in sub[s] => feeHandler[s] = "idle"
  /\ "fee" \in sub[s] \/ feeHandler[s] = "setStatus" =>
       fee[s] # "SETTLED" /\ holdHandler[s] = "idle" /\ status[s] # "MinerFeePaid"
  /\ holdHandler[s] = "settleFee" => "hold" \notin sub[s]
  /\ \/ holdHandler[s] = "settleFee" \/ feeHandler[s] \in {"lookup", "settleFee"}
     \/ fee[s] = "SETTLED"
     => status[s] # "SwapCreated"
  /\ s \in Prepay /\ fee[s] # "SETTLED" => sent[s] = 0 /\ PaidJobs(s) = {}

LEMMA FeeOfAll == (FeeInv <=> \A s \in Swaps : FeeOK(s)) /\ (FeeInv' <=> \A s \in Swaps : FeeOK(s)')
  BY DEF FeeInv, FeeOK, PaidJobs

(* No invoice is accepted that was not issued.                             *)
LEMMA InitFee == Init => FeeInv
  BY DEF Init, FeeInv, FeeMayEmit, Waiting

(* Handlers that settle the miner fee move on from what FeeOK says.        *)
LEMMA FeeKeptByHandlers ==
  ASSUME TypeOK, NEW s \in Swaps, FeeOK(s),
         \/ OnHoldAccepted(s) \/ OnFeeAccepted(s) \/ FeeSetStatus(s) \/ FeeLookup(s)
         \/ HoldSettlesFee(s) \/ FeeSettlesFee(s)
  PROVE  FeeOK(s)'
  <1>. USE DEF FeeOK, FeeMayEmit
  <1>1. UNCHANGED queue => PaidJobs(s)' = PaidJobs(s)
    BY DEF PaidJobs, Waiting
  <1>2. CASE OnHoldAccepted(s)
    BY <1>1, <1>2 DEF OnHoldAccepted, TypeOK, db, ln, chain
  <1>3. CASE OnFeeAccepted(s)
    BY <1>1, <1>3 DEF OnFeeAccepted, TypeOK, db, ln, lock, chain
  <1>4. CASE FeeSetStatus(s)
    BY <1>1, <1>4 DEF FeeSetStatus, SetStatus, TypeOK, ln, lock, chain
  <1>5. CASE FeeLookup(s)
    BY <1>1, <1>5 DEF FeeLookup, TypeOK, db, ln, lock, chain
  <1>6. CASE HoldSettlesFee(s) \/ FeeSettlesFee(s)
    <2>1. /\ EmitPaid(s) /\ UNCHANGED <<status, sub, sent>>
          /\ holdHandler[s] = "settleFee" \/ feeHandler[s] = "settleFee"
          /\ holdHandler'[s] = holdHandler[s] \/ holdHandler'[s] = "idle"
          /\ feeHandler'[s] = feeHandler[s] \/ feeHandler'[s] = "idle"
      BY <1>6 DEF HoldSettlesFee, FeeSettlesFee, TypeOK, db, chain
    <2>2. s \in Prepay /\ status[s] # "SwapCreated" /\ "fee" \notin sub[s] /\ feeHandler[s] # "setStatus"
      BY <2>1
    <2>3. CASE CanSettle(fee[s])
      <3>1. fee'[s] = "SETTLED"
        BY <2>1, <2>3 DEF EmitPaid, TypeOK
      <3>. QED  BY <2>1, <2>2, <3>1
    <2>4. CASE ~CanSettle(fee[s])
      <3>1. UNCHANGED fee /\ UNCHANGED queue
        BY <2>1, <2>4 DEF EmitPaid
      <3>. QED  BY <1>1, <2>1, <2>2, <3>1
    <2>. QED  BY <2>3, <2>4
  <1>. QED  BY <1>2, <1>3, <1>4, <1>5, <1>6

(* A crash forgets the handlers and subscribes by the status of the row.   *)
LEMMA FeeKeptByRestart ==
  ASSUME TypeOK, NEW s \in Swaps, FeeOK(s), Restart
  PROVE  FeeOK(s)'
  <1>1. /\ UNCHANGED <<status, fee, sent>> /\ queue' = << >>
        /\ holdHandler'[s] = "idle" /\ feeHandler'[s] = "idle" /\ sub'[s] = Resubscribe(s)
    BY DEF Restart, db, ln, chain
  <1>2. PaidJobs(s)' = {}
    BY <1>1 DEF PaidJobs, Waiting
  <1>3. "fee" \in sub'[s] => status[s] = "SwapCreated" /\ s \in Prepay
    BY <1>1 DEF Resubscribe
  <1>. QED  BY <1>1, <1>2, <1>3 DEF FeeOK, FeeMayEmit

(* Every step keeps it.                                                    *)
LEMMA FeeKept ==
  ASSUME IInv, FeeInv, [Next]_vars
  PROVE  FeeInv'
  <1>. SUFFICES ASSUME NEW s \in Swaps PROVE FeeOK(s)'
    BY FeeOfAll
  <1>0. TypeOK /\ FeeOK(s)
    BY FeeOfAll DEF IInv
  <1>1. CASE Restart
    BY <1>0, <1>1, FeeKeptByRestart
  <1>2. CASE \/ OnHoldAccepted(s) \/ OnFeeAccepted(s) \/ FeeSetStatus(s) \/ FeeLookup(s)
             \/ HoldSettlesFee(s) \/ FeeSettlesFee(s)
    BY <1>0, <1>2, FeeKeptByHandlers
  <1>3. CASE ~Restart /\ ~ \/ OnHoldAccepted(s) \/ OnFeeAccepted(s) \/ FeeSetStatus(s)
                           \/ FeeLookup(s) \/ HoldSettlesFee(s) \/ FeeSettlesFee(s)
    <2>1. Touches(s) /\ (PaidJobs(s)' # {} => PaidJobs(s) # {})
      BY <1>0, <1>3, NextTouches, PaidJobsCome DEF Pays
    <2>2. UNCHANGED <<sub[s], holdHandler[s], feeHandler[s]>>
      BY <1>3, <2>1 DEF Touches
    <2>3. /\ fee'[s] = "SETTLED" <=> fee[s] = "SETTLED"
          /\ fee'[s] = "ACCEPTED" => fee[s] = "ACCEPTED" \/ s \in Prepay
      BY <1>0, <1>3, <2>1 DEF Touches, PayFee, TypeOK
    <2>4. status'[s] \in Fresh => status'[s] = status[s]
      BY <1>0, <1>3, <2>1
      DEF Touches, Fresh, TypeOK, ReverseSwapLockupConfirmed, SetLockupTransaction,
          SetTransactionFailed, SetInvoiceSettled, SetSwapExpired, SetTransactionRefunded,
          SetInvoiceExpired, SetStatus
    <2>5. s \in Prepay /\ fee'[s] # "SETTLED" => sent'[s] = 0 /\ PaidJobs(s)' = {}
      <3>. SUFFICES ASSUME s \in Prepay, fee[s] # "SETTLED"
                    PROVE  sent'[s] = 0 /\ PaidJobs(s)' = {}
        BY <2>3
      <3>1. sent[s] = 0 /\ PaidJobs(s) = {}
        BY <1>0 DEF FeeOK
      <3>2. ~(SendToAddress /\ s = Current)
        BY <3>1, Running1 DEF SendToAddress, PaidJobs
      <3>. QED  BY <2>1, <3>1, <3>2 DEF Touches
    <2>. QED  BY <1>0, <2>2, <2>3, <2>4, <2>5 DEF FeeOK, FeeMayEmit, Fresh
  <1>. QED  BY <1>1, <1>2, <1>3

-----------------------------------------------------------------------------
(* Payouts are not made up: OnceInv                                        *)

(* The payouts that wait are counted.                                      *)
LEMMA DueCounted ==
  ASSUME TypeOK, NEW s \in Swaps
  PROVE  IsFiniteSet(PayoutsDue(s)) /\ Cardinality(PayoutsDue(s)) \in Nat
  <1>1. Len(queue) \in Nat
    BY DEF TypeOK
  <1>2. IsFiniteSet(1..Len(queue))
    BY <1>1, FS_Interval
  <1>3. PayoutsDue(s) \in SUBSET (1..Len(queue))
    BY DEF PayoutsDue, Waiting
  <1>. QED  BY <1>2, <1>3, FS_Subset, FS_CardinalityType

(* What a step does to the payouts that wait: it adds one if it emits the  *)
(* event, takes one away if it sends coins, and moves the others up.       *)
LEMMA DueMoves ==
  ASSUME TypeOK, TypeOK', [Next]_vars, ~Restart, NEW s \in Swaps
  PROVE  \/ /\ Pays(s) /\ queue' # queue
            /\ Cardinality(PayoutsDue(s)') <= Cardinality(PayoutsDue(s)) + 1
         \/ Cardinality(PayoutsDue(s)') <= Cardinality(PayoutsDue(s))
  <1>. DEFINE D == PayoutsDue(s)
              E == PayoutsDue(s)'
  <1>1. IsFiniteSet(D) /\ Cardinality(D) \in Nat
    BY DueCounted
  <1>2. ASSUME E \subseteq D PROVE Cardinality(E) <= Cardinality(D)
    BY <1>1, <1>2, FS_Subset
  <1>3. CASE UNCHANGED <<queue, step>>
    <2>1. E = D
      BY <1>3 DEF PayoutsDue, Waiting
    <2>. QED  BY <1>2, <2>1
  <1>4. ASSUME NEW j \in Jobs, queue' = Append(queue, j), Emitted(j), UNCHANGED step
        PROVE  \/ Pays(s) /\ queue' # queue /\ Cardinality(E) <= Cardinality(D) + 1
               \/ Cardinality(E) <= Cardinality(D)
    <2>1. \A i \in 1..Len(queue') : \/ i \in 1..Len(queue) /\ queue'[i] = queue[i]
                                    \/ i = Len(queue) + 1 /\ queue'[i] = j
      BY <1>4 DEF TypeOK
    <2>2. CASE j.kind = "invoice.paid" /\ j.swap = s
      <3>1. E \in SUBSET (D \union {Len(queue) + 1})
        BY <1>4, <2>1 DEF PayoutsDue, Waiting
      <3>2. /\ IsFiniteSet(D \union {Len(queue) + 1})
            /\ Cardinality(D \union {Len(queue) + 1}) <= Cardinality(D) + 1
        <4>1. /\ IsFiniteSet(D \union {Len(queue) + 1})
              /\ Cardinality(D \union {Len(queue) + 1}) =
                   IF Len(queue) + 1 \in D THEN Cardinality(D) ELSE Cardinality(D) + 1
          BY <1>1, FS_AddElement
        <4>. HIDE DEF D
        <4>. QED  BY <1>1, <4>1
      <3>3. Cardinality(E) <= Cardinality(D \union {Len(queue) + 1})
        BY <3>1, <3>2, FS_Subset
      <3>4. Cardinality(E) \in Nat /\ Cardinality(D \union {Len(queue) + 1}) \in Nat
        BY <3>1, <3>2, FS_Subset, FS_CardinalityType
      <3>5. Cardinality(E) <= Cardinality(D) + 1
        BY <1>1, <3>2, <3>3, <3>4
      <3>6. queue' # queue
        BY <1>4 DEF TypeOK
      <3>. QED  BY <1>4, <2>2, <3>5, <3>6 DEF Emitted
    <2>3. CASE ~(j.kind = "invoice.paid" /\ j.swap = s)
      <3>1. E \subseteq D
        BY <1>4, <2>1, <2>3 DEF PayoutsDue, Waiting
      <3>. QED  BY <1>2, <3>1
    <2>. QED  BY <2>2, <2>3
  <1>5. CASE queue # << >> /\ Release
    <2>. DEFINE f == [i \in E |-> i + 1]
    <2>1. ASSUME NEW i \in E PROVE i \in Int /\ i + 1 \in D
      <3>1. /\ i \in 1..Len(Tail(queue)) /\ Tail(queue)[i].kind = "invoice.paid"
            /\ Tail(queue)[i].swap = s
        BY <1>5 DEF Release, PayoutsDue, Waiting
      <3>2. i + 1 \in 1..Len(queue) /\ Tail(queue)[i] = queue[i + 1]
        BY <1>5, <3>1, TailFacts DEF TypeOK
      <3>3. i \in Int /\ i >= 1
        BY <3>1
      <3>4. i + 1 \in Waiting("invoice.paid", s)
        BY <3>1, <3>2 DEF Waiting
      <3>5. i + 1 # 1
        BY <3>3
      <3>. QED  BY <3>3, <3>4, <3>5 DEF PayoutsDue
    <2>2. f \in Injection(E, D)
      BY <2>1 DEF Injection, IsInjective
    <2>. QED  BY <1>1, <2>2, FS_Injection
  <1>6. CASE UNCHANGED queue /\ step' # "start"
    <2>1. E \subseteq D
      BY <1>6 DEF PayoutsDue, Waiting
    <2>. QED  BY <1>2, <2>1
  <1>. QED  BY <1>3, <1>4, <1>5, <1>6, NextLock

(* The handler that sends the coins no longer waits to send them.          *)
LEMMA DueIsSent ==
  ASSUME IInv, SendToAddress
  PROVE  /\ Current \in Swaps /\ PayoutsDue(Current) # {}
         /\ \A s \in Swaps : s = Current =>
              Cardinality(PayoutsDue(s)') = Cardinality(PayoutsDue(s)) - 1
  <1>1. /\ Current \in Swaps /\ 1 \in Waiting("invoice.paid", Current) /\ step = "start"
        /\ UNCHANGED queue /\ step' = "broadcast"
    BY Running1 DEF SendToAddress, Goto
  <1>2. 1 \in PayoutsDue(Current)
    BY <1>1 DEF PayoutsDue
  <1>3. ASSUME NEW s \in Swaps, s = Current
        PROVE  Cardinality(PayoutsDue(s)') = Cardinality(PayoutsDue(s)) - 1
    <2>1. PayoutsDue(s)' = PayoutsDue(s) \ {1}
      BY <1>1 DEF PayoutsDue, Waiting
    <2>2. IsFiniteSet(PayoutsDue(s))
      BY DueCounted DEF IInv
    <2>. QED  BY <1>2, <1>3, <2>1, <2>2, FS_RemoveElement
  <1>. QED  BY <1>1, <1>2, <1>3

(* Nobody gains the right to emit the event, and who emits it loses it.    *)
LEMMA RightsMove ==
  ASSUME TypeOK, FeeInv, [Next]_vars, ~Restart, NEW s \in Swaps
  PROVE  /\ Rights(s) \in 0..2 /\ Rights(s)' \in 0..2
         /\ Rights(s)' <= Rights(s)
         /\ Pays(s) /\ queue' # queue => Rights(s)' + 1 <= Rights(s)
  <1>0. Touches(s) /\ FeeOK(s)
    BY NextTouches, FeeOfAll
  <1>1. /\ HoldMayEmit(s)' => HoldMayEmit(s)
        /\ FeeMayEmit(s)' => FeeMayEmit(s)
    <2>1. CASE OnHoldAccepted(s)
      BY <2>1 DEF OnHoldAccepted, HoldMayEmit, FeeMayEmit, TypeOK
    <2>2. CASE OnFeeAccepted(s) \/ FeeSetStatus(s) \/ FeeLookup(s)
      BY <2>2 DEF OnFeeAccepted, FeeSetStatus, FeeLookup, HoldMayEmit, FeeMayEmit, TypeOK
    <2>3. CASE HoldSettlesFee(s) \/ FeeSettlesFee(s)
      BY <2>3 DEF HoldSettlesFee, FeeSettlesFee, HoldMayEmit, FeeMayEmit, TypeOK
    <2>4. CASE ~ \/ OnHoldAccepted(s) \/ OnFeeAccepted(s) \/ FeeSetStatus(s) \/ FeeLookup(s)
                 \/ HoldSettlesFee(s) \/ FeeSettlesFee(s)
      BY <1>0, <2>4 DEF Touches, HoldMayEmit, FeeMayEmit
    <2>. QED  BY <2>1, <2>2, <2>3, <2>4
  <1>2. ASSUME Pays(s), queue' # queue
        PROVE  \/ HoldMayEmit(s) /\ ~HoldMayEmit(s)'
               \/ FeeMayEmit(s) /\ ~FeeMayEmit(s)'
    <2>1. CASE OnHoldAccepted(s)
      <3>1. s \notin Prepay
        BY <1>2, <2>1 DEF OnHoldAccepted
      <3>2. holdHandler[s] = "idle"
        BY <1>0, <3>1 DEF FeeOK
      <3>. QED  BY <2>1, <3>1, <3>2 DEF OnHoldAccepted, HoldMayEmit, TypeOK
    <2>2. CASE HoldSettlesFee(s)
      BY <1>0, <2>2 DEF HoldSettlesFee, HoldMayEmit, FeeOK, TypeOK
    <2>3. CASE FeeSettlesFee(s)
      BY <1>0, <2>3 DEF FeeSettlesFee, FeeMayEmit, FeeOK, TypeOK
    <2>. QED  BY <1>2, <2>1, <2>2, <2>3 DEF Pays
  <1>. QED  BY <1>1, <1>2 DEF Rights

(* So the sum never grows but in a crash.                                  *)
LEMMA PayoutsStay ==
  ASSUME IInv, TypeOK', FeeInv, [Next]_vars, ~Restart, NEW s \in Swaps
  PROVE  /\ Payouts(s) \in Nat /\ Payouts(s)' \in Nat
         /\ Payouts(s)' <= Payouts(s)
  <1>. DEFINE c == Cardinality(PayoutsDue(s))
              d == Cardinality(PayoutsDue(s)')
  <1>0. TypeOK /\ Touches(s)
    BY NextTouches DEF IInv
  <1>1. c \in Nat /\ d \in Nat
    <2>1. Cardinality(PayoutsDue(s)) \in Nat
      BY <1>0, DueCounted
    <2>2. TypeOK' => Cardinality(PayoutsDue(s)') \in Nat
      <3>1. TypeOK => Cardinality(PayoutsDue(s)) \in Nat
        BY DueCounted
      <3>2. TypeOK' => IsFiniteSet(PayoutsDue(s)')
        <4>. SUFFICES ASSUME TypeOK' PROVE IsFiniteSet(PayoutsDue(s)')
          OBVIOUS
        <4>1. IsFiniteSet(1..Len(queue'))
          BY FS_Interval DEF TypeOK
        <4>2. PayoutsDue(s)' \in SUBSET (1..Len(queue'))
          BY DEF PayoutsDue, Waiting
        <4>. QED  BY <4>1, <4>2, FS_Subset
      <3>. QED  BY <3>2, FS_CardinalityType
    <2>. QED  BY <2>1, <2>2
  <1>2. /\ Rights(s) \in 0..2 /\ Rights(s)' \in 0..2
        /\ Rights(s)' <= Rights(s)
        /\ Pays(s) /\ queue' # queue => Rights(s)' + 1 <= Rights(s)
    BY <1>0, RightsMove
  <1>3. sent[s] \in Nat /\ sent'[s] \in Nat
    BY <1>0, BoundsAssumption DEF TypeOK
  <1>4. Payouts(s) = sent[s] + c + Rights(s) /\ Payouts(s)' = sent'[s] + d + Rights(s)'
    BY DEF Payouts
  <1>5. CASE SendToAddress /\ s = Current
    <2>1. sent'[s] = sent[s] + 1
      BY <1>0, <1>5 DEF SendToAddress, TypeOK
    <2>2. d = c - 1
      BY <1>5, DueIsSent
    <2>. QED  BY <1>1, <1>2, <1>3, <1>4, <2>1, <2>2
  <1>6. CASE ~(SendToAddress /\ s = Current)
    <2>1. sent'[s] = sent[s]
      BY <1>0, <1>6 DEF Touches
    <2>2. \/ Pays(s) /\ queue' # queue /\ d <= c + 1
          \/ d <= c
      BY <1>0, DueMoves
    <2>. QED  BY <1>1, <1>2, <1>3, <1>4, <2>1, <2>2
  <1>. QED  BY <1>5, <1>6

(* Only a crash ends a life of the process.                        *)
LEMMA SameLife ==
  ASSUME [Next]_vars, ~Restart
  PROVE  UNCHANGED restarts
  BY DEF Next, Environment, PayHold, PayFee, ExpireInvoices, LndCancelsHold, LndCancelsFee,
         UserClaims, Lightning, OnHoldAccepted, OnFeeAccepted, FeeSetStatus, FeeLookup,
         HoldSettlesFee, FeeSettlesFee, Nurseries, CheckExpiredInvoices,
         ReverseSwapLockupConfirmed, CheckExpiredReverseSwaps, CheckReverseSwapClaims,
         Handler, SendToAddress, AddFilters, SetLockupTransaction, CancelAfterFailure,
         SetTransactionFailed, SettleInvoice, SetInvoiceSettled, QueryExpired,
         SetSwapExpired, RefundUtxo, SetTransactionRefunded, CancelHold, CancelFee,
         LookupExpired, CancelExpiredHold, CancelExpiredFee, SetInvoiceExpired, Faults,
         SendFails, SettleFails, LoseNews, MineBlock, MineLockup, ReadMempoolSwaps, vars, env

(* What OnceInv says of one swap.                                          *)
Bounded(s) == Payouts(s) <= 1 + restarts \/ (s \in Prepay /\ Payouts(s) <= 2)

FreshOK(s) == status[s] \in Fresh =>
  /\ sent[s] <= restarts \/ (sent[s] <= restarts + 1 /\ PayingOut(s))
  /\ hold[s] # "SETTLED" /\ Waiting("reverseSwap.claimed", s) = {}

LEMMA OnceOfAll ==
  /\ OnceInv <=> \A s \in Swaps : Bounded(s) /\ FreshOK(s)
  /\ OnceInv' <=> \A s \in Swaps : Bounded(s)' /\ FreshOK(s)'
  BY DEF OnceInv, Bounded, FreshOK

(* At first nothing waits, and every invoice may be reported once.         *)
LEMMA InitOnce == Init => OnceInv
  <1>. SUFFICES ASSUME Init, NEW s \in Swaps PROVE Bounded(s) /\ FreshOK(s)
    BY OnceOfAll
  <1>1. PayoutsDue(s) = {} /\ Waiting("reverseSwap.claimed", s) = {}
    BY DEF Init, PayoutsDue, Waiting
  <1>2. Cardinality(PayoutsDue(s)) = 0
    BY <1>1, FS_EmptySet
  <1>3. Rights(s) <= (IF s \in Prepay THEN 2 ELSE 1) /\ Rights(s) \in 0..2
    BY DEF Init, Rights, HoldMayEmit, FeeMayEmit
  <1>4. sent[s] = 0 /\ restarts = 0 /\ hold[s] = "OPEN"
    BY DEF Init
  <1>. QED  BY <1>1, <1>2, <1>3, <1>4 DEF Bounded, FreshOK, Payouts

(* A row that knows of no lockup leaves that state when coins are sent.    *)
LEMMA FreshKept ==
  ASSUME IInv, TypeOK', FeeInv, [Next]_vars, ~Restart, NEW s \in Swaps, FreshOK(s)
  PROVE  FreshOK(s)'
  <1>. SUFFICES ASSUME status'[s] \in Fresh PROVE FreshOK(s)'
    BY DEF FreshOK
  <1>0. /\ TypeOK /\ Touches(s) /\ FeeOK(s)
        /\ sent[s] \in Nat /\ restarts \in Nat /\ UNCHANGED restarts
    <2>1. TypeOK
      BY DEF IInv
    <2>2. Touches(s) /\ FeeOK(s) /\ UNCHANGED restarts
      BY <2>1, SameLife, NextTouches, FeeOfAll
    <2>3. sent[s] \in Nat /\ restarts \in Nat
      BY <2>1, BoundsAssumption DEF TypeOK
    <2>. QED  BY <2>1, <2>2, <2>3
  <1>1. CASE FeeSetStatus(s)
    <2>1. /\ feeHandler[s] = "setStatus"
          /\ UNCHANGED <<hold, sent, queue>>
      BY <1>1 DEF FeeSetStatus, ln, lock, chain
    <2>2. sent[s] = 0
      BY <1>0, <2>1 DEF FeeOK, FeeMayEmit
    <2>3. \A n \in Outs : spend[s][n] # "claim"
      BY <2>2, BoundsAssumption DEF IInv, ChainInv, Outs
    <2>4. hold[s] # "SETTLED"
      BY <2>3 DEF IInv, SettledImpliesClaimed
    <2>5. Waiting("reverseSwap.claimed", s) = {}
      BY <2>3 DEF IInv, QueueInv, JobOK, Waiting
    <2>6. Waiting("reverseSwap.claimed", s)' = {}
      BY <2>1, <2>5 DEF Waiting
    <2>. QED  BY <1>0, <2>1, <2>2, <2>4, <2>6 DEF FreshOK
  <1>2. CASE ~FeeSetStatus(s)
    <2>1. status'[s] = status[s]
      <3>1. status \in [Swaps -> Statuses]
        BY <1>0 DEF TypeOK
      <3>2. CASE ReverseSwapLockupConfirmed(s)
        BY <3>1, <3>2 DEF Fresh, ReverseSwapLockupConfirmed, SetStatus
      <3>3. CASE s = Current /\ (SetLockupTransaction \/ SetTransactionFailed \/ SetInvoiceSettled)
        BY <3>1, <3>3 DEF Fresh, SetLockupTransaction, SetTransactionFailed, SetInvoiceSettled,
                          SetStatus
      <3>4. CASE s = Current /\ (SetSwapExpired \/ SetTransactionRefunded \/ SetInvoiceExpired)
        BY <3>1, <3>4 DEF Fresh, SetSwapExpired, SetTransactionRefunded, SetInvoiceExpired, SetStatus
      <3>. QED  BY <1>0, <1>2, <3>2, <3>3, <3>4 DEF Touches
    <2>2. /\ sent[s] <= restarts \/ (sent[s] <= restarts + 1 /\ PayingOut(s))
          /\ hold[s] # "SETTLED" /\ Waiting("reverseSwap.claimed", s) = {}
      BY <2>1 DEF FreshOK
    <2>3. hold'[s] # "SETTLED"
      <3>1. ~(s = Current /\ SettleInvoice)
        BY <2>2, Running1 DEF SettleInvoice
      <3>. QED  BY <1>0, <2>2, <3>1 DEF Touches, TypeOK, PayHold, LndCancelsHold,
                    CancelAfterFailure, CancelHold, CancelExpiredHold
    <2>4. Waiting("reverseSwap.claimed", s)' = {}
      <3>1. ASSUME NEW i \in Waiting("reverseSwap.claimed", s)' PROVE FALSE
        <4>1. /\ i \in 1..Len(queue') /\ queue'[i].kind = "reverseSwap.claimed"
              /\ queue'[i].swap = s
          BY <3>1 DEF Waiting
        <4>2. ~Emitted(queue'[i])
          BY <2>1, <4>1 DEF Emitted, Fresh, ClaimableStatuses
        <4>3. PICK k \in 1..Len(queue) : queue'[i] = queue[k]
          BY <1>0, <4>1, <4>2, NextWaiting
        <4>. QED  BY <2>2, <4>1, <4>3 DEF Waiting
      <3>. QED  BY <3>1
    <2>5. sent'[s] <= restarts \/ (sent'[s] <= restarts + 1 /\ PayingOut(s)')
      <3>1. CASE SendToAddress /\ s = Current
        <4>1. ~PayingOut(s) /\ sent'[s] = sent[s] + 1
          BY <1>0, <3>1 DEF SendToAddress, Running, PayingOut, TypeOK
        <4>2. PayingOut(s)'
          BY <3>1 DEF SendToAddress, Running, PayingOut, Goto, Current
        <4>. QED  BY <1>0, <2>2, <4>1, <4>2
      <3>2. CASE ~(SendToAddress /\ s = Current)
        <4>1. sent'[s] = sent[s]
          BY <1>0, <3>2 DEF Touches
        <4>2. CASE ~PayingOut(s)
          BY <2>2, <4>1, <4>2
        <4>3. CASE PayingOut(s)
          <5>1. queue # << >> /\ step # "start" /\ Head(queue).kind = "invoice.paid" /\ Current = s
            BY <4>3 DEF PayingOut
          <5>2. ASSUME ~(Handler \/ SendFails \/ SettleFails) PROVE PayingOut(s)'
            BY <1>0, <5>1, <5>2, SameRunner DEF PayingOut, Current, IInv
          <5>3. ASSUME Handler \/ SendFails \/ SettleFails PROVE PayingOut(s)'
            <6>1. ~Release
              <7>1. ASSUME SetLockupTransaction \/ SetTransactionFailed PROVE FALSE
                BY <1>0, <2>1, <5>1, <7>1
                DEF SetLockupTransaction, SetTransactionFailed, SetStatus, TypeOK, Fresh
              <7>2. ASSUME CancelAfterFailure, Release PROVE FALSE
                <8>1. CanCancel(hold[Current])
                  BY <2>2, <5>1 DEF CanCancel
                <8>2. step' = "failedCancelled"
                  BY <7>2, <8>1 DEF CancelAfterFailure, Goto
                <8>. QED  BY <7>2, <8>2 DEF Release
              <7>3. ASSUME \/ SendToAddress \/ AddFilters \/ SendFails, Release PROVE FALSE
                BY <7>3 DEF SendToAddress, AddFilters, SendFails, Goto, Release
              <7>. QED
                BY <5>1, <5>3, <7>1, <7>2, <7>3
                DEF Handler, SettleInvoice, SetInvoiceSettled, QueryExpired, SetSwapExpired,
                    RefundUtxo, SetTransactionRefunded, CancelHold, CancelFee, LookupExpired,
                    CancelExpiredHold, CancelExpiredFee, SetInvoiceExpired, SettleFails, Running
            <6>2. UNCHANGED queue /\ step' # "start"
              BY <5>3, <6>1, GotoGoesOn
            <6>. QED  BY <5>1, <6>2 DEF PayingOut, Current
          <5>. QED  BY <2>2, <4>1, <5>2, <5>3
        <4>. QED  BY <4>2, <4>3
      <3>. QED  BY <3>1, <3>2
    <2>. QED  BY <1>0, <2>3, <2>4, <2>5 DEF FreshOK
  <1>. QED  BY <1>1, <1>2

(* A crash gives rights by the status of the row.                          *)
LEMMA OnceInRestart ==
  ASSUME TypeOK, FeeInv, Restart, NEW s \in Swaps, Bounded(s), FreshOK(s)
  PROVE  Bounded(s)' /\ FreshOK(s)'
  <1>1. /\ queue' = << >> /\ restarts' = restarts + 1
        /\ UNCHANGED <<status, hold, fee, sent>>
        /\ holdHandler'[s] = "idle" /\ feeHandler'[s] = "idle" /\ sub'[s] = Resubscribe(s)
    BY DEF Restart, db, ln, chain
  <1>2. PayoutsDue(s)' = {} /\ Waiting("reverseSwap.claimed", s)' = {}
    BY <1>1 DEF PayoutsDue, Waiting
  <1>3. Cardinality(PayoutsDue(s)') = 0
    BY <1>2, FS_EmptySet
  <1>4. restarts \in Nat /\ sent[s] \in Nat
    BY BoundsAssumption DEF TypeOK
  <1>5. Payouts(s)' = sent[s] + Rights(s)'
    <2>1. Rights(s)' \in Nat
      BY DEF Rights
    <2>. QED  BY <1>1, <1>3, <1>4, <2>1 DEF Payouts
  <1>6. FreshOK(s)'
    BY <1>1, <1>2, <1>4 DEF FreshOK
  <1>7. CASE status[s] \notin Fresh
    <2>1. Rights(s)' = 0
      BY <1>1, <1>7 DEF Rights, HoldMayEmit, FeeMayEmit, Resubscribe, Fresh
    <2>2. Cardinality(PayoutsDue(s)) \in Nat /\ Rights(s) \in Nat
      BY DueCounted DEF Rights
    <2>3. Payouts(s)' <= Payouts(s) /\ Payouts(s) \in Nat
      BY <1>4, <1>5, <2>1, <2>2 DEF Payouts
    <2>4. Payouts(s)' \in Nat
      BY <1>4, <1>5, <2>1
    <2>. QED  BY <1>1, <1>4, <1>6, <2>3, <2>4 DEF Bounded
  <1>8. CASE status[s] \in Fresh /\ ~(status[s] = "SwapCreated" /\ s \in Prepay)
    <2>1. Rights(s)' = 1
      BY <1>1, <1>8 DEF Rights, HoldMayEmit, FeeMayEmit, Resubscribe, Fresh
    <2>2. sent[s] <= restarts + 1
      BY <1>4, <1>8 DEF FreshOK
    <2>. QED  BY <1>1, <1>4, <1>5, <1>6, <2>1, <2>2 DEF Bounded
  <1>9. CASE status[s] = "SwapCreated" /\ s \in Prepay
    <2>1. Rights(s)' \in 0..2
      BY DEF Rights
    <2>2. sent[s] = 0
      BY <1>9 DEF FeeInv
    <2>. QED  BY <1>1, <1>4, <1>5, <1>6, <1>9, <2>1, <2>2 DEF Bounded
  <1>. QED  BY <1>7, <1>8, <1>9

(* Every step keeps the sum within its bound.                              *)
LEMMA OnceKept ==
  ASSUME IInv, TypeOK', FeeInv, OnceInv, [Next]_vars
  PROVE  OnceInv'
  <1>. SUFFICES ASSUME NEW s \in Swaps PROVE Bounded(s)' /\ FreshOK(s)'
    BY OnceOfAll
  <1>0. TypeOK /\ Bounded(s) /\ FreshOK(s)
    BY OnceOfAll DEF IInv
  <1>1. CASE Restart
    BY <1>0, <1>1, OnceInRestart
  <1>2. CASE ~Restart
    <2>1. Payouts(s) \in Nat /\ Payouts(s)' \in Nat /\ Payouts(s)' <= Payouts(s)
      BY <1>2, PayoutsStay
    <2>2. restarts \in Nat /\ restarts' \in Nat /\ restarts <= restarts'
      BY <1>0, <1>2, SameLife, BoundsAssumption DEF TypeOK
    <2>3. Bounded(s)'
      BY <1>0, <2>1, <2>2 DEF Bounded
    <2>. QED  BY <1>0, <1>2, <2>3, FreshKept
  <1>. QED  BY <1>1, <1>2

(* Payouts are bounded by what FeeInv and OnceInv say, in every state.     *)
THEOREM OnceInductive == Spec => [](FeeInv /\ OnceInv)
  <1>1. Init => FeeInv /\ OnceInv
    BY InitFee, InitOnce
  <1>2. IInv /\ IInv' /\ FeeInv /\ OnceInv /\ [Next]_vars => (FeeInv /\ OnceInv)'
    BY FeeKept, OnceKept DEF IInv
  <1>. QED  BY <1>1, <1>2, Inductive, PTL DEF Spec

(* The coins of a swap are sent once per life of the process, or twice if  *)
(* it has a miner fee invoice, whatever the order of events and failures.  *)
THEOREM SendsAreBounded == Spec => []PayoutsBounded
  <1>1. TypeOK /\ OnceInv => PayoutsBounded
    <2>. SUFFICES ASSUME TypeOK, OnceInv, NEW s \in Swaps
                  PROVE  sent[s] <= 1 + restarts \/ (s \in Prepay /\ sent[s] <= 2)
      BY DEF PayoutsBounded
    <2>1. sent[s] \in Nat /\ restarts \in Nat /\ Cardinality(PayoutsDue(s)) \in Nat /\ Rights(s) \in Nat
      BY BoundsAssumption, DueCounted DEF TypeOK, Rights
    <2>2. sent[s] <= Payouts(s) /\ Payouts(s) \in Nat
      BY <2>1 DEF Payouts
    <2>3. Bounded(s)
      BY OnceOfAll
    <2>. QED  BY <2>1, <2>2, <2>3 DEF Bounded
  <1>. QED  BY <1>1, TypeCorrect, OnceInductive, PTL

-----------------------------------------------------------------------------
(***************************************************************************)
(* Calm: no block overtook the backend, which did not crash, and whose     *)
(* sending did not fail half-way.                                          *)
(***************************************************************************)
(* What was calm before is calm after such a step, and no other.           *)
LEMMA NextCalm ==
  ASSUME TypeOK, [Next]_vars, calm'
  PROVE  calm /\ ~Restart /\ ~SendFails /\ (MineBlock => InTime)
  <1>. calm \in BOOLEAN
    BY DEF TypeOK
  <1>1. ~Restart /\ ~SendFails
    BY DEF Restart, SendFails
  <1>2. ASSUME MineBlock PROVE calm
    BY <1>2, Zenon DEF MineBlock
  <1>3. ASSUME NEW s \in Swaps, NEW n \in Outs, MineLockup(s, n) PROVE calm
    BY <1>3, Zenon DEF MineLockup
  <1>4. ASSUME UNCHANGED calm PROVE calm
    BY <1>4, Zenon
  <1>5. \/ UNCHANGED calm \/ MineBlock \/ Restart \/ SendFails
        \/ \E s \in Swaps, n \in Outs : MineLockup(s, n)
    BY DEF Next, Environment, PayHold, PayFee, ExpireInvoices, LndCancelsHold, LndCancelsFee,
         UserClaims, Lightning, OnHoldAccepted, OnFeeAccepted, FeeSetStatus, FeeLookup,
         HoldSettlesFee, FeeSettlesFee, Nurseries, CheckExpiredInvoices,
         ReverseSwapLockupConfirmed, CheckExpiredReverseSwaps, CheckReverseSwapClaims,
         Handler, SendToAddress, AddFilters, SetLockupTransaction, CancelAfterFailure,
         SetTransactionFailed, SettleInvoice, SetInvoiceSettled, QueryExpired,
         SetSwapExpired, RefundUtxo, SetTransactionRefunded, CancelHold, CancelFee,
         LookupExpired, CancelExpiredHold, CancelExpiredFee, SetInvoiceExpired, Faults,
         SettleFails, LoseNews, ReadMempoolSwaps, vars, env
  <1>6. calm
    BY <1>1, <1>2, <1>3, <1>4, <1>5
  <1>7. MineBlock => InTime
    BY Zenon DEF MineBlock
  <1>. QED  BY <1>1, <1>6, <1>7

(* Coins are sent while their payment is held                              *)

(* In the first life of the process, sending has not failed.               *)
CalmOK == restarts = 0 /\ step \notin {"sendFailed", "failedCancelled"}

(* Once the timeout height is reached, no payment comes, is passed on, or  *)
(* waits to be acted on.                                                   *)
LateOK(s) == Late(s) =>
  /\ invoiceExpired[s] /\ holdHandler[s] = "idle" /\ feeHandler[s] = "idle"
  /\ ~(hold[s] = "ACCEPTED" /\ "hold" \in sub[s])
  /\ ~(fee[s] = "ACCEPTED" /\ "fee" \in sub[s])
  /\ PaidJobs(s) = {}

(* The coins are about to be sent, or a handler may have that done.        *)
Due(s) ==
  PayoutsDue(s) # {} \/ holdHandler[s] = "settleFee" \/ feeHandler[s] = "settleFee"

HeldOK(s) == Due(s) /\ sent[s] = 0 => hold[s] = "ACCEPTED"

PayInv == calm => CalmOK /\ \A s \in Swaps : LateOK(s) /\ HeldOK(s)

(* Sending is what fails in a calm life no more than crashes happen.       *)
LEMMA NextCalmOK ==
  ASSUME TypeOK, [Next]_vars, CalmOK, ~Restart, ~SendFails
  PROVE  CalmOK'
  <1>1. UNCHANGED restarts
    BY SameLife
  <1>2. CASE ~(Handler \/ SendFails \/ SettleFails)
    BY <1>1, <1>2, NextLock DEF CalmOK
  <1>3. CASE Handler \/ SettleFails
    BY <1>1, <1>3
    DEF CalmOK, Handler, SendToAddress, AddFilters, SetLockupTransaction, CancelAfterFailure,
        SetTransactionFailed, SettleInvoice, SetInvoiceSettled, QueryExpired, SetSwapExpired,
        RefundUtxo, SetTransactionRefunded, CancelHold, CancelFee, LookupExpired,
        CancelExpiredHold, CancelExpiredFee, SetInvoiceExpired, SettleFails, Goto, Release,
        Running
  <1>. QED  BY <1>2, <1>3

(* Blocks wait for all that LateOK excludes, and invoices expire first.    *)
LEMMA NextLate ==
  ASSUME TypeOK, [Next]_vars, calm', NEW s \in Swaps, LateOK(s)
  PROVE  LateOK(s)'
  <1>0. ~Restart /\ Touches(s) /\ (MineBlock => InTime)
    BY NextCalm, NextTouches
  <1>1. CASE MineBlock
    <2>1. /\ height' = height + 1 /\ Quiet
          /\ height + 1 >= Timeout[s] => invoiceExpired[s]
          /\ UNCHANGED <<hold, fee, invoiceExpired, sub, holdHandler, feeHandler, queue>>
      BY <1>0, <1>1 DEF MineBlock, InTime, ln, subs, lock
    <2>2. PaidJobs(s)' = {}
      BY <2>1 DEF PaidJobs, Waiting, Quiet
    <2>. QED  BY <2>1, <2>2 DEF LateOK, Late, Quiet
  <1>2. CASE ~MineBlock
    <2>. SUFFICES ASSUME Late(s)
                  PROVE  (/\ invoiceExpired[s] /\ holdHandler[s] = "idle" /\ feeHandler[s] = "idle"
                          /\ ~(hold[s] = "ACCEPTED" /\ "hold" \in sub[s])
                          /\ ~(fee[s] = "ACCEPTED" /\ "fee" \in sub[s])
                          /\ PaidJobs(s) = {})'
      BY <1>0, <1>2 DEF Touches, LateOK, Late
    <2>1. /\ invoiceExpired[s] /\ holdHandler[s] = "idle" /\ feeHandler[s] = "idle"
          /\ ~(hold[s] = "ACCEPTED" /\ "hold" \in sub[s])
          /\ ~(fee[s] = "ACCEPTED" /\ "fee" \in sub[s])
          /\ PaidJobs(s) = {}
      BY <1>0 DEF LateOK
    <2>2. /\ ~Pays(s) /\ ~PayHold(s) /\ ~PayFee(s) /\ ~OnFeeAccepted(s)
          /\ ~FeeSetStatus(s) /\ ~FeeLookup(s)
      BY <2>1 DEF Pays, PayHold, PayFee, OnHoldAccepted, OnFeeAccepted, HoldSettlesFee,
                  FeeSettlesFee, FeeSetStatus, FeeLookup
    <2>3. UNCHANGED <<sub[s], holdHandler[s], feeHandler[s]>> /\ invoiceExpired'[s]
      BY <1>0, <2>1, <2>2 DEF Touches, Pays
    <2>4. hold'[s] = hold[s] \/ hold'[s] # "ACCEPTED"
      BY <1>0, <2>2 DEF Touches, TypeOK, LndCancelsHold, SettleInvoice, CancelAfterFailure,
                        CancelHold, CancelExpiredHold
    <2>5. fee'[s] = fee[s] \/ fee'[s] # "ACCEPTED"
      BY <1>0, <2>2 DEF Touches, Pays
    <2>6. PaidJobs(s)' = {}
      BY <1>0, <2>1, <2>2, PaidJobsCome
    <2>. QED  BY <2>1, <2>3, <2>4, <2>5, <2>6
  <1>. QED  BY <1>1, <1>2

(* Whoever settles or cancels an invoice, no first payout is due for it.   *)
LEMMA NextHeld ==
  ASSUME IInv, TypeOK', [Next]_vars, calm', CalmOK, NEW s \in Swaps, LateOK(s), HeldOK(s)
  PROVE  HeldOK(s)'
  <1>0. TypeOK /\ ~Restart /\ Touches(s)
    BY NextCalm, NextTouches DEF IInv
  <1>. SUFFICES ASSUME Due(s)', sent'[s] = 0 PROVE hold'[s] = "ACCEPTED"
    BY DEF HeldOK
  <1>1. sent[s] = 0
    <2>1. sent[s] <= sent'[s] /\ sent[s] \in Nat
      <3>1. CASE SendToAddress /\ s = Current
        BY <1>0, <3>1, BoundsAssumption DEF SendToAddress, TypeOK
      <3>2. CASE sent'[s] = sent[s]
        BY <1>0, <3>2, BoundsAssumption DEF TypeOK
      <3>. QED  BY <1>0, <3>1, <3>2 DEF Touches
    <2>. QED  BY <2>1
  <1>2. CASE OnHoldAccepted(s)
    BY <1>2 DEF OnHoldAccepted, ln
  <1>3. CASE HoldSettlesFee(s) \/ FeeSettlesFee(s)
    BY <1>1, <1>3 DEF HoldSettlesFee, FeeSettlesFee, HeldOK, Due
  <1>4. CASE FeeLookup(s)
    <2>1. /\ UNCHANGED <<hold, holdHandler>> /\ PayoutsDue(s)' = PayoutsDue(s)
          /\ feeHandler'[s] = "settleFee" => hold[s] = "ACCEPTED"
      BY <1>0, <1>4 DEF FeeLookup, PayoutsDue, Waiting, TypeOK, lock, ln
    <2>. QED  BY <1>1, <2>1 DEF HeldOK, Due
  <1>5. CASE ~Pays(s) /\ ~FeeLookup(s)
    <2>1. PayoutsDue(s)' # {} => PayoutsDue(s) # {}
      BY <1>0, <1>5, PaidJobsCome
    <2>2. holdHandler'[s] = holdHandler[s]
      BY <1>0, <1>5 DEF Touches, Pays
    <2>3. feeHandler'[s] = "settleFee" => feeHandler[s] = "settleFee"
      BY <1>0, <1>5 DEF Touches, Pays, OnFeeAccepted, FeeSetStatus, TypeOK
    <2>4. Due(s) /\ hold[s] = "ACCEPTED"
      BY <1>1, <2>1, <2>2, <2>3 DEF Due, HeldOK
    <2>5. ~PayHold(s) /\ ~LndCancelsHold(s)
      BY <2>4 DEF PayHold, LndCancelsHold
    <2>6. ~(s = Current /\ SettleInvoice)
      <3>1. ASSUME s = Current, SettleInvoice PROVE FALSE
        <4>1. Head(queue).out \in Outs /\ spend[s][Head(queue).out] = "claim"
          BY <3>1, Running1 DEF SettleInvoice, JobOK, Current
        <4>. QED  BY <1>1, <4>1, BoundsAssumption DEF IInv, ChainInv, Outs
      <3>. QED  BY <3>1
    <2>7. ~CancelAfterFailure
      BY DEF CancelAfterFailure, Running, CalmOK
    <2>8. ~(s = Current /\ CancelHold)
      <3>1. ASSUME s = Current, CancelHold PROVE FALSE
        <4>1. Late(s)
          BY <3>1, Running1 DEF CancelHold, JobOK, Current, Late
        <4>. QED  BY <2>4, <4>1 DEF Due, LateOK, PayoutsDue, PaidJobs
      <3>. QED  BY <3>1
    <2>9. ~(s = Current /\ CancelExpiredHold)
      BY <2>4 DEF CancelExpiredHold, Running, IInv, StepInv
    <2>. QED  BY <1>0, <2>4, <2>5, <2>6, <2>7, <2>8, <2>9 DEF Touches
  <1>. QED  BY <1>2, <1>3, <1>4, <1>5 DEF Pays

(* While blocks wait for the backend, nothing gets ahead of a payment that *)
(* is to be acted on.                                                      *)
LEMMA PayInductive == Spec => []PayInv
  <1>1. Init => PayInv
    <2>. SUFFICES ASSUME Init PROVE CalmOK /\ \A s \in Swaps : LateOK(s) /\ HeldOK(s)
      BY DEF PayInv
    <2>. SUFFICES ASSUME NEW s \in Swaps PROVE LateOK(s) /\ HeldOK(s)
      BY DEF CalmOK, Init
    <2>1. ~Late(s)
      BY BoundsAssumption DEF Init, Late
    <2>2. ~Due(s)
      BY DEF Init, Due, PayoutsDue, Waiting
    <2>. QED  BY <2>1, <2>2 DEF LateOK, HeldOK
  <1>2. ASSUME IInv, TypeOK', PayInv, [Next]_vars, calm'
        PROVE  CalmOK' /\ \A s \in Swaps : LateOK(s)' /\ HeldOK(s)'
    <2>1. TypeOK /\ calm /\ ~Restart /\ ~SendFails
      BY <1>2, NextCalm DEF IInv
    <2>2. CalmOK /\ \A s \in Swaps : LateOK(s) /\ HeldOK(s)
      BY <1>2, <2>1 DEF PayInv
    <2>. QED  BY <1>2, <2>1, <2>2, NextCalmOK, NextLate, NextHeld
  <1>3. IInv /\ IInv' /\ PayInv /\ [Next]_vars => PayInv'
    BY <1>2 DEF PayInv, IInv
  <1>. QED  BY <1>1, <1>3, Inductive, PTL DEF Spec

(* A swap that was paid out and is about to be again has a miner fee.      *)
LEMMA SecondPayout ==
  ASSUME TypeOK, OnceInv, restarts = 0, NEW s \in Swaps, PayoutsDue(s) # {}, sent[s] > 0
  PROVE  s \in Prepay
  <1>1. IsFiniteSet(PayoutsDue(s)) /\ Cardinality(PayoutsDue(s)) \in Nat
    BY DueCounted
  <1>2. Cardinality(PayoutsDue(s)) # 0
    BY <1>1, FS_EmptySet
  <1>3. sent[s] \in Nat /\ Rights(s) \in Nat
    BY BoundsAssumption DEF TypeOK, Rights
  <1>4. Payouts(s) > 1
    BY <1>1, <1>2, <1>3 DEF Payouts
  <1>5. Payouts(s) \in Nat
    BY <1>1, <1>3 DEF Payouts
  <1>. QED  BY <1>4, <1>5, OnceOfAll DEF Bounded

(* In a calm life coins are sent only while the backend holds the payment  *)
(* for them, but for the second payout of a swap with a miner fee.         *)
THEOREM SendsWhileHeld == Spec => SentWhileHeld
  <1>1. ASSUME IInv, OnceInv, PayInv, [Next]_vars, NEW s \in Swaps, calm, sent'[s] # sent[s]
        PROVE  hold[s] = "ACCEPTED" \/ (s \in Prepay /\ sent[s] > 0)
    <2>1. TypeOK /\ CalmOK /\ HeldOK(s) /\ ~Restart
      <3>1. ~Restart
        BY <1>1 DEF Restart, chain
      <3>. QED  BY <1>1, <3>1 DEF PayInv, IInv
    <2>2. SendToAddress /\ s = Current
      BY <1>1, <2>1, NextTouches DEF Touches
    <2>3. PayoutsDue(s) # {}
      BY <1>1, <2>2, DueIsSent
    <2>4. sent[s] \in Nat
      BY <2>1, BoundsAssumption DEF TypeOK
    <2>5. CASE sent[s] = 0
      BY <2>1, <2>3, <2>5 DEF HeldOK, Due
    <2>6. CASE sent[s] > 0
      BY <1>1, <2>1, <2>3, <2>6, SecondPayout DEF CalmOK
    <2>. QED  BY <2>4, <2>5, <2>6
  <1>2. IInv /\ OnceInv /\ PayInv /\ [Next]_vars =>
          [\A s \in Swaps : calm /\ sent'[s] # sent[s]
             => hold[s] = "ACCEPTED" \/ (s \in Prepay /\ sent[s] > 0)]_vars
    BY <1>1
  <1>. QED  BY <1>2, Inductive, OnceInductive, PayInductive, PTL DEF Spec, SentWhileHeld

-----------------------------------------------------------------------------
(* What becomes of a swap that is paid out once                            *)

Refunded(s) == \E n \in Outs : spend[s][n] = "refund"

Sending(s) ==
  /\ queue # << >> /\ Head(queue).kind = "invoice.paid" /\ Current = s
  /\ step \in {"broadcast", "watching"}

EarlyOK(s) == early[s] => \E n \in Outs : spend[s][n] = "claim"

(* The payment for coins that were sent is held or taken, unless the coins *)
(* came back.                                                              *)
KeptOK(s) == sent[s] = 1 => hold[s] \in {"ACCEPTED", "SETTLED"} \/ Refunded(s)

(* The row knows of the coins, as soon as the handler that sends them is   *)
(* done, and says so until they are spent.                                 *)
TrackedOK(s) ==
  sent[s] = 1 =>
    \/ Sending(s)
    \/ /\ txOut[s] = 1
       /\ spend[s][1] = "none" => status[s] \in {"TransactionMempool", "TransactionConfirmed"}

(* An expiry event that waits is of the row as it still is.                *)
ExpiryOK(s) ==
  \A i \in Waiting("reverseSwap.expired", s) :
    queue[i].out = txOut[s] /\ (txOut[s] # 0 => status[s] # "TransactionMempool")

(* What the running handler found out, beyond StepInv.                     *)
FoundOK ==
  /\ Running("reverseSwap.expired", "expire") /\ sent[Current] <= 1 => sent[Current] = 0
  /\ Running("reverseSwap.expired", "cancel") /\ sent[Current] <= 1
       => sent[Current] = 0 \/ Refunded(Current)
  /\ \/ Running("invoice.expired", "cancelPrepay")
     \/ Running("invoice.expired", "markExpired")
     => hold[Current] = "CANCELED"

SentInv ==
  /\ \A s \in Swaps : EarlyOK(s)
  /\ calm => FoundOK /\ \A s \in Swaps : KeptOK(s) /\ TrackedOK(s) /\ ExpiryOK(s)

(* What is spent stays spent, and what was sent stays sent.                *)
LEMMA NextSpends ==
  ASSUME TypeOK, TypeOK', [Next]_vars, NEW s \in Swaps
  PROVE  /\ Refunded(s) => Refunded(s)'
         /\ \A n \in Outs : spend[s][n] # "none" => spend'[s][n] = spend[s][n]
         /\ sent[s] <= sent'[s]
  <1>1. CASE Next
    BY <1>1, NextGrows DEF Grows, Refunded
  <1>2. CASE UNCHANGED vars
    BY <1>2 DEF vars, chain, Refunded, TypeOK
  <1>. QED  BY <1>1, <1>2

(* A swap that was paid out once has one lockup that may be spent.         *)
LEMMA OneSpent ==
  ASSUME IInv, NEW s \in Swaps, sent[s] <= 1, NEW n \in Outs, spend[s][n] # "none"
  PROVE  sent[s] = 1 /\ n = 1
  <1>1. n <= sent[s]
    BY DEF IInv, ChainInv
  <1>2. n \in Nat /\ n >= 1 /\ sent[s] \in Nat
    BY BoundsAssumption DEF IInv, TypeOK, Outs
  <1>. QED  BY <1>1, <1>2

(* The history says what happened to the chain.                            *)
LEMMA NextEarly ==
  ASSUME TypeOK, TypeOK', [Next]_vars, NEW s \in Swaps, EarlyOK(s)
  PROVE  EarlyOK(s)'
  <1>1. CASE Restart
    BY <1>1 DEF Restart, chain, EarlyOK
  <1>2. CASE ~Restart
    <2>1. ASSUME NEW n \in Outs, UserClaims(s, n) PROVE spend'[s][n] = "claim"
      BY <2>1 DEF UserClaims, TypeOK
    <2>2. early'[s] = early[s] \/ \E n \in Outs : UserClaims(s, n)
      BY <1>2, NextTouches DEF Touches
    <2>3. \A n \in Outs : spend[s][n] = "claim" => spend'[s][n] = "claim"
      BY NextSpends
    <2>. QED  BY <2>1, <2>2, <2>3 DEF EarlyOK
  <1>. QED  BY <1>1, <1>2

(* A payment is cancelled with no coins out, or with all of them back.     *)
LEMMA NextKept ==
  ASSUME IInv, TypeOK', [Next]_vars, calm', CalmOK, FoundOK,
         NEW s \in Swaps, HeldOK(s), KeptOK(s)
  PROVE  KeptOK(s)'
  <1>0. TypeOK /\ ~Restart /\ Touches(s) /\ sent[s] \in Nat
    <2>1. TypeOK
      BY DEF IInv
    <2>2. ~Restart /\ ~SendFails
      BY <2>1, NextCalm
    <2>3. Touches(s)
      BY <2>1, <2>2, NextTouches
    <2>4. sent[s] \in Nat
      BY <2>1, BoundsAssumption DEF TypeOK
    <2>. QED  BY <2>1, <2>2, <2>3, <2>4
  <1>1. Refunded(s) => Refunded(s)'
    BY <1>0, NextSpends
  <1>. SUFFICES ASSUME sent'[s] = 1, ~Refunded(s)
                PROVE  hold'[s] \in {"ACCEPTED", "SETTLED"}
    BY <1>1 DEF KeptOK
  <1>2. CASE SendToAddress /\ s = Current
    <2>1. PayoutsDue(s) # {} /\ UNCHANGED hold /\ sent[s] = 0
      BY <1>0, <1>2, DueIsSent DEF SendToAddress, TypeOK, ln
    <2>. QED  BY <2>1 DEF HeldOK, Due
  <1>3. CASE sent'[s] = sent[s]
    <2>1. hold[s] \in {"ACCEPTED", "SETTLED"} /\ sent[s] = 1
      BY <1>3 DEF KeptOK
    <2>2. CASE s = Current /\ SettleInvoice
      BY <1>0, <2>1, <2>2 DEF SettleInvoice, TypeOK
    <2>3. ~CancelAfterFailure
      BY DEF CancelAfterFailure, Running, CalmOK
    <2>4. ~(s = Current /\ CancelHold)
      BY <2>1 DEF CancelHold, FoundOK
    <2>5. ~(s = Current /\ CancelExpiredHold)
      <3>1. ASSUME s = Current, CancelExpiredHold PROVE FALSE
        <4>1. hold[s] \in {"OPEN", "CANCELED"}
          BY <3>1 DEF CancelExpiredHold, Running, IInv, StepInv
        <4>. QED  BY <2>1, <4>1
      <3>. QED  BY <3>1
    <2>6. ~PayHold(s) /\ ~LndCancelsHold(s)
      BY <2>1 DEF PayHold, LndCancelsHold
    <2>. QED  BY <1>0, <2>1, <2>2, <2>3, <2>4, <2>5, <2>6 DEF Touches
  <1>. QED  BY <1>0, <1>2, <1>3 DEF Touches

(* Whoever overwrites the row of a lockup knows that it is spent.          *)
LEMMA NextTracked ==
  ASSUME IInv, TypeOK', FeeInv, [Next]_vars, calm', CalmOK, FoundOK,
         NEW s \in Swaps, KeptOK(s), TrackedOK(s)
  PROVE  TrackedOK(s)'
  <1>0. /\ TypeOK /\ StepInv /\ ~Restart /\ ~SendFails /\ Touches(s) /\ FeeOK(s)
        /\ sent[s] \in Nat /\ 0 \in 0..MaxLockups
    <2>1. TypeOK /\ StepInv
      BY DEF IInv
    <2>2. ~Restart /\ ~SendFails
      BY <2>1, NextCalm
    <2>3. Touches(s) /\ FeeOK(s)
      BY <2>1, <2>2, NextTouches, FeeOfAll
    <2>4. sent[s] \in Nat /\ 0 \in 0..MaxLockups
      BY <2>1, BoundsAssumption DEF TypeOK
    <2>. QED  BY <2>1, <2>2, <2>3, <2>4
  <1>. SUFFICES ASSUME sent'[s] = 1 PROVE TrackedOK(s)'
    BY DEF TrackedOK
  <1>1. CASE SendToAddress /\ s = Current
    BY <1>1 DEF SendToAddress, Running, Goto, Current, TrackedOK, Sending
  <1>2. CASE SetLockupTransaction /\ s = Current
    <2>1. UNCHANGED sent /\ txOut'[s] = sent[s] /\ status'[s] = "TransactionMempool"
      BY <1>0, <1>2 DEF SetLockupTransaction, SetStatus, TypeOK, chain
    <2>. QED  BY <2>1 DEF TrackedOK
  <1>3. CASE sent'[s] = sent[s] /\ ~(SetLockupTransaction /\ s = Current)
    <2>1. CASE Sending(s)
      <3>1. CASE AddFilters
        BY <2>1, <3>1 DEF AddFilters, Goto, TrackedOK, Sending, Current
      <3>2. CASE Handler \/ SendFails \/ SettleFails
        BY <1>0, <1>3, <2>1, <3>1, <3>2
        DEF Sending, Handler, SendToAddress, SetLockupTransaction,
            CancelAfterFailure, SetTransactionFailed, SettleInvoice, SetInvoiceSettled,
            QueryExpired, SetSwapExpired, RefundUtxo, SetTransactionRefunded, CancelHold,
            CancelFee, LookupExpired, CancelExpiredHold, CancelExpiredFee, SetInvoiceExpired,
            SettleFails, Running
      <3>3. CASE ~(Handler \/ SendFails \/ SettleFails)
        BY <1>0, <2>1, <3>3, SameRunner DEF TrackedOK, Sending, Current
      <3>. QED  BY <3>1, <3>2, <3>3
    <2>2. CASE ~Sending(s)
      <3>1. txOut'[s] = 1 /\ 1 \in Outs /\ sent[s] = 1
        BY <1>0, <1>3, <2>2, BoundsAssumption DEF TrackedOK, Touches, TypeOK, Outs
      <3>2. SUFFICES ASSUME spend'[s][1] = "none"
                     PROVE  status'[s] \in {"TransactionMempool", "TransactionConfirmed"}
        BY <3>1 DEF TrackedOK
      <3>3. spend[s][1] = "none"
        BY <1>0, <3>1, <3>2, NextSpends
      <3>4. status[s] \in {"TransactionMempool", "TransactionConfirmed"}
        BY <2>2, <3>1, <3>3 DEF TrackedOK
      <3>5. \A m \in Outs : spend[s][m] = "none"
        BY <3>1, <3>3, OneSpent
      <3>6. ~FeeSetStatus(s)
        BY <1>0, <3>1 DEF FeeSetStatus, FeeOK, FeeMayEmit
      <3>7. CASE ReverseSwapLockupConfirmed(s)
        BY <1>0, <3>4, <3>7 DEF ReverseSwapLockupConfirmed, SetStatus, TypeOK
      <3>8. ~SetTransactionFailed
        BY DEF SetTransactionFailed, Running, CalmOK
      <3>9. ~(s = Current /\ SetInvoiceSettled)
        <4>1. ASSUME s = Current, SetInvoiceSettled
              PROVE  Head(queue).out \in Outs /\ spend[s][Head(queue).out] = "claim"
          BY <4>1, Running1 DEF SetInvoiceSettled, JobOK, Current
        <4>. QED  BY <3>5, <4>1
      <3>10. ~(s = Current /\ SetSwapExpired)
        BY <3>1 DEF SetSwapExpired, FoundOK
      <3>11. ~(s = Current /\ SetTransactionRefunded)
        BY <1>0, <3>5 DEF SetTransactionRefunded, Running, StepInv
      <3>12. ~(s = Current /\ SetInvoiceExpired)
        BY <3>1, <3>5 DEF SetInvoiceExpired, FoundOK, KeptOK, Refunded
      <3>13. status'[s] = status[s] \/ ReverseSwapLockupConfirmed(s)
        BY <1>0, <1>3, <3>6, <3>8, <3>9, <3>10, <3>11, <3>12 DEF Touches
      <3>. QED  BY <3>4, <3>7, <3>13
    <2>. QED  BY <2>1, <2>2
  <1>. QED  BY <1>0, <1>1, <1>2, <1>3 DEF Touches

(* The row's lockup is written before the swap can expire.                 *)
LEMMA NextExpiry ==
  ASSUME IInv, [Next]_vars, calm', NEW s \in Swaps, LateOK(s), ExpiryOK(s)
  PROVE  ExpiryOK(s)'
  <1>0. TypeOK /\ ~Restart /\ Touches(s)
    BY NextCalm, NextTouches DEF IInv
  <1>1. ASSUME NEW i \in Waiting("reverseSwap.expired", s)'
        PROVE  \/ CheckExpiredReverseSwaps(s) /\ queue'[i].out = txOut[s]
               \/ \E k \in Waiting("reverseSwap.expired", s) : queue'[i] = queue[k]
    BY <1>0, <1>1, NextWaiting DEF Waiting, Emitted
  <1>2. CASE SetLockupTransaction /\ s = Current
    <2>1. 1 \in PaidJobs(s)
      BY <1>2, Running1 DEF SetLockupTransaction, PaidJobs
    <2>2. ~Late(s)
      BY <1>0, <2>1 DEF LateOK
    <2>3. ~CheckExpiredReverseSwaps(s)
      BY <2>2 DEF CheckExpiredReverseSwaps, Expirable, Late
    <2>4. \A k \in Waiting("reverseSwap.expired", s) : Late(s)
      BY DEF IInv, QueueInv, JobOK, Waiting, Late
    <2>. QED  BY <1>1, <2>2, <2>3, <2>4 DEF ExpiryOK
  <1>3. CASE ~(SetLockupTransaction /\ s = Current)
    <2>1. txOut'[s] = txOut[s]
      BY <1>0, <1>3 DEF Touches
    <2>2. status'[s] = "TransactionMempool" => status[s] = "TransactionMempool"
      BY <1>0, <1>3
      DEF Touches, TypeOK, FeeSetStatus, ReverseSwapLockupConfirmed, SetTransactionFailed,
          SetInvoiceSettled, SetSwapExpired, SetTransactionRefunded, SetInvoiceExpired, SetStatus
    <2>3. CheckExpiredReverseSwaps(s) => status[s] # "TransactionMempool"
      BY DEF CheckExpiredReverseSwaps, Expirable
    <2>. QED  BY <1>0, <1>1, <2>1, <2>2, <2>3 DEF ExpiryOK
  <1>. QED  BY <1>2, <1>3

(* What a handler found out holds until it acts upon it.                   *)
LEMMA NextFound ==
  ASSUME IInv, TypeOK', [Next]_vars, calm', CalmOK, FoundOK,
         \A s \in Swaps : TrackedOK(s) /\ ExpiryOK(s)
  PROVE  FoundOK'
  <1>0. TypeOK /\ ~Restart /\ ~SendFails /\ StepInv
    BY NextCalm DEF IInv
  <1>1. CASE ~(Handler \/ SendFails \/ SettleFails)
    <2>1. UNCHANGED step
      BY <1>0, <1>1, SameRunner
    <2>2. ASSUME step # "start"
          PROVE  /\ queue # << >> /\ queue' # << >> /\ Head(queue') = Head(queue)
                 /\ Current \in Swaps /\ Current' = Current
      BY <1>0, <1>1, <2>2, SameRunner, LockType DEF Current
    <2>3. ASSUME NEW s \in Swaps
          PROVE  /\ Refunded(s) => Refunded(s)'
                 /\ sent'[s] = sent[s]
                 /\ hold[s] = "CANCELED" => hold'[s] = "CANCELED"
      BY <1>0, <1>1, NextSpends, NextTouches DEF Touches, PayHold, LndCancelsHold, Handler
    <2>. QED  BY <1>0, <2>1, <2>2, <2>3 DEF FoundOK, Running
  <1>2. CASE step' = "start"
    BY <1>2 DEF FoundOK, Running
  <1>3. CASE QueryExpired
    <2>1. Running("reverseSwap.expired", "start")
      BY <1>3 DEF QueryExpired
    <2>2. /\ Current \in Swaps /\ 1 \in Waiting("reverseSwap.expired", Current)
          /\ Head(queue) = queue[1] /\ Head(queue).kind = "reverseSwap.expired"
      BY <2>1, Running1
    <2>3. CASE step' = "expire" /\ UNCHANGED <<queue, sent>>
      <3>1. ~RefundDue(Current, Head(queue).out)
        BY <1>3, <2>3 DEF QueryExpired, Goto, Release
      <3>2. txOut[Current] = 0 /\ TrackedOK(Current)
        BY <2>2, <3>1 DEF SentInv, ExpiryOK, RefundDue
      <3>3. ~Sending(Current)
        BY <2>2 DEF Sending
      <3>4. sent[Current] # 1
        BY <3>2, <3>3 DEF TrackedOK
      <3>5. sent[Current] \in Nat
        BY <1>0, <2>2, BoundsAssumption DEF TypeOK
      <3>6. sent[Current] <= 1 => sent[Current] = 0
        BY ONLY <3>4, <3>5, SMTT(30)
      <3>. QED  BY <2>2, <2>3, <3>6 DEF FoundOK, Running, Current
    <2>4. CASE step' = "refund"
      BY <2>4 DEF FoundOK, Running
    <2>. QED  BY <1>2, <1>3, <2>3, <2>4 DEF QueryExpired, Goto, Release, chain
  <1>4. CASE SetSwapExpired
    BY <1>0, <1>4 DEF SetSwapExpired, FoundOK, Running, Goto, Current, chain
  <1>5. CASE SetTransactionRefunded
    <2>1. Refunded(Current)
      BY <1>0, <1>5 DEF SetTransactionRefunded, Running, StepInv, Refunded
    <2>. QED  BY <1>5, <2>1 DEF SetTransactionRefunded, FoundOK, Running, Goto, Current, Refunded, chain
  <1>6. CASE LookupExpired
    BY <1>2, <1>6 DEF LookupExpired, FoundOK, Running, Goto, Release, Current, ln
  <1>7. CASE CancelExpiredHold
    <2>1. Current \in Swaps
      BY <1>7, Running1 DEF CancelExpiredHold
    <2>. QED  BY <1>0, <1>7, <2>1 DEF CancelExpiredHold, FoundOK, Running, Goto, Current, TypeOK
  <1>8. CASE CancelExpiredFee
    BY <1>0, <1>2, <1>8 DEF CancelExpiredFee, FoundOK, Running, Goto, Release, Current
  <1>9. CASE \/ SendToAddress \/ AddFilters \/ SetLockupTransaction \/ SetTransactionFailed
             \/ SettleInvoice \/ SetInvoiceSettled \/ RefundUtxo \/ CancelHold \/ CancelFee
             \/ SetInvoiceExpired \/ SettleFails
    BY <1>2, <1>9
    DEF SendToAddress, AddFilters, SetLockupTransaction, SetTransactionFailed, SettleInvoice,
        SetInvoiceSettled, RefundUtxo, CancelHold, CancelFee, SetInvoiceExpired, SettleFails,
        Goto, Release, FoundOK, Running
  <1>10. CASE CancelAfterFailure \/ SendFails
    BY <1>0, <1>10 DEF CancelAfterFailure, Running, CalmOK
  <1>. QED  BY <1>1, <1>3, <1>4, <1>5, <1>6, <1>7, <1>8, <1>9, <1>10 DEF Handler

(* In a calm life, the coins of a swap that was paid out once are where    *)
(* the row says, and their payment is kept.                                *)
THEOREM SentInductive == Spec => []SentInv
  <1>1. Init => SentInv
    BY DEF Init, SentInv, EarlyOK, FoundOK, Running, KeptOK, TrackedOK, ExpiryOK, Waiting
  <1>2. ASSUME IInv, TypeOK', FeeInv, PayInv, SentInv, [Next]_vars
        PROVE  SentInv'
    <2>1. ASSUME NEW s \in Swaps PROVE EarlyOK(s)'
      BY <1>2, NextEarly DEF SentInv, IInv
    <2>2. ASSUME calm' PROVE FoundOK' /\ \A s \in Swaps : KeptOK(s)' /\ TrackedOK(s)' /\ ExpiryOK(s)'
      <3>1. calm
        BY <1>2, <2>2, NextCalm DEF IInv
      <3>2. /\ CalmOK /\ FoundOK
            /\ \A s \in Swaps : LateOK(s) /\ HeldOK(s) /\ KeptOK(s) /\ TrackedOK(s) /\ ExpiryOK(s)
        BY <1>2, <3>1 DEF PayInv, SentInv
      <3>3. FoundOK'
        BY <1>2, <2>2, <3>2, NextFound
      <3>4. ASSUME NEW s \in Swaps PROVE KeptOK(s)' /\ TrackedOK(s)' /\ ExpiryOK(s)'
        BY <1>2, <2>2, <3>2, NextKept, NextTracked, NextExpiry
      <3>. QED  BY <3>3, <3>4
    <2>. QED  BY <2>1, <2>2 DEF SentInv
  <1>3. IInv /\ IInv' /\ FeeInv /\ PayInv /\ SentInv /\ [Next]_vars => SentInv'
    BY <1>2 DEF IInv
  <1>. QED  BY <1>1, <1>3, Inductive, OnceInductive, PayInductive, PTL DEF Spec

(* The row of a lockup that was not spent can be found by the nurseries.   *)
THEOREM LockupsAreTracked == Spec => []CoinsTracked
  <1>1. SentInv => CoinsTracked
    BY DEF SentInv, CoinsTracked, CoinsOnRecord, TrackedOK, Sending
  <1>. QED  BY <1>1, SentInductive, PTL

(* A user who was paid out once and claimed before the timeout does not    *)
(* get the payment back.                                                   *)
THEOREM EarlyClaimsAreKept == Spec => []EarlyClaimNotCancelled
  <1>1. IInv /\ SentInv => EarlyClaimNotCancelled
    <2>. SUFFICES ASSUME IInv, SentInv, NEW s \in Swaps, calm, early[s], sent[s] <= 1,
                         hold[s] = "CANCELED"
                  PROVE  FALSE
      BY DEF EarlyClaimNotCancelled
    <2>1. PICK n \in Outs : spend[s][n] = "claim"
      BY DEF SentInv, EarlyOK
    <2>2. sent[s] = 1 /\ n = 1
      BY <2>1, OneSpent
    <2>3. PICK m \in Outs : spend[s][m] = "refund"
      BY <2>2 DEF SentInv, KeptOK, Refunded
    <2>4. m = 1
      BY <2>3, OneSpent
    <2>. QED  BY <2>1, <2>2, <2>3, <2>4
  <1>. QED  BY <1>1, SentInductive, Inductive, PTL

=============================================================================
