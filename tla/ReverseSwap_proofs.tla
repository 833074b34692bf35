------------------------- MODULE ReverseSwap_proofs -------------------------
(***************************************************************************)
(* Theorems of ReverseSwap for every set of swaps, timeout heights and     *)
(* bounds.                                                                 *)
(***************************************************************************)
EXTENDS ReverseSwap, Integers, TLAPS

-----------------------------------------------------------------------------
(* Facts about the queue *)

(* Appending an event keeps the events that wait, and the running one.     *)
LEMMA AppendFacts ==
  ASSUME NEW q \in Seq(Jobs), NEW j \in Jobs
  PROVE  /\ Append(q, j) \in Seq(Jobs)
         /\ \A i \in 1..Len(Append(q, j)) :
              Append(q, j)[i] = j \/ (i \in 1..Len(q) /\ Append(q, j)[i] = q[i])
         /\ Append(q, j) # << >>
         /\ q # << >> => Head(Append(q, j)) = Head(q)
  OBVIOUS

(* Removing the running event leaves those that wait.                      *)
LEMMA TailFacts ==
  ASSUME NEW q \in Seq(Jobs), q # << >>
  PROVE  /\ Tail(q) \in Seq(Jobs)
         /\ \A i \in 1..Len(Tail(q)) : i + 1 \in 1..Len(q) /\ Tail(q)[i] = q[i + 1]
  OBVIOUS

(* The running event is one of the queue.                                  *)
LEMMA HeadFacts ==
  ASSUME NEW q \in Seq(Jobs), q # << >>
  PROVE  1 \in 1..Len(q) /\ Head(q) = q[1] /\ Head(q) \in Jobs
  OBVIOUS

-----------------------------------------------------------------------------
(* Types *)

(* The initial state is well typed.                                        *)
LEMMA InitType == Init => TypeOK
  BY BoundsAssumption DEF Init, TypeOK, Statuses, InvoiceStates, Steps, Outs, Jobs

(* Steps of users, LND and the chain.                                      *)
LEMMA EnvironmentType ==
  ASSUME TypeOK, NEW s \in Swaps, Environment(s)
  PROVE  TypeOK'
  <1>1. CASE PayHold(s)
    BY <1>1 DEF TypeOK, InvoiceStates, PayHold, db, subs, lock, chain, zmq, env
  <1>2. CASE PayFee(s)
    BY <1>2 DEF TypeOK, InvoiceStates, PayFee, db, subs, lock, chain, zmq, env
  <1>3. CASE ExpireInvoices(s)
    BY <1>3 DEF TypeOK, ExpireInvoices, db, subs, lock, chain, zmq, env
  <1>4. CASE LndCancelsHold(s)
    BY <1>4 DEF TypeOK, InvoiceStates, LndCancelsHold, db, subs, lock, chain, zmq, env
  <1>5. CASE LndCancelsFee(s)
    BY <1>5 DEF TypeOK, InvoiceStates, LndCancelsFee, db, subs, lock, chain, zmq, env
  <1>6. ASSUME NEW n \in Outs, UserClaims(s, n) PROVE TypeOK'
    BY <1>6, BoundsAssumption DEF TypeOK, UserClaims, Outs, db, ln, subs, lock, zmq, env
  <1>. QED  BY <1>1, <1>2, <1>3, <1>4, <1>5, <1>6 DEF Environment

(* What the lock does to the queue is well typed.                          *)
LEMMA LockType ==
  ASSUME TypeOK
  PROVE  /\ \A kind \in Kinds, s \in Swaps, n \in 0..MaxLockups :
              Enqueue(kind, s, n) => queue' \in Seq(Jobs)
         /\ queue # << >> => Current \in Swaps /\ Head(queue).out \in 0..MaxLockups
         /\ queue # << >> /\ Release => queue' \in Seq(Jobs) /\ step' \in Steps
  <1>1. ASSUME NEW kind \in Kinds, NEW s \in Swaps, NEW n \in 0..MaxLockups,
               Enqueue(kind, s, n)
        PROVE  queue' \in Seq(Jobs)
    <2>1. [kind |-> kind, swap |-> s, out |-> n] \in Jobs
      BY DEF Jobs
    <2>. QED  BY <1>1, <2>1, AppendFacts DEF TypeOK, Enqueue
  <1>2. ASSUME queue # << >>
        PROVE  Current \in Swaps /\ Head(queue).out \in 0..MaxLockups
    <2>1. Head(queue) \in Jobs
      BY <1>2, HeadFacts DEF TypeOK
    <2>. QED  BY <2>1 DEF Jobs, Current
  <1>3. ASSUME queue # << >>, Release
        PROVE  queue' \in Seq(Jobs) /\ step' \in Steps
    BY <1>3, TailFacts DEF TypeOK, Release, Steps
  <1>. QED  BY <1>1, <1>2, <1>3

(* Steps of LightningNursery.                                              *)
LEMMA LightningType ==
  ASSUME TypeOK, NEW s \in Swaps, Lightning(s)
  PROVE  TypeOK'
  <1>1. "invoice.paid" \in Kinds /\ 0 \in 0..MaxLockups
    BY BoundsAssumption DEF Kinds
  <1>2. Enqueue("invoice.paid", s, 0) => queue' \in Seq(Jobs)
    BY <1>1, LockType
  <1>3. CASE OnHoldAccepted(s)
    BY <1>3, <1>2 DEF TypeOK, OnHoldAccepted, db, ln, chain, zmq, env
  <1>4. CASE OnFeeAccepted(s)
    BY <1>4 DEF TypeOK, OnFeeAccepted, db, ln, lock, chain, zmq, env
  <1>5. CASE FeeSetStatus(s)
    BY <1>5 DEF TypeOK, Statuses, FeeSetStatus, SetStatus, ln, lock, chain, zmq, env
  <1>6. CASE FeeLookup(s)
    BY <1>6 DEF TypeOK, FeeLookup, db, ln, lock, chain, zmq, env
  <1>7. EmitPaid(s) => /\ fee' \in [Swaps -> InvoiceStates]
                       /\ queue' \in Seq(Jobs)
    BY <1>2 DEF TypeOK, InvoiceStates, EmitPaid
  <1>8. CASE HoldSettlesFee(s)
    BY <1>7, <1>8 DEF TypeOK, HoldSettlesFee, db, chain, zmq, env
  <1>9. CASE FeeSettlesFee(s)
    BY <1>7, <1>9 DEF TypeOK, FeeSettlesFee, db, chain, zmq, env
  <1>. QED  BY <1>3, <1>4, <1>5, <1>6, <1>8, <1>9 DEF Lightning

(* A notification more is a notification counted.                          *)
LEMMA NextNewsType ==
  ASSUME TypeOK, NEW s \in Swaps, NEW n \in Outs, NextNews(s, n)
  PROVE  claimNews' \in [Swaps -> [Outs -> 0..2]]
  <1>1. claimNews[s] \in [Outs -> 0..2] /\ claimNews[s][n] + 1 \in 0..2
    <2>1. claimNews[s] \in [Outs -> 0..2]
      BY DEF TypeOK
    <2>2. claimNews[s][n] \in 0..2 /\ claimNews[s][n] < 2
      BY <2>1 DEF NextNews
    <2>. QED  BY <2>1, <2>2
  <1>2. PICK c \in [Outs -> 0..2] : claimNews' = [claimNews EXCEPT ![s] = c]
    BY <1>1 DEF NextNews
  <1>. QED  BY <1>2 DEF TypeOK

(* Steps of InvoiceNursery and UtxoNursery.                                *)
LEMMA NurseriesType ==
  ASSUME TypeOK, NEW s \in Swaps, Nurseries(s)
  PROVE  TypeOK'
  <1>1. CASE CheckExpiredInvoices(s)
    <2>1. queue' \in Seq(Jobs)
      BY <1>1, LockType DEF TypeOK, Kinds, CheckExpiredInvoices
    <2>. QED  BY <1>1, <2>1 DEF TypeOK, CheckExpiredInvoices, db, ln, subs, chain, zmq, env
  <1>2. CASE ReverseSwapLockupConfirmed(s)
    BY <1>2 DEF TypeOK, Statuses, ReverseSwapLockupConfirmed, SetStatus,
                ln, subs, lock, chain, zmq, env
  <1>3. CASE CheckExpiredReverseSwaps(s)
    <2>1. queue' \in Seq(Jobs)
      BY <1>3, LockType DEF TypeOK, Kinds, CheckExpiredReverseSwaps
    <2>2. watched' \in [Swaps -> SUBSET (0..MaxLockups)]
      BY <1>3 DEF TypeOK, CheckExpiredReverseSwaps
    <2>. QED  BY <1>3, <2>1, <2>2
              DEF TypeOK, CheckExpiredReverseSwaps, db, ln, subs, chain, env
  <1>4. ASSUME NEW n \in Outs, CheckReverseSwapClaims(s, n) PROVE TypeOK'
    <2>1. queue' \in Seq(Jobs)
      <3>1. UNCHANGED queue \/ Enqueue("reverseSwap.claimed", s, n)
        BY <1>4 DEF CheckReverseSwapClaims
      <3>2. n \in 0..MaxLockups /\ "reverseSwap.claimed" \in Kinds
        BY BoundsAssumption DEF Outs, Kinds
      <3>. QED  BY <3>1, <3>2, LockType DEF TypeOK
    <2>2. watched' \in [Swaps -> SUBSET (0..MaxLockups)]
      <3>1. watched[s] \in SUBSET (0..MaxLockups)
        BY DEF TypeOK
      <3>2. PICK W \in SUBSET (0..MaxLockups) : watched' = [watched EXCEPT ![s] = W]
        <4>1. CASE watched' = watched
          BY <4>1, <3>1 DEF TypeOK
        <4>2. CASE watched' = [watched EXCEPT ![s] = @ \ {n}]
          BY <4>2, <3>1
        <4>. QED  BY <1>4, <4>1, <4>2 DEF CheckReverseSwapClaims
      <3>. QED  BY <3>2 DEF TypeOK
    <2>4. known' \in [Swaps -> SUBSET Outs]
      <3>1. PICK K \in SUBSET Outs : known' = [known EXCEPT ![s] = K]
        BY <1>4 DEF TypeOK, CheckReverseSwapClaims
      <3>. QED  BY <3>1 DEF TypeOK
    <2>3. claimNews' \in [Swaps -> [Outs -> 0..2]]
      BY <1>4, NextNewsType DEF CheckReverseSwapClaims
    <2>. QED  BY <1>4, <2>1, <2>2, <2>3, <2>4
              DEF TypeOK, CheckReverseSwapClaims, db, ln, subs, chain, env
  <1>. QED  BY <1>1, <1>2, <1>3, <1>4 DEF Nurseries

(* Steps of SwapNursery under the lock, failing ones included.             *)
LEMMA HandlerType ==
  ASSUME TypeOK, Handler \/ SendFails \/ SettleFails
  PROVE  TypeOK'
  <1>1. queue # << >> /\ Current \in Swaps /\ Head(queue).out \in 0..MaxLockups
    <2>1. queue # << >>
      BY DEF Handler, SendFails, SettleFails, Running, SendToAddress, AddFilters,
             SetLockupTransaction, CancelAfterFailure, SetTransactionFailed, SettleInvoice,
             SetInvoiceSettled, QueryExpired, SetSwapExpired, RefundUtxo,
             SetTransactionRefunded, CancelHold, CancelFee, LookupExpired,
             CancelExpiredHold, CancelExpiredFee, SetInvoiceExpired
    <2>. QED  BY <2>1, LockType
  <1>2. Release => queue' \in Seq(Jobs) /\ step' \in Steps
    BY <1>1, LockType
  <1>3. \A at \in Steps : Goto(at) => queue' \in Seq(Jobs) /\ step' \in Steps
    BY DEF Goto, TypeOK
  <1>4. \A value \in Statuses : SetStatus(Current, value) => status' \in [Swaps -> Statuses]
    BY <1>1 DEF SetStatus, TypeOK
  <1>. USE DEF TypeOK
  <1>5. CASE SendToAddress
    <2>1. sent' \in [Swaps -> 0..MaxLockups]
      <3>1. sent[Current] + 1 \in 0..MaxLockups
        BY <1>1, <1>5, BoundsAssumption DEF SendToAddress
      <3>. QED  BY <1>1, <1>5, <3>1 DEF SendToAddress
    <2>2. queue' \in Seq(Jobs) /\ step' \in Steps
      BY <1>3, <1>5 DEF SendToAddress, Steps
    <2>. QED  BY <1>5, <2>1, <2>2 DEF SendToAddress, db, ln, subs, zmq, env
  <1>6. CASE AddFilters
    BY <1>1, <1>3, <1>6, SMTT(30) DEF AddFilters, Steps, db, ln, subs, chain, env
  <1>7. CASE SetLockupTransaction
    BY <1>1, <1>2, <1>4, <1>7 DEF SetLockupTransaction, Statuses, ln, subs, chain, zmq, env
  <1>8. CASE CancelAfterFailure
    BY <1>1, <1>2, <1>3, <1>8
    DEF CancelAfterFailure, InvoiceStates, Steps, db, subs, chain, zmq, env
  <1>9. CASE SetTransactionFailed
    BY <1>1, <1>2, <1>4, <1>9 DEF SetTransactionFailed, Statuses, ln, subs, chain, zmq, env
  <1>10. CASE SettleInvoice
    BY <1>1, <1>2, <1>3, <1>10
    DEF SettleInvoice, InvoiceStates, Steps, db, subs, chain, zmq, env
  <1>11. CASE SetInvoiceSettled
    BY <1>1, <1>2, <1>4, <1>11 DEF SetInvoiceSettled, Statuses, ln, subs, chain, zmq, env
  <1>12. CASE QueryExpired
    BY <1>1, <1>2, <1>3, <1>12 DEF QueryExpired, Steps, db, ln, subs, chain, zmq, env
  <1>13. CASE SetSwapExpired
    BY <1>1, <1>3, <1>4, <1>13
    DEF SetSwapExpired, Statuses, Steps, ln, subs, chain, zmq, env
  <1>14. CASE RefundUtxo
    <2>1. spend' \in [Swaps -> [Outs -> {"none", "claim", "refund"}]]
      <3>1. CASE spend' = spend
        BY <3>1
      <3>2. CASE spend' = [spend EXCEPT ![Current][Head(queue).out] = "refund"]
        BY <3>2, <1>1
      <3>. QED  BY <1>14, <3>1, <3>2 DEF RefundUtxo
    <2>2. queue' \in Seq(Jobs) /\ step' \in Steps
      BY <1>2, <1>3, <1>14 DEF RefundUtxo, Steps
    <2>. QED  BY <1>14, <2>1, <2>2 DEF RefundUtxo, db, ln, subs, zmq, env
  <1>15. CASE SetTransactionRefunded
    BY <1>1, <1>3, <1>4, <1>15
    DEF SetTransactionRefunded, Statuses, Steps, ln, subs, chain, zmq, env
  <1>16. CASE CancelHold
    BY <1>1, <1>2, <1>3, <1>16 DEF CancelHold, InvoiceStates, Steps, db, subs, chain, zmq, env
  <1>17. CASE CancelFee
    BY <1>1, <1>2, <1>17 DEF CancelFee, InvoiceStates, db, subs, chain, zmq, env
  <1>18. CASE LookupExpired
    BY <1>1, <1>2, <1>3, <1>18 DEF LookupExpired, Steps, db, ln, subs, chain, zmq, env
  <1>19. CASE CancelExpiredHold
    BY <1>1, <1>3, <1>19
    DEF CancelExpiredHold, InvoiceStates, Steps, db, subs, chain, zmq, env
  <1>20. CASE CancelExpiredFee
    BY <1>1, <1>2, <1>3, <1>20
    DEF CancelExpiredFee, InvoiceStates, Steps, db, subs, chain, zmq, env
  <1>21. CASE SetInvoiceExpired
    BY <1>1, <1>2, <1>4, <1>21 DEF SetInvoiceExpired, Statuses, ln, subs, chain, zmq, env
  <1>22. CASE SendFails
    <2>1. queue' \in Seq(Jobs) /\ step' \in Steps
      BY <1>3, <1>22 DEF SendFails, Steps
    <2>2. faults' \in 0..MaxFaults
      BY <1>22, BoundsAssumption DEF SendFails
    <2>3. calm' \in BOOLEAN
      BY <1>22 DEF SendFails
    <2>. QED  BY <1>22, <2>1, <2>2, <2>3 DEF SendFails, db, ln, subs, chain, zmq
  <1>23. CASE SettleFails
    BY <1>1, <1>2, <1>23, BoundsAssumption DEF SettleFails, db, ln, subs, chain, zmq
  <1>. QED  BY <1>5, <1>6, <1>7, <1>8, <1>9, <1>10, <1>11, <1>12, <1>13, <1>14, <1>15,
               <1>16, <1>17, <1>18, <1>19, <1>20, <1>21, <1>22, <1>23 DEF Handler

(* A crash and the start-up after it, and the other steps.                 *)
LEMMA RestType ==
  ASSUME TypeOK,
         \/ Restart \/ MineBlock
         \/ \E S \in SUBSET Swaps : ReadMempoolSwaps(S)
         \/ \E s \in Swaps, n \in Outs : MineLockup(s, n) \/ LoseNews(s, n)
  PROVE  TypeOK'
  <1>. USE DEF TypeOK
  <1>1. CASE Restart
    <2>1. sub' \in [Swaps -> SUBSET {"hold", "fee"}]
      BY <1>1 DEF Restart, Resubscribe
    <2>2. watched' \in [Swaps -> SUBSET (0..MaxLockups)]
      BY <1>1 DEF Restart, RecreateFilters
    <2>3. claimNews' \in [Swaps -> [Outs -> 0..2]]
      <3>1. PICK rescanned \in SUBSET (Swaps \X Outs) :
              claimNews' = [s \in Swaps |-> [n \in Outs |->
                IF spend[s][n] = "claim" /\ n \in mined[s] /\ <<s, n>> \in rescanned
                THEN 1 ELSE claimNews[s][n]]]
        BY <1>1 DEF Restart
      <3>2. \A s \in Swaps, n \in Outs : claimNews[s][n] \in 0..2 /\ 1 \in 0..2
        OBVIOUS
      <3>. QED  BY <3>1, <3>2 DEF Outs
    <2>4. queue' \in Seq(Jobs) /\ step' \in Steps /\ known' \in [Swaps -> SUBSET Outs]
      BY <1>1 DEF Restart, Steps
    <2>5. restarts' \in 0..MaxRestarts
      BY <1>1, BoundsAssumption DEF Restart
    <2>. QED  BY <1>1, <2>1, <2>2, <2>3, <2>4, <2>5 DEF Restart, db, ln, chain
  <1>2. CASE MineBlock
    BY <1>2, BoundsAssumption DEF MineBlock, db, ln, subs, lock, zmq, env
  <1>3. CASE \E S \in SUBSET Swaps : ReadMempoolSwaps(S)
    BY <1>3 DEF ReadMempoolSwaps, db, ln, subs, lock, chain, zmq, env
  <1>4. ASSUME NEW s \in Swaps, NEW n \in Outs, MineLockup(s, n) PROVE TypeOK'
    BY <1>4 DEF MineLockup, db, ln, subs, lock, zmq, env
  <1>5. ASSUME NEW s \in Swaps, NEW n \in Outs, LoseNews(s, n) PROVE TypeOK'
    <2>1. claimNews' \in [Swaps -> [Outs -> 0..2]]
      BY <1>5, NextNewsType DEF LoseNews
    <2>. QED  BY <1>5, <2>1, BoundsAssumption DEF LoseNews, db, ln, subs, lock, chain
  <1>. QED  BY <1>1, <1>2, <1>3, <1>4, <1>5

(* Every variable keeps its type: in particular every event in the queue   *)
(* is one of SwapNursery's, and no counter leaves its range.               *)
THEOREM TypeCorrect == Spec => []TypeOK
  <1>1. TypeOK /\ [Next]_vars => TypeOK'
    <2>. SUFFICES ASSUME TypeOK, [Next]_vars PROVE TypeOK'
      OBVIOUS
    <2>1. CASE Next
      BY <2>1, EnvironmentType, LightningType, NurseriesType, HandlerType, RestType
      DEF Next, Faults
    <2>2. CASE UNCHANGED vars
      BY <2>2 DEF TypeOK, vars, db, ln, subs, lock, chain, zmq, env
    <2>. QED  BY <2>1, <2>2
  <1>. QED  BY <1>1, InitType, PTL DEF Spec

-----------------------------------------------------------------------------
(* Safety *)

(* What no step takes back: time, the expiry and the payment of invoices,  *)
(* the transactions that were sent and those that spend them.              *)
Grows ==
  /\ height <= height'
  /\ \A s \in Swaps :
       /\ invoiceExpired[s] => invoiceExpired'[s]
       /\ hold[s] # "OPEN" => hold'[s] # "OPEN"
       /\ sent[s] <= sent'[s]
       /\ \A n \in Outs : spend[s][n] # "none" => spend'[s][n] = spend[s][n]

(* Most steps leave the chain alone and pay no invoice back to "OPEN".     *)
LEMMA GrowsWhenUnchanged ==
  ASSUME TypeOK, UNCHANGED chain, UNCHANGED invoiceExpired,
         \A s \in Swaps : hold[s] # "OPEN" => hold'[s] # "OPEN"
  PROVE  Grows
  BY DEF TypeOK, Grows, chain

(* What steps leave the invoices and the chain alone.                      *)
Idle == UNCHANGED <<hold, invoiceExpired, chain>>

(* Such a step keeps all that does not change back.                        *)
LEMMA IdleGrows == TypeOK /\ Idle => Grows
  BY GrowsWhenUnchanged DEF Idle

(* Users pay an open invoice and claim an unspent lockup, LND cancels an   *)
(* open invoice.                                                           *)
LEMMA EnvironmentGrows ==
  ASSUME TypeOK, NEW s \in Swaps, Environment(s)
  PROVE  Grows
  <1>1. CASE PayHold(s)
    BY <1>1, GrowsWhenUnchanged DEF TypeOK, PayHold
  <1>2. CASE PayFee(s)
    BY <1>2, IdleGrows DEF PayFee, Idle
  <1>3. CASE ExpireInvoices(s)
    BY <1>3 DEF TypeOK, ExpireInvoices, Grows, chain
  <1>4. CASE LndCancelsHold(s)
    BY <1>4, GrowsWhenUnchanged DEF TypeOK, LndCancelsHold
  <1>5. CASE LndCancelsFee(s)
    BY <1>5, IdleGrows DEF LndCancelsFee, Idle
  <1>6. ASSUME NEW n \in Outs, UserClaims(s, n) PROVE Grows
    BY <1>6 DEF TypeOK, UserClaims, Grows, ln
  <1>. QED  BY <1>1, <1>2, <1>3, <1>4, <1>5, <1>6 DEF Environment

(* SwapNursery settles or cancels, never reopens, and refunds what no      *)
(* transaction spends.                                                     *)
LEMMA HandlerGrows ==
  ASSUME TypeOK, Handler \/ SendFails \/ SettleFails
  PROVE  Grows
  <1>1. CASE SendToAddress
    BY <1>1, LockType DEF TypeOK, SendToAddress, Running, Grows, ln
  <1>2. CASE RefundUtxo
    <2>1. queue # << >> /\ Current \in Swaps
      BY <1>2, LockType DEF RefundUtxo, Running
    <2>2. \/ UNCHANGED spend
          \/ /\ spend[Current][Head(queue).out] = "none"
             /\ spend' = [spend EXCEPT ![Current][Head(queue).out] = "refund"]
      BY <1>2 DEF RefundUtxo, RefundAccepted
    <2>3. ASSUME NEW s \in Swaps, NEW n \in Outs, spend[s][n] # "none"
          PROVE  spend'[s][n] = spend[s][n]
      <3>1. spend \in [Swaps -> [Outs -> {"none", "claim", "refund"}]]
        BY DEF TypeOK
      <3>2. CASE s = Current /\ n = Head(queue).out
        BY <2>2, <2>3, <3>2
      <3>3. CASE s # Current \/ n # Head(queue).out
        BY <2>1, <2>2, <3>1, <3>3
      <3>. QED  BY <3>2, <3>3
    <2>4. UNCHANGED <<height, invoiceExpired, hold, sent>>
      BY <1>2 DEF RefundUtxo, ln
    <2>. QED  BY <2>3, <2>4 DEF TypeOK, Grows
  <1>3. CASE \/ CancelAfterFailure \/ SettleInvoice \/ CancelHold \/ CancelExpiredHold
    <2>1. Current \in Swaps
      BY <1>3, LockType
      DEF CancelAfterFailure, SettleInvoice, CancelHold, CancelExpiredHold, Running
    <2>. QED  BY <1>3, <2>1, GrowsWhenUnchanged
              DEF TypeOK, CancelAfterFailure, SettleInvoice, CancelHold, CancelExpiredHold
  <1>4. CASE Idle
    BY <1>4, IdleGrows
  <1>5. CASE \/ AddFilters \/ SetLockupTransaction \/ SetTransactionFailed
             \/ SetInvoiceSettled \/ QueryExpired \/ SetSwapExpired
             \/ SetTransactionRefunded \/ CancelFee \/ LookupExpired \/ CancelExpiredFee
             \/ SetInvoiceExpired \/ SendFails \/ SettleFails
    BY <1>4, <1>5
    DEF AddFilters, SetLockupTransaction, SetTransactionFailed, SetInvoiceSettled,
        QueryExpired, SetSwapExpired, SetTransactionRefunded, CancelFee, LookupExpired,
        CancelExpiredFee, SetInvoiceExpired, SendFails, SettleFails, Idle, ln
  <1>. QED  BY <1>1, <1>2, <1>3, <1>5 DEF Handler

(* Steps only grow.                                                        *)
LEMMA NextGrows ==
  ASSUME TypeOK, Next
  PROVE  Grows
  <1>1. ASSUME NEW s \in Swaps, Lightning(s) PROVE Grows
    BY <1>1, IdleGrows
    DEF Lightning, OnHoldAccepted, OnFeeAccepted, FeeSetStatus, FeeLookup, HoldSettlesFee,
        FeeSettlesFee, ln, Idle
  <1>2. ASSUME NEW s \in Swaps, Nurseries(s) PROVE Grows
    BY <1>2, IdleGrows
    DEF Nurseries, CheckExpiredInvoices, ReverseSwapLockupConfirmed, CheckExpiredReverseSwaps,
        CheckReverseSwapClaims, ln, Idle
  <1>3. CASE Restart \/ \E S \in SUBSET Swaps : ReadMempoolSwaps(S)
    BY <1>3, IdleGrows DEF Restart, ReadMempoolSwaps, ln, Idle
  <1>4. ASSUME NEW s \in Swaps, NEW n \in Outs, MineLockup(s, n) \/ LoseNews(s, n)
        PROVE  Grows
    BY <1>4 DEF TypeOK, MineLockup, LoseNews, ln, chain, Grows
  <1>5. CASE MineBlock
    BY <1>5 DEF TypeOK, MineBlock, ln, Grows
  <1>. QED  BY <1>1, <1>2, <1>3, <1>4, <1>5, EnvironmentGrows, HandlerGrows DEF Next, Faults

(* So what a waiting event says stays true.                                *)
LEMMA JobStays ==
  ASSUME TypeOK, TypeOK', Grows, NEW j \in Jobs, JobOK(j)
  PROVE  JobOK(j)'
  <1>1. j.swap \in Swaps
    BY DEF Jobs
  <1>2. Timeout[j.swap] <= height => Timeout[j.swap] <= height'
    BY <1>1, BoundsAssumption, SMTT(30) DEF Grows, TypeOK
  <1>. QED  BY <1>1, <1>2 DEF Grows, JobOK

(* ... and an event that was true when it was emitted is true while it     *)
(* waits: QueueInv is kept by whatever the step does to the queue.         *)
LEMMA QueueStays ==
  ASSUME TypeOK, TypeOK', Grows, QueueInv,
         \/ UNCHANGED queue
         \/ \E j \in Jobs : JobOK(j)' /\ queue' = Append(queue, j)
         \/ queue # << >> /\ queue' = Tail(queue)
         \/ queue' = << >>
  PROVE  QueueInv'
  <1>1. \A j \in Jobs : JobOK(j) => JobOK(j)'
    BY JobStays
  <1>2. ASSUME NEW k \in 1..Len(queue) PROVE \E j \in Jobs : j = queue[k] /\ JobOK(j)'
    <2>1. PICK j \in Jobs : j = queue[k]
      BY DEF TypeOK
    <2>2. JobOK(j)
      BY <2>1 DEF QueueInv
    <2>. QED  BY <1>1, <2>1, <2>2
  <1>3. ASSUME NEW i \in 1..Len(queue') PROVE \E j \in Jobs : j = queue'[i] /\ JobOK(j)'
    <2>1. CASE UNCHANGED queue
      BY <1>2, <2>1
    <2>2. ASSUME NEW j \in Jobs, JobOK(j)', queue' = Append(queue, j)
          PROVE  \E l \in Jobs : l = queue'[i] /\ JobOK(l)'
      <3>1. queue'[i] = j \/ \E k \in 1..Len(queue) : queue'[i] = queue[k]
        BY <2>2, AppendFacts DEF TypeOK
      <3>. QED  BY <1>2, <2>2, <3>1
    <2>3. CASE queue # << >> /\ queue' = Tail(queue)
      <3>1. PICK k \in 1..Len(queue) : queue'[i] = queue[k]
        BY <2>3, TailFacts DEF TypeOK
      <3>. QED  BY <1>2, <3>1
    <2>4. CASE queue' = << >>
      BY <2>4
    <2>. QED  BY <2>1, <2>2, <2>3, <2>4
  <1>4. ASSUME NEW i \in 1..Len(queue') PROVE JobOK(queue[i])'
    <2>1. PICK j \in Jobs : j = queue'[i] /\ JobOK(j)'
      BY <1>3
    <2>. QED  BY <2>1 DEF JobOK
  <1>. QED  BY <1>4 DEF QueueInv

(* The running handler keeps what it found out while others take steps: in *)
(* particular no user pays an invoice after its expiry.                    *)
LEMMA StepStays ==
  ASSUME TypeOK, TypeOK', Grows, QueueInv, StepInv, UNCHANGED step,
         UNCHANGED queue \/ \E j \in Jobs : queue' = Append(queue, j),
         \A s \in Swaps : /\ hold'[s] = "ACCEPTED" => hold[s] = "ACCEPTED" \/ ~invoiceExpired[s]
                          /\ hold'[s] = "SETTLED" => hold[s] = "SETTLED"
  PROVE  StepInv'
  <1>1. queue # << >> => /\ queue' # << >> /\ Head(queue') = Head(queue)
                         /\ Current \in Swaps /\ Current' = Current
                         /\ JobOK(Head(queue))
    <2>1. SUFFICES ASSUME queue # << >>
                   PROVE  /\ queue' # << >> /\ Head(queue') = Head(queue)
                          /\ Current \in Swaps /\ JobOK(Head(queue))
      BY DEF Current
    <2>2. queue' # << >> /\ Head(queue') = Head(queue)
      BY <2>1, AppendFacts DEF TypeOK
    <2>3. Current \in Swaps
      BY <2>1, LockType
    <2>4. JobOK(Head(queue))
      BY <2>1, HeadFacts DEF QueueInv, TypeOK
    <2>. QED  BY <2>2, <2>3, <2>4
  <1>2. (step # "start" => queue # << >>)'
    BY <1>1 DEF StepInv
  <1>3. ASSUME step = "refunded"
        PROVE  (Head(queue).out \in Outs /\ spend[Current][Head(queue).out] = "refund")'
    BY <1>1, <1>3 DEF StepInv, Grows
  <1>4. ASSUME step = "cancelHold"
        PROVE  (/\ Head(queue).kind = "invoice.expired"
                /\ hold[Current] \in {"OPEN", "CANCELED"})'
    <2>1. Head(queue).kind = "invoice.expired" /\ hold[Current] \in {"OPEN", "CANCELED"}
      BY <1>4 DEF StepInv
    <2>2. queue # << >>
      BY <1>4 DEF StepInv
    <2>3. invoiceExpired[Current]
      BY <1>1, <2>1, <2>2 DEF JobOK, Current
    <2>4. hold'[Current] \in {"OPEN", "CANCELED"}
      BY <1>1, <2>1, <2>2, <2>3, ZenonT(60) DEF TypeOK, InvoiceStates
    <2>. QED  BY <1>1, <2>1, <2>2, <2>4
  <1>. QED  BY <1>2, <1>3, <1>4 DEF StepInv

(* What the step of a handler leaves of the rest of the invariant.         *)
LEMMA HandlerStays ==
  ASSUME TypeOK, Grows, HandlerInv, UNCHANGED <<holdHandler, feeHandler>>
  PROVE  HandlerInv'
  BY DEF HandlerInv, Grows

(* Lockups are counted before they are mined or spent.                     *)
LEMMA ChainStays ==
  ASSUME TypeOK, TypeOK', Grows, ChainInv, UNCHANGED <<mined, spend>>
  PROVE  ChainInv'
  <1>. SUFFICES ASSUME NEW s \in Swaps, NEW n \in Outs,
                       n \in mined[s] \/ spend[s][n] # "none"
                PROVE  n <= sent'[s]
    BY DEF ChainInv
  <1>1. n <= sent[s] /\ sent[s] <= sent'[s]
    BY DEF ChainInv, Grows
  <1>2. n \in Int /\ sent[s] \in Int /\ sent'[s] \in Int
    BY BoundsAssumption DEF TypeOK, Outs
  <1>. QED  BY <1>1, <1>2

(* An invoice that was not settled in this step needs no new claim.        *)
LEMMA SettledStays ==
  ASSUME TypeOK, Grows, SettledImpliesClaimed,
         \A s \in Swaps : hold'[s] = "SETTLED" => hold[s] = "SETTLED"
  PROVE  SettledImpliesClaimed'
  BY DEF SettledImpliesClaimed, Grows

(* A row that was not marked in this step needs no new refund.             *)
LEMMA RefundedStays ==
  ASSUME TypeOK, Grows, RefundedRowHasRefund,
         \A s \in Swaps : status'[s] = "TransactionRefunded" => status[s] = "TransactionRefunded"
  PROVE  RefundedRowHasRefund'
  BY DEF RefundedRowHasRefund, Grows

(* Users, LND and the chain.                                               *)
LEMMA EnvironmentSafe ==
  ASSUME IInv, TypeOK', Grows, NEW s \in Swaps, Environment(s)
  PROVE  IInv'
  <1>1. UNCHANGED <<status, holdHandler, feeHandler, queue, step, mined, sent>>
    BY DEF Environment, PayHold, PayFee, ExpireInvoices, LndCancelsHold, LndCancelsFee,
           UserClaims, db, subs, lock, chain
  <1>2. \A t \in Swaps : /\ hold'[t] = "ACCEPTED" => hold[t] = "ACCEPTED" \/ ~invoiceExpired[t]
                         /\ hold'[t] = "SETTLED" => hold[t] = "SETTLED"
    BY ZenonT(60) DEF IInv, TypeOK, Environment, PayHold, PayFee, ExpireInvoices, LndCancelsHold,
           LndCancelsFee, UserClaims, ln
  <1>3. ChainInv'
    <2>1. CASE UNCHANGED spend
      BY <1>1, <2>1, ChainStays DEF IInv
    <2>2. ASSUME NEW n \in Outs, UserClaims(s, n) PROVE ChainInv'
      <3>1. ASSUME NEW t \in Swaps, NEW k \in Outs, spend'[t][k] # "none"
            PROVE  k <= sent[t]
        <4>1. spend'[t][k] = spend[t][k] \/ (t = s /\ k = n)
          BY <2>2 DEF UserClaims, IInv, TypeOK
        <4>. QED  BY <2>2, <3>1, <4>1 DEF UserClaims, IInv, ChainInv
      <3>. QED  BY <1>1, <3>1 DEF IInv, ChainInv
    <2>. QED  BY <2>1, <2>2 DEF Environment, PayHold, PayFee, ExpireInvoices,
                                LndCancelsHold, LndCancelsFee, chain
  <1>. QED  BY <1>1, <1>2, <1>3, QueueStays, StepStays, HandlerStays, SettledStays,
               RefundedStays DEF IInv

(* LightningNursery: a handler that settles the miner fee, or emits the    *)
(* event of a payment, has seen the hold invoice paid.                     *)
LEMMA LightningSafe ==
  ASSUME IInv, TypeOK', Grows, NEW s \in Swaps, Lightning(s)
  PROVE  IInv'
  <1>. DEFINE paid == [kind |-> "invoice.paid", swap |-> s, out |-> 0]
  <1>1. UNCHANGED <<hold, step, chain>>
    BY DEF Lightning, OnHoldAccepted, OnFeeAccepted, FeeSetStatus, FeeLookup, HoldSettlesFee,
           FeeSettlesFee, ln, lock
  <1>2. \A t \in Swaps : status'[t] = "TransactionRefunded" => status[t] = "TransactionRefunded"
    <2>1. UNCHANGED status \/ status' = [status EXCEPT ![s] = "MinerFeePaid"]
      BY DEF Lightning, OnHoldAccepted, OnFeeAccepted, FeeSetStatus, FeeLookup, HoldSettlesFee,
             FeeSettlesFee, db, SetStatus
    <2>2. status \in [Swaps -> Statuses]
      BY DEF IInv, TypeOK
    <2>. QED  BY <2>1, <2>2
  <1>3. HandlerInv'
    <2>1. CASE OnHoldAccepted(s) \/ OnFeeAccepted(s) \/ FeeSetStatus(s)
      BY <1>1, <2>1, ZenonT(60) DEF OnHoldAccepted, OnFeeAccepted, FeeSetStatus, IInv, HandlerInv, TypeOK
    <2>2. CASE FeeLookup(s) \/ HoldSettlesFee(s) \/ FeeSettlesFee(s)
      BY <1>1, <2>2, ZenonT(60) DEF FeeLookup, HoldSettlesFee, FeeSettlesFee, IInv, HandlerInv, TypeOK
    <2>. QED  BY <2>1, <2>2 DEF Lightning
  <1>4. UNCHANGED queue \/ (hold[s] # "OPEN" /\ queue' = Append(queue, paid))
    BY DEF Lightning, OnHoldAccepted, OnFeeAccepted, FeeSetStatus, FeeLookup, HoldSettlesFee,
           FeeSettlesFee, EmitPaid, Enqueue, lock, IInv, HandlerInv
  <1>5. UNCHANGED queue \/ \E j \in Jobs : JobOK(j)' /\ queue' = Append(queue, j)
    <2>1. paid \in Jobs
      BY BoundsAssumption DEF Jobs, Kinds
    <2>2. hold[s] # "OPEN" => JobOK(paid)'
      BY <1>1 DEF JobOK
    <2>. QED  BY <1>4, <2>1, <2>2
  <1>. QED  BY <1>1, <1>2, <1>3, <1>5, QueueStays, StepStays, ChainStays, SettledStays,
               RefundedStays DEF IInv, chain

(* The nurseries: each event is true when it is emitted.                   *)
LEMMA NurseriesSafe ==
  ASSUME IInv, TypeOK', Grows, NEW s \in Swaps, Nurseries(s)
  PROVE  IInv'
  <1>1. UNCHANGED <<ln, subs, step, chain>>
    BY DEF Nurseries, CheckExpiredInvoices, ReverseSwapLockupConfirmed,
           CheckExpiredReverseSwaps, CheckReverseSwapClaims, lock
  <1>2. \A t \in Swaps : status'[t] = "TransactionRefunded" => status[t] = "TransactionRefunded"
    <2>1. UNCHANGED status \/ status' = [status EXCEPT ![s] = "TransactionConfirmed"]
      BY DEF Nurseries, CheckExpiredInvoices, ReverseSwapLockupConfirmed,
             CheckExpiredReverseSwaps, CheckReverseSwapClaims, db, SetStatus
    <2>2. status \in [Swaps -> Statuses]
      BY DEF IInv, TypeOK
    <2>. QED  BY <2>1, <2>2
  <1>3. UNCHANGED queue \/ \E j \in Jobs : JobOK(j)' /\ queue' = Append(queue, j)
    <2>. DEFINE job(kind, n) == [kind |-> kind, swap |-> s, out |-> n]
    <2>1. \A kind \in Kinds, n \in 0..MaxLockups : job(kind, n) \in Jobs
      BY DEF Jobs
    <2>2. txOut[s] \in 0..MaxLockups
      BY DEF IInv, TypeOK
    <2>3. CASE CheckExpiredInvoices(s)
      <3>1. PICK j \in Jobs : j = job("invoice.expired", txOut[s])
        BY <2>1, <2>2 DEF Kinds
      <3>2. JobOK(j)'
        BY <1>1, <2>3, <3>1 DEF CheckExpiredInvoices, JobOK, ln
      <3>. QED  BY <2>3, <3>1, <3>2 DEF CheckExpiredInvoices, Enqueue
    <2>4. CASE ReverseSwapLockupConfirmed(s)
      BY <2>4 DEF ReverseSwapLockupConfirmed, lock
    <2>5. CASE CheckExpiredReverseSwaps(s)
      <3>1. PICK j \in Jobs : j = job("reverseSwap.expired", txOut[s])
        BY <2>1, <2>2 DEF Kinds
      <3>2. JobOK(j)'
        BY <1>1, <2>5, <3>1 DEF CheckExpiredReverseSwaps, Expirable, JobOK, chain
      <3>. QED  BY <2>5, <3>1, <3>2 DEF CheckExpiredReverseSwaps, Enqueue
    <2>6. ASSUME NEW n \in Outs, CheckReverseSwapClaims(s, n)
          PROVE  UNCHANGED queue \/ \E j \in Jobs : JobOK(j)' /\ queue' = Append(queue, j)
      <3>0. n \in 0..MaxLockups
        BY BoundsAssumption DEF Outs
      <3>1. PICK j \in Jobs : j = job("reverseSwap.claimed", n)
        BY <2>1, <3>0 DEF Kinds
      <3>2. JobOK(j)'
        BY <1>1, <2>6, <3>1 DEF CheckReverseSwapClaims, NextNews, JobOK, chain
      <3>. QED  BY <2>6, <3>1, <3>2 DEF CheckReverseSwapClaims, Enqueue
    <2>. QED  BY <2>3, <2>4, <2>5, <2>6 DEF Nurseries
  <1>. QED  BY <1>1, <1>2, <1>3, QueueStays, StepStays, HandlerStays, ChainStays, SettledStays,
               RefundedStays DEF IInv, ln, subs, chain

(* What each step of SwapNursery's handlers leaves alone.                  *)
LEMMA HandlerSteps ==
  ASSUME Handler \/ SendFails \/ SettleFails
  PROVE  /\ queue # << >>
         /\ UNCHANGED <<holdHandler, feeHandler>>
         /\ \/ Release
            \/ RefundUtxo /\ Goto("refunded")
            \/ LookupExpired /\ Goto("cancelHold")
            \/ \E at \in Steps \ {"refunded", "cancelHold"} : Goto(at)
         /\ SettleInvoice \/ UNCHANGED hold \/ hold' = [hold EXCEPT ![Current] = "CANCELED"]
         /\ \/ SetTransactionRefunded
            \/ UNCHANGED status
            \/ \E value \in Statuses \ {"TransactionRefunded"} : SetStatus(Current, value)
         /\ RefundUtxo \/ UNCHANGED <<mined, spend>>
  <1>. USE DEF Running, Steps, Statuses, db, ln, subs, chain
  <1>1. CASE \/ SendToAddress \/ AddFilters \/ SetLockupTransaction \/ CancelAfterFailure
             \/ SetTransactionFailed \/ SendFails \/ SettleFails
    BY <1>1 DEF SendToAddress, AddFilters, SetLockupTransaction, CancelAfterFailure,
                SetTransactionFailed, SendFails, SettleFails
  <1>2. CASE \/ SettleInvoice \/ SetInvoiceSettled
             \/ LookupExpired \/ CancelExpiredHold \/ CancelExpiredFee \/ SetInvoiceExpired
    BY <1>2 DEF SettleInvoice, SetInvoiceSettled, LookupExpired, CancelExpiredHold,
                CancelExpiredFee, SetInvoiceExpired
  <1>3. CASE \/ QueryExpired \/ SetSwapExpired \/ RefundUtxo \/ SetTransactionRefunded
             \/ CancelHold \/ CancelFee
    BY <1>3 DEF QueryExpired, SetSwapExpired, RefundUtxo, SetTransactionRefunded, CancelHold,
                CancelFee
  <1>. QED  BY <1>1, <1>2, <1>3 DEF Handler

(* SwapNursery.  The running event is true when its handler starts, and    *)
(* the coins are refunded before the row says so.                          *)
LEMMA HandlerSafe ==
  ASSUME IInv, TypeOK', Grows, Handler \/ SendFails \/ SettleFails
  PROVE  IInv'
  <1>1. queue # << >> /\ Current \in Swaps /\ JobOK(Head(queue))
    <2>1. queue # << >>
      BY HandlerSteps
    <2>2. Head(queue) = queue[1] /\ 1 \in 1..Len(queue)
      BY <2>1, HeadFacts DEF IInv, TypeOK
    <2>. QED  BY <2>1, <2>2, LockType DEF IInv, QueueInv
  <1>2. QueueInv' /\ HandlerInv'
    <2>1. UNCHANGED queue \/ queue' = Tail(queue)
      BY HandlerSteps DEF Goto, Release
    <2>. QED  BY <1>1, <2>1, HandlerSteps, QueueStays, HandlerStays DEF IInv
  <1>3. SettledImpliesClaimed'
    <2>1. CASE SettleInvoice
      <3>1. Head(queue).out \in Outs /\ spend[Current][Head(queue).out] = "claim"
        BY <1>1, <2>1 DEF SettleInvoice, Running, JobOK, Current
      <3>2. \A t \in Swaps : hold'[t] = "SETTLED" => hold[t] = "SETTLED" \/ t = Current
        BY <2>1 DEF SettleInvoice, IInv, TypeOK
      <3>3. UNCHANGED spend
        BY <2>1 DEF SettleInvoice, chain
      <3>. QED  BY <3>1, <3>2, <3>3 DEF IInv, SettledImpliesClaimed
    <2>2. CASE ~SettleInvoice
      <3>1. \A t \in Swaps : hold'[t] = "SETTLED" => hold[t] = "SETTLED"
        BY <2>2, HandlerSteps DEF IInv, TypeOK
      <3>. QED  BY <3>1, SettledStays DEF IInv
    <2>. QED  BY <2>1, <2>2
  <1>4. RefundedRowHasRefund'
    <2>1. CASE SetTransactionRefunded
      <3>1. Head(queue).out \in Outs /\ spend[Current][Head(queue).out] = "refund"
        BY <2>1 DEF SetTransactionRefunded, Running, IInv, StepInv
      <3>2. \A t \in Swaps :
              status'[t] = "TransactionRefunded" => status[t] = "TransactionRefunded" \/ t = Current
        BY <2>1 DEF SetTransactionRefunded, SetStatus, IInv, TypeOK
      <3>3. UNCHANGED spend
        BY <2>1 DEF SetTransactionRefunded, chain
      <3>. QED  BY <3>1, <3>2, <3>3 DEF IInv, RefundedRowHasRefund
    <2>2. CASE ~SetTransactionRefunded
      <3>1. \A t \in Swaps :
              status'[t] = "TransactionRefunded" => status[t] = "TransactionRefunded"
        <4>1. \/ UNCHANGED status
              \/ \E value \in Statuses \ {"TransactionRefunded"} :
                   status' = [status EXCEPT ![Current] = value]
          BY <2>2, HandlerSteps DEF SetStatus
        <4>2. status \in [Swaps -> Statuses]
          BY DEF IInv, TypeOK
        <4>. QED  BY ONLY <4>1, <4>2
      <3>. QED  BY <3>1, RefundedStays DEF IInv
    <2>. QED  BY <2>1, <2>2
  <1>5. ChainInv'
    <2>1. CASE UNCHANGED <<mined, spend>>
      BY <2>1, ChainStays DEF IInv
    <2>2. CASE RefundUtxo
      <3>1. UNCHANGED <<mined, sent>>
        BY <2>2 DEF RefundUtxo
      <3>2. ASSUME NEW t \in Swaps, NEW k \in Outs, spend'[t][k] # "none"
            PROVE  spend[t][k] # "none" \/ k \in mined[t]
        <4>. DEFINE n == Head(queue).out
        <4>1. CASE UNCHANGED spend
          BY <3>2, <4>1
        <4>2. CASE n \in mined[Current] /\ spend' = [spend EXCEPT ![Current][n] = "refund"]
          <5>1. spend \in [Swaps -> [Outs -> {"none", "claim", "refund"}]]
            BY DEF IInv, TypeOK
          <5>2. spend'[t][k] = spend[t][k] \/ (t = Current /\ k = n)
            BY <1>1, <4>2, <5>1
          <5>. QED  BY <3>2, <4>2, <5>2
        <4>. QED  BY <2>2, <4>1, <4>2 DEF RefundUtxo, RefundAccepted
      <3>. QED  BY <3>1, <3>2 DEF IInv, ChainInv
    <2>. QED  BY <2>1, <2>2, HandlerSteps
  <1>6. StepInv'
    <2>1. CASE Release
      BY <2>1 DEF StepInv, Release
    <2>2. CASE RefundUtxo /\ Goto("refunded")
      <3>1. Head(queue).out \in Outs /\ spend'[Current][Head(queue).out] = "refund"
        BY <1>1, <2>2 DEF RefundUtxo, RefundAccepted, Release, Goto, IInv, TypeOK
      <3>. QED  BY <1>1, <2>2, <3>1 DEF StepInv, Goto, Current
    <2>3. CASE LookupExpired /\ Goto("cancelHold")
      BY <1>1, <2>3
      DEF LookupExpired, HasHtlcs, Running, Release, StepInv, Goto, Current, ln, IInv, TypeOK,
          InvoiceStates
    <2>4. CASE \E at \in Steps \ {"refunded", "cancelHold"} : Goto(at)
      BY <1>1, <2>4 DEF StepInv, Goto
    <2>. QED  BY <2>1, <2>2, <2>3, <2>4, HandlerSteps
  <1>. QED  BY <1>2, <1>3, <1>4, <1>5, <1>6 DEF IInv

(* A crash forgets every event and every handler; what else is left.       *)
LEMMA RestSafe ==
  ASSUME IInv, TypeOK', Grows,
         \/ Restart \/ MineBlock
         \/ \E S \in SUBSET Swaps : ReadMempoolSwaps(S)
         \/ \E s \in Swaps, n \in Outs : MineLockup(s, n) \/ LoseNews(s, n)
  PROVE  IInv'
  <1>1. CASE Restart
    <2>1. QueueInv' /\ StepInv' /\ HandlerInv'
      BY <1>1 DEF Restart, QueueInv, StepInv, HandlerInv
    <2>. QED  BY <1>1, <2>1, ChainStays, SettledStays, RefundedStays
              DEF Restart, IInv, db, ln, chain
  <1>2. CASE \/ MineBlock \/ \E S \in SUBSET Swaps : ReadMempoolSwaps(S)
             \/ \E s \in Swaps, n \in Outs : MineLockup(s, n) \/ LoseNews(s, n)
    <2>1. UNCHANGED <<status, hold, holdHandler, feeHandler, queue, step, spend, sent>>
      BY <1>2 DEF MineBlock, ReadMempoolSwaps, MineLockup, LoseNews, db, ln, subs, lock, chain
    <2>2. ChainInv'
      <3>1. ASSUME NEW t \in Swaps, NEW k \in Outs, k \in mined'[t]
            PROVE  k <= sent[t]
        <4>1. CASE UNCHANGED mined
          BY <3>1, <4>1 DEF IInv, ChainInv
        <4>2. ASSUME NEW s \in Swaps, NEW n \in Outs, MineLockup(s, n)
              PROVE  k <= sent[t]
          BY <3>1, <4>2 DEF MineLockup, IInv, TypeOK, ChainInv
        <4>. QED  BY <1>2, <4>1, <4>2 DEF MineBlock, ReadMempoolSwaps, LoseNews, chain
      <3>. QED  BY <2>1, <3>1 DEF IInv, ChainInv
    <2>. QED  BY <2>1, <2>2, QueueStays, StepStays, HandlerStays, SettledStays,
                 RefundedStays DEF IInv
  <1>. QED  BY <1>1, <1>2

(* The invariant that every step keeps.                                    *)
THEOREM Inductive == Spec => []IInv
  <1>1. Init => IInv
    <2>. SUFFICES ASSUME Init PROVE IInv
      OBVIOUS
    <2>1. TypeOK
      BY InitType
    <2>2. QueueInv /\ StepInv /\ HandlerInv /\ ChainInv
      BY DEF Init, QueueInv, StepInv, HandlerInv, ChainInv
    <2>3. SettledImpliesClaimed /\ RefundedRowHasRefund
      BY DEF Init, SettledImpliesClaimed, RefundedRowHasRefund
    <2>. QED  BY <2>1, <2>2, <2>3 DEF IInv
  <1>2. IInv /\ TypeOK' /\ [Next]_vars => IInv'
    <2>. SUFFICES ASSUME IInv, TypeOK', [Next]_vars PROVE IInv'
      OBVIOUS
    <2>1. CASE Next
      <3>1. Grows
        BY <2>1, NextGrows DEF IInv
      <3>. QED  BY <2>1, <3>1, EnvironmentSafe, LightningSafe, NurseriesSafe, HandlerSafe,
                   RestSafe DEF Next, Faults
    <2>2. CASE UNCHANGED vars
      BY <2>2 DEF vars, db, ln, subs, lock, chain, zmq, env, IInv, QueueInv, JobOK, StepInv,
                  Current, HandlerInv, ChainInv, SettledImpliesClaimed, RefundedRowHasRefund
    <2>. QED  BY <2>1, <2>2
  <1>. QED  BY <1>1, <1>2, TypeCorrect, PTL DEF Spec

(* The Lightning payment is taken only after the user took the coins.      *)
THEOREM SettledOnlyIfClaimed == Spec => []SettledImpliesClaimed
  BY Inductive, PTL DEF IInv

(* A row that says the coins were refunded is backed by a refund.          *)
THEOREM RefundedOnlyIfRefunded == Spec => []RefundedRowHasRefund
  BY Inductive, PTL DEF IInv

-----------------------------------------------------------------------------
(* Reverse swaps keep the promise of Payout                                *)

(* How the promise reads each variable.                                    *)
LEMMA SamePayment == UNCHANGED hold => UNCHANGED payment
  BY DEF payment, PaymentOf

(* The coins of the promise are the lockups and what spends them.          *)
LEMMA SameCoins == UNCHANGED <<sent, spend>> => UNCHANGED coins
  BY DEF coins, Coins

(* Its expiry is the height of the chain.                                  *)
LEMMA SameExpired == UNCHANGED height => UNCHANGED expired
  BY DEF expired

(* Events that are appended do not make a failure, and none is forgotten.  *)
LEMMA SameFailed ==
  ASSUME TypeOK, StepInv, UNCHANGED step,
         UNCHANGED queue \/ \E j \in Jobs : queue' = Append(queue, j)
  PROVE  UNCHANGED failed
  <1>1. ASSUME NEW s \in Swaps PROVE PayoutFailed(s)' = PayoutFailed(s)
    <2>1. CASE queue = << >>
      BY <2>1 DEF StepInv, PayoutFailed, Running
    <2>2. CASE queue # << >>
      <3>1. queue' # << >> /\ Head(queue') = Head(queue)
        BY <2>2, AppendFacts DEF TypeOK
      <3>. QED  BY <2>2, <3>1 DEF PayoutFailed, Running, Current
    <2>. QED  BY <2>1, <2>2
  <1>. QED  BY <1>1, Zenon DEF failed

(* A hold invoice that changes changes the payment of its swap only.       *)
LEMMA PaymentOfOne ==
  ASSUME TypeOK, NEW s \in Swaps, NEW state \in InvoiceStates,
         hold' = [hold EXCEPT ![s] = state]
  PROVE  payment' = [payment EXCEPT ![s] =
           IF state = "OPEN" THEN "open" ELSE
           IF state = "ACCEPTED" THEN "held" ELSE
           IF state = "SETTLED" THEN "settled" ELSE "returned"]
  BY DEF TypeOK, payment, PaymentOf

(* The same for a transaction that spends a lockup.                        *)
LEMMA CoinsOfOne ==
  ASSUME TypeOK, ChainInv, NEW s \in Swaps, NEW n \in Outs, NEW by \in {"claim", "refund"},
         spend' = [spend EXCEPT ![s][n] = by], UNCHANGED sent
  PROVE  coins' = [coins EXCEPT ![s][n] = IF by = "claim" THEN "claimed" ELSE "refunded"]
  <1>1. ASSUME NEW t \in Swaps, NEW k \in Outs
        PROVE  Coins(t, k)' = IF t = s /\ k = n
                              THEN IF by = "claim" THEN "claimed" ELSE "refunded"
                              ELSE Coins(t, k)
    <2>1. spend \in [Swaps -> [Outs -> {"none", "claim", "refund"}]]
      BY DEF TypeOK
    <2>2. CASE t = s /\ k = n
      BY <2>1, <2>2 DEF Coins
    <2>3. CASE t # s \/ k # n
      <3>1. spend'[t][k] = spend[t][k]
        BY <2>1, <2>3
      <3>. QED  BY <2>3, <3>1 DEF Coins
    <2>. QED  BY <2>2, <2>3
  <1>. QED  BY <1>1, ZenonT(60) DEF coins

(* A step, or no step, of the promise.                                     *)
Kept == [Promise!Next]_(Promise!vars)

(* Nothing is paid, sent or failed at first.                               *)
LEMMA InitKept == Init => Promise!Init
  <1>. SUFFICES ASSUME Init PROVE Promise!Init
    OBVIOUS
  <1>1. payment = [s \in Swaps |-> "open"]
    BY DEF Init, payment, PaymentOf
  <1>2. coins = [s \in Swaps |-> [n \in Outs |-> "none"]]
    <2>1. \A s \in Swaps, n \in Outs : Coins(s, n) = "none"
      BY DEF Init, Coins, Outs
    <2>. QED  BY <2>1 DEF coins
  <1>3. expired \in [Swaps -> BOOLEAN]
    BY DEF expired
  <1>4. failed = [s \in Swaps |-> FALSE]
    BY DEF Init, failed, PayoutFailed, Running
  <1>. QED  BY <1>1, <1>2, <1>3, <1>4 DEF Promise!Init

(* The promise does not see databases, filters, queues and subscriptions.  *)
LEMMA Stutters ==
  ASSUME UNCHANGED <<hold, sent, spend, height>>, UNCHANGED failed
  PROVE  Kept
  BY SamePayment, SameCoins, SameExpired DEF Kept, Promise!vars

(* Users pay and claim, and LND cancels what was not paid.                 *)
LEMMA EnvironmentKept ==
  ASSUME IInv, NEW s \in Swaps, Environment(s)
  PROVE  Kept
  <1>1. UNCHANGED failed /\ UNCHANGED expired
    BY SameFailed, SameExpired
    DEF IInv, Environment, PayHold, PayFee, ExpireInvoices, LndCancelsHold, LndCancelsFee,
        UserClaims, lock, chain
  <1>2. CASE PayHold(s)
    <2>1. payment[s] = "open" /\ payment' = [payment EXCEPT ![s] = "held"]
      BY <1>2, PaymentOfOne DEF PayHold, IInv, InvoiceStates, payment, PaymentOf
    <2>2. UNCHANGED coins
      BY <1>2, SameCoins DEF PayHold, chain
    <2>. QED  BY <1>1, <2>1, <2>2 DEF Kept, Promise!Next, Promise!Pay
  <1>3. CASE LndCancelsHold(s)
    <2>1. payment[s] = "open" /\ payment' = [payment EXCEPT ![s] = "returned"]
      BY <1>3, PaymentOfOne DEF LndCancelsHold, IInv, InvoiceStates, payment, PaymentOf
    <2>2. UNCHANGED coins
      BY <1>3, SameCoins DEF LndCancelsHold, chain
    <2>3. failed' = [failed EXCEPT ![s] = FALSE]
      <3>1. failed[s] = FALSE
        <4>1. queue # << >> => JobOK(Head(queue))
          BY HeadFacts DEF IInv, TypeOK, QueueInv
        <4>. QED  BY <1>3, <4>1 DEF LndCancelsHold, failed, PayoutFailed, Running, JobOK, Current
      <3>. QED  BY <1>1, <3>1 DEF failed
    <2>. QED  BY <1>1, <2>1, <2>2, <2>3 DEF Kept, Promise!Next, Promise!Return
  <1>4. ASSUME NEW n \in Outs, UserClaims(s, n) PROVE Kept
    <2>1. coins[s][n] = "locked"
      BY <1>4 DEF UserClaims, coins, Coins
    <2>2. coins' = [coins EXCEPT ![s][n] = "claimed"]
      BY <1>4, CoinsOfOne DEF UserClaims, IInv
    <2>3. UNCHANGED payment
      BY <1>4, SamePayment DEF UserClaims, ln
    <2>. QED  BY <1>1, <2>1, <2>2, <2>3 DEF Kept, Promise!Next, Promise!Claim
  <1>5. CASE PayFee(s) \/ ExpireInvoices(s) \/ LndCancelsFee(s)
    BY <1>1, <1>5, Stutters DEF PayFee, ExpireInvoices, LndCancelsFee, chain
  <1>. QED  BY <1>2, <1>3, <1>4, <1>5 DEF Environment

(* Detecting events is no step of the promise.                             *)
LEMMA DetectionKept ==
  ASSUME IInv, NEW s \in Swaps, Lightning(s) \/ Nurseries(s)
  PROVE  Kept
  <1>1. UNCHANGED <<hold, sent, spend, height, step>>
    BY DEF Lightning, OnHoldAccepted, OnFeeAccepted, FeeSetStatus, FeeLookup, HoldSettlesFee,
           FeeSettlesFee, Nurseries, CheckExpiredInvoices, ReverseSwapLockupConfirmed,
           CheckExpiredReverseSwaps, CheckReverseSwapClaims, ln, lock, chain
  <1>2. UNCHANGED queue \/ \E j \in Jobs : queue' = Append(queue, j)
    <2>1. \A kind \in Kinds, n \in 0..MaxLockups :
            Enqueue(kind, s, n) => \E j \in Jobs : queue' = Append(queue, j)
      <3>1. \A kind \in Kinds, n \in 0..MaxLockups :
              [kind |-> kind, swap |-> s, out |-> n] \in Jobs
        BY DEF Jobs
      <3>. QED  BY <3>1 DEF Enqueue
    <2>2. txOut[s] \in 0..MaxLockups /\ 0 \in 0..MaxLockups /\ Outs \subseteq 0..MaxLockups
      BY BoundsAssumption DEF IInv, TypeOK, Outs
    <2>3. CASE Lightning(s)
      BY <2>1, <2>2, <2>3
      DEF Lightning, OnHoldAccepted, OnFeeAccepted, FeeSetStatus, FeeLookup, HoldSettlesFee,
          FeeSettlesFee, EmitPaid, Kinds, lock
    <2>4. CASE Nurseries(s)
      BY <2>1, <2>2, <2>4
      DEF Nurseries, CheckExpiredInvoices, ReverseSwapLockupConfirmed,
          CheckExpiredReverseSwaps, CheckReverseSwapClaims, Kinds, lock
    <2>. QED  BY <2>3, <2>4
  <1>. QED  BY <1>1, <1>2, SameFailed, Stutters DEF IInv

(* Coins are locked for a payment that was made, a lockup is refunded when *)
(* it is unspent and late, and a payment is settled against a claim.       *)
LEMMA HandlerKept ==
  ASSUME IInv, Handler \/ SendFails \/ SettleFails
  PROVE  Kept
  <1>. DEFINE out == Head(queue).out
  <1>1. queue # << >> /\ Current \in Swaps /\ JobOK(Head(queue))
    <2>1. queue # << >>
      BY HandlerSteps
    <2>2. Head(queue) = queue[1] /\ 1 \in 1..Len(queue)
      BY <2>1, HeadFacts DEF IInv, TypeOK
    <2>. QED  BY <2>1, <2>2, LockType DEF IInv, QueueInv
  <1>2. \A at \in Steps \ {"sendFailed"} :
          step # "sendFailed" /\ (Release \/ Goto(at)) => UNCHANGED failed
    BY DEF Release, Goto, failed, PayoutFailed, Running
  <1>3. CASE SendToAddress
    <2>. DEFINE n == sent[Current] + 1
    <2>1. UNCHANGED failed /\ UNCHANGED payment /\ UNCHANGED expired
      BY <1>2, <1>3, SamePayment, SameExpired DEF SendToAddress, Running, Steps, ln
    <2>2. n \in Outs /\ n > sent[Current]
      BY <1>1, <1>3, BoundsAssumption DEF SendToAddress, IInv, TypeOK, Outs
    <2>3. spend[Current][n] = "none"
      BY <1>1, <2>2, BoundsAssumption DEF IInv, ChainInv, TypeOK
    <2>4. payment[Current] # "open"
      BY <1>1, <1>3 DEF SendToAddress, Running, JobOK, Current, payment, PaymentOf
    <2>5. coins[Current][n] = "none"
      BY <1>1, <2>2, <2>3, BoundsAssumption DEF coins, Coins, IInv, TypeOK
    <2>6. coins' = [coins EXCEPT ![Current][n] = "locked"]
      <3>1. ASSUME NEW t \in Swaps, NEW k \in Outs
            PROVE  Coins(t, k)' = IF t = Current /\ k = n THEN "locked" ELSE Coins(t, k)
        <4>1. UNCHANGED spend /\ sent' = [sent EXCEPT ![Current] = n]
          BY <1>3 DEF SendToAddress
        <4>2. k \in Int /\ sent[t] \in Int
          BY BoundsAssumption DEF Outs, IInv, TypeOK
        <4>3. CASE t # Current
          BY <4>1, <4>3 DEF Coins, IInv, TypeOK
        <4>4. CASE t = Current
          <5>1. sent'[t] = sent[t] + 1 /\ n = sent[t] + 1
            BY <1>1, <4>1, <4>4 DEF IInv, TypeOK
          <5>2. k <= sent'[t] <=> (k <= sent[t] \/ k = n)
            BY <4>2, <5>1
          <5>. QED  BY <2>3, <4>1, <4>2, <4>4, <5>1, <5>2 DEF Coins
        <4>. QED  BY <4>3, <4>4
      <3>. QED  BY <3>1 DEF coins
    <2>. QED  BY <1>1, <2>1, <2>2, <2>4, <2>5, <2>6 DEF Kept, Promise!Next, Promise!Lock
  <1>4. CASE RefundUtxo
    <2>1. UNCHANGED failed /\ UNCHANGED payment /\ UNCHANGED expired
      BY <1>2, <1>4, SamePayment, SameExpired DEF RefundUtxo, Running, Steps, ln
    <2>2. CASE UNCHANGED spend
      BY <1>4, <2>1, <2>2, Stutters DEF RefundUtxo, ln
    <2>3. CASE RefundAccepted(Current, out) /\ spend' = [spend EXCEPT ![Current][out] = "refund"]
      <3>1. out \in Outs
        BY <1>1, <2>3 DEF RefundAccepted, IInv, TypeOK
      <3>2. coins[Current][out] = "locked"
        BY <1>1, <2>3, <3>1 DEF RefundAccepted, IInv, ChainInv, coins, Coins
      <3>3. expired[Current]
        BY <1>1, <2>3 DEF RefundAccepted, expired
      <3>4. coins' = [coins EXCEPT ![Current][out] = "refunded"]
        BY <1>1, <1>4, <2>3, <3>1, CoinsOfOne DEF RefundUtxo, IInv
      <3>. QED  BY <1>1, <2>1, <3>1, <3>2, <3>3, <3>4 DEF Kept, Promise!Next, Promise!Refund
    <2>. QED  BY <1>4, <2>2, <2>3 DEF RefundUtxo
  <1>5. CASE SettleInvoice
    <2>1. UNCHANGED failed /\ UNCHANGED coins /\ UNCHANGED expired
      BY <1>2, <1>5, SameCoins, SameExpired DEF SettleInvoice, Running, Steps, chain
    <2>2. CASE UNCHANGED hold
      BY <2>1, <2>2, SamePayment DEF Kept, Promise!vars
    <2>3. CASE hold[Current] = "SETTLED" /\ hold' = [hold EXCEPT ![Current] = "SETTLED"]
      <3>1. UNCHANGED hold
        BY <2>3 DEF IInv, TypeOK
      <3>. QED  BY <2>2, <3>1
    <2>4. CASE hold[Current] = "ACCEPTED" /\ hold' = [hold EXCEPT ![Current] = "SETTLED"]
      <3>1. payment[Current] = "held" /\ payment' = [payment EXCEPT ![Current] = "settled"]
        BY <1>1, <2>4, PaymentOfOne DEF IInv, InvoiceStates, payment, PaymentOf
      <3>2. out \in Outs /\ spend[Current][out] = "claim"
        BY <1>1, <1>5 DEF SettleInvoice, Running, JobOK, Current
      <3>3. coins[Current][out] = "claimed"
        BY <1>1, <3>2 DEF coins, Coins
      <3>. QED  BY <1>1, <2>1, <3>1, <3>2, <3>3 DEF Kept, Promise!Next, Promise!Settle
    <2>. QED  BY <1>5, <2>2, <2>3, <2>4 DEF SettleInvoice, CanSettle
  <1>6. ASSUME ~SendFails PROVE failed' = [s \in Swaps |-> FALSE]
    <2>1. step' # "sendFailed"
      BY <1>6
      DEF Handler, SettleFails, SendToAddress, AddFilters, SetLockupTransaction,
          CancelAfterFailure, SetTransactionFailed, SettleInvoice, SetInvoiceSettled,
          QueryExpired, SetSwapExpired, RefundUtxo, SetTransactionRefunded, CancelHold,
          CancelFee, LookupExpired, CancelExpiredHold, CancelExpiredFee, SetInvoiceExpired,
          Release, Goto
    <2>. QED  BY <2>1 DEF failed, PayoutFailed, Running
  <1>7. [failed EXCEPT ![Current] = FALSE] = [s \in Swaps |-> FALSE]
    BY DEF failed, PayoutFailed
  <1>8. ASSUME CanCancel(hold[Current]), hold' = [hold EXCEPT ![Current] = "CANCELED"],
               UNCHANGED chain, ~SendFails,
               hold[Current] = "ACCEPTED" => expired[Current] \/ failed[Current]
        PROVE  Kept
    <2>1. UNCHANGED coins /\ UNCHANGED expired
      BY <1>8, SameCoins, SameExpired DEF chain
    <2>2. payment' = [payment EXCEPT ![Current] = "returned"]
      BY <1>1, <1>8, PaymentOfOne DEF IInv, InvoiceStates
    <2>3. CASE hold[Current] \in {"OPEN", "ACCEPTED"}
      <3>1. payment[Current] = "open" \/
            (payment[Current] = "held" /\ (expired[Current] \/ failed[Current]))
        BY <1>1, <1>8, <2>3 DEF payment, PaymentOf
      <3>. QED  BY <1>1, <1>6, <1>7, <1>8, <2>1, <2>2, <3>1 DEF Kept, Promise!Next, Promise!Return
    <2>4. CASE hold[Current] = "CANCELED"
      <3>1. UNCHANGED hold
        BY <1>8, <2>4 DEF IInv, TypeOK
      <3>. QED  BY <1>6, <1>8, <2>1, <3>1, SamePayment DEF Kept, Promise!Next, Promise!Forget
    <2>. QED  BY <1>1, <1>8, <2>3, <2>4 DEF CanCancel, IInv, TypeOK, InvoiceStates
  <1>9. ASSUME UNCHANGED <<hold, chain>>, ~SendFails PROVE Kept
    BY <1>6, <1>9, SamePayment, SameCoins, SameExpired
    DEF Kept, Promise!Next, Promise!Forget, chain
  <1>10. CASE CancelAfterFailure
    <2>1. failed[Current]
      BY <1>1, <1>10 DEF CancelAfterFailure, failed, PayoutFailed
    <2>2. ~SendFails
      BY <1>10 DEF CancelAfterFailure, SendFails, Running
    <2>. QED  BY <1>8, <1>9, <1>10, <2>1, <2>2 DEF CancelAfterFailure
  <1>11. CASE CancelHold
    <2>1. expired[Current]
      BY <1>1, <1>11 DEF CancelHold, Running, JobOK, expired, Current
    <2>2. ~SendFails
      BY <1>11 DEF CancelHold, SendFails, Running
    <2>. QED  BY <1>8, <1>9, <1>11, <2>1, <2>2 DEF CancelHold
  <1>12. CASE CancelExpiredHold
    <2>1. hold[Current] \in {"OPEN", "CANCELED"}
      BY <1>12 DEF CancelExpiredHold, Running, IInv, StepInv
    <2>2. ~SendFails
      BY <1>12 DEF CancelExpiredHold, SendFails, Running
    <2>. QED  BY <1>8, <1>12, <2>1, <2>2 DEF CancelExpiredHold, CanCancel
  <1>13. CASE SendFails
    <2>1. failed' = [failed EXCEPT ![Current] = TRUE]
      BY <1>1, <1>13 DEF SendFails, Running, Goto, failed, PayoutFailed, Current
    <2>. QED  BY <1>1, <1>13, <2>1, SamePayment, SameCoins, SameExpired
              DEF SendFails, Kept, Promise!Next, Promise!Fail, ln, chain
  <1>14. CASE \/ AddFilters \/ SetLockupTransaction \/ SetTransactionFailed
              \/ SetInvoiceSettled \/ QueryExpired \/ SetSwapExpired
              \/ SetTransactionRefunded \/ CancelFee \/ LookupExpired \/ CancelExpiredFee
              \/ SetInvoiceExpired \/ SettleFails
    BY <1>9, <1>13, <1>14
    DEF AddFilters, SetLockupTransaction, SetTransactionFailed, SetInvoiceSettled,
        QueryExpired, SetSwapExpired, SetTransactionRefunded, CancelFee, LookupExpired,
        CancelExpiredFee, SetInvoiceExpired, SettleFails, ln
  <1>. QED  BY <1>3, <1>4, <1>5, <1>10, <1>11, <1>12, <1>13, <1>14 DEF Handler

(* Blocks and crashes.                                                     *)
LEMMA RestKept ==
  ASSUME IInv,
         \/ Restart \/ MineBlock
         \/ \E S \in SUBSET Swaps : ReadMempoolSwaps(S)
         \/ \E s \in Swaps, n \in Outs : MineLockup(s, n) \/ LoseNews(s, n)
  PROVE  Kept
  <1>1. CASE Restart
    <2>1. failed' = [s \in Swaps |-> FALSE]
      BY <1>1 DEF Restart, failed, PayoutFailed, Running
    <2>. QED  BY <1>1, <2>1, SamePayment, SameCoins, SameExpired
              DEF Restart, Kept, Promise!Next, Promise!Forget, ln, chain
  <1>2. CASE MineBlock
    <2>1. UNCHANGED payment /\ UNCHANGED coins /\ UNCHANGED failed
      BY <1>2, SamePayment, SameCoins, SameFailed DEF MineBlock, IInv, ln, lock
    <2>2. expired' \in [Swaps -> BOOLEAN] /\ \A s \in Swaps : expired[s] => expired'[s]
      BY <1>2, BoundsAssumption DEF MineBlock, expired, IInv, TypeOK
    <2>. QED  BY <2>1, <2>2 DEF Kept, Promise!Next, Promise!Expire
  <1>3. CASE \/ \E S \in SUBSET Swaps : ReadMempoolSwaps(S)
             \/ \E s \in Swaps, n \in Outs : MineLockup(s, n) \/ LoseNews(s, n)
    BY <1>3, Stutters, SameFailed
    DEF ReadMempoolSwaps, MineLockup, LoseNews, IInv, ln, lock, chain
  <1>. QED  BY <1>1, <1>2, <1>3

(* Reverse swaps implement Payout: whatever the order of events, crashes   *)
(* and failures, a payment is taken only against claimed coins and given   *)
(* back only when nothing is owed for it any more.                         *)
THEOREM ImplementsPromise == Spec => KeepsPromise
  <1>1. IInv /\ [Next]_vars => Kept
    <2>. SUFFICES ASSUME IInv, [Next]_vars PROVE Kept
      OBVIOUS
    <2>1. CASE Next
      BY <2>1, EnvironmentKept, DetectionKept, HandlerKept, RestKept DEF Next, Faults
    <2>2. CASE UNCHANGED vars
      BY <2>2, Stutters, SameFailed DEF vars, ln, lock, chain, IInv
    <2>. QED  BY <2>1, <2>2
  <1>2. IInv /\ [Next]_vars => [Promise!Next]_(Promise!vars)
    BY <1>1 DEF Kept
  <1>. QED  BY <1>2, InitKept, Inductive, PTL DEF Spec, KeepsPromise, Promise!Spec

=============================================================================
