------------------------ MODULE SubmarineSwap_proofs ------------------------
(***************************************************************************)
(* Theorems of SubmarineSwap for every set of swaps, timeout heights and   *)
(* bounds.                                                                 *)
(***************************************************************************)
EXTENDS SubmarineSwap, Integers, TLAPS

-----------------------------------------------------------------------------
(* Facts about the queue and about the two workers *)

(* Appending a job keeps those that wait, and the running one.             *)
LEMMA AppendFacts ==
  ASSUME NEW q \in Seq(Jobs), NEW j \in Jobs
  PROVE  /\ Append(q, j) \in Seq(Jobs)
         /\ \A i \in 1..Len(Append(q, j)) :
              Append(q, j)[i] = j \/ (i \in 1..Len(q) /\ Append(q, j)[i] = q[i])
         /\ Append(q, j) # << >>
         /\ q # << >> => Head(Append(q, j)) = Head(q)
  OBVIOUS

(* Removing the running job leaves those that wait.                        *)
LEMMA TailFacts ==
  ASSUME NEW q \in Seq(Jobs), q # << >>
  PROVE  /\ Tail(q) \in Seq(Jobs)
         /\ \A i \in 1..Len(Tail(q)) : i + 1 \in 1..Len(q) /\ Tail(q)[i] = q[i + 1]
  OBVIOUS

(* The running job is one of the queue.                                    *)
LEMMA HeadFacts ==
  ASSUME NEW q \in Seq(Jobs), q # << >>
  PROVE  1 \in 1..Len(q) /\ Head(q) = q[1] /\ Head(q) \in Jobs
  OBVIOUS

(* Events of the nurseries are jobs, and so are rounds of the retry loop.  *)
LEMMA JobFacts ==
  /\ Retry \in Jobs
  /\ \A k \in Kinds, s \in Swaps, i \in BOOLEAN :
       /\ [kind |-> k, swap |-> s, invoice |-> i] \in Jobs
       /\ [kind |-> k, swap |-> s, invoice |-> i] # Retry
  BY DEF Jobs, Retry, Kinds

(* A step of one worker leaves every other worker where it is.             *)
LEMMA GoOnFacts ==
  ASSUME TypeOK, NEW s \in Swaps, NEW w \in Workers, NEW at \in ClaimSteps, GoOn(s, w, at)
  PROVE  /\ claim' \in [Swaps -> [Workers -> ClaimSteps]]
         /\ \A t \in Swaps : \A v \in Workers :
              claim'[t][v] = IF t = s /\ v = w THEN at ELSE claim[t][v]
  <1>1. claim[s] \in [Workers -> ClaimSteps]
    BY DEF TypeOK
  <1>. QED  BY <1>1 DEF TypeOK, GoOn

(* The answer of LND moves the workers that wait for it, and no others.    *)
LEMMA TellFacts ==
  ASSUME TypeOK, NEW s \in Swaps, NEW result \in ClaimSteps, Tell(s, result)
  PROVE  /\ claim' \in [Swaps -> [Workers -> ClaimSteps]]
         /\ \A t \in Swaps : \A v \in Workers :
              claim'[t][v] = IF t = s /\ claim[t][v] = "waiting" THEN result ELSE claim[t][v]
  <1>1. claim[s] \in [Workers -> ClaimSteps]
    BY DEF TypeOK
  <1>. QED  BY <1>1 DEF TypeOK, Tell

(* What the lock does to the queue is well typed.                          *)
LEMMA LockType ==
  ASSUME TypeOK
  PROVE  /\ \A k \in Kinds, s \in Swaps, i \in BOOLEAN : Enqueue(k, s, i) => queue' \in Seq(Jobs)
         /\ queue # << >> /\ Release =>
              queue' \in Seq(Jobs) /\ step' \in Steps /\ retrying' \subseteq Swaps
  <1>1. ASSUME NEW k \in Kinds, NEW s \in Swaps, NEW i \in BOOLEAN, Enqueue(k, s, i)
        PROVE  queue' \in Seq(Jobs)
    BY <1>1, JobFacts, AppendFacts DEF TypeOK, Enqueue
  <1>2. ASSUME queue # << >>, Release
        PROVE  queue' \in Seq(Jobs) /\ step' \in Steps /\ retrying' \subseteq Swaps
    BY <1>2, TailFacts DEF TypeOK, Release, Steps
  <1>. QED  BY <1>1, <1>2

-----------------------------------------------------------------------------
(* Types.  A worker that gives the lock back holds it, so LockInv is used. *)

(* The initial state is well typed.                                        *)
LEMMA InitType == Init => TypeOK
  BY BoundsAssumption
  DEF Init, TypeOK, Statuses, Steps, Jobs, Checks, Calls, NoCheck, NoCall, NoClaim,
      Workers, ClaimSteps

(* Steps of users, LND and the chain.                                      *)
LEMMA EnvironmentType ==
  ASSUME TypeOK, LockInv, NEW s \in Swaps, Environment(s)
  PROVE  TypeOK'
  <1>1. CASE UserLocks(s)
    BY <1>1 DEF TypeOK, UserLocks, row, ln, zmq, lock, env
  <1>2. CASE UserRefunds(s)
    BY <1>2 DEF TypeOK, UserRefunds, row, ln, zmq, lock, env
  <1>3. CASE MineLockup(s)
    BY <1>3 DEF TypeOK, MineLockup, row, ln, zmq, lock, env
  <1>4. CASE ExpireInvoice(s)
    BY <1>4 DEF TypeOK, ExpireInvoice, row, chain, zmq, lock, env
  <1>5. CASE PaymentSucceeds(s)
    <2>1. claim' \in [Swaps -> [Workers -> ClaimSteps]]
      BY <1>5, TellFacts DEF PaymentSucceeds, ClaimSteps
    <2>. QED  BY <1>5, <2>1 DEF TypeOK, PaymentSucceeds, row, chain, zmq, lock, env
  <1>6. CASE PaymentRejected(s)
    <2>1. claim' \in [Swaps -> [Workers -> ClaimSteps]]
      BY <1>6, TellFacts DEF PaymentRejected, ClaimSteps
    <2>. QED  BY <1>6, <2>1 DEF TypeOK, PaymentRejected, row, chain, zmq, lock, env
  <1>7. CASE PaymentFails(s)
    <2>1. claim' \in [Swaps -> [Workers -> ClaimSteps]]
      BY <1>7, TellFacts DEF PaymentFails, ClaimSteps
    <2>2. queue' \in Seq(Jobs) /\ step' \in Steps /\ retrying' \subseteq Swaps
      <3>1. CASE claim[s]["lock"] = "waiting" /\ Release
        BY <3>1, LockType DEF LockInv, Active
      <3>2. CASE UNCHANGED lock
        BY <3>2 DEF TypeOK, lock
      <3>. QED  BY <1>7, <3>1, <3>2 DEF PaymentFails
    <2>3. faults' \in 0..MaxFaults
      BY <1>7, BoundsAssumption DEF PaymentFails, TypeOK
    <2>. QED  BY <1>7, <2>1, <2>2, <2>3 DEF TypeOK, PaymentFails, row, chain, zmq
  <1>. QED  BY <1>1, <1>2, <1>3, <1>4, <1>5, <1>6, <1>7 DEF Environment

(* What the nursery is doing with a lockup is well typed.                  *)
LEMMA CheckType ==
  ASSUME TypeOK, NEW s \in Swaps, NEW c \in BOOLEAN, NEW r \in Checks
  PROVE  [check EXCEPT ![s][c] = r] \in [Swaps -> [BOOLEAN -> Checks]]
  <1>1. check[s] \in [BOOLEAN -> Checks]
    BY DEF TypeOK
  <1>. QED  BY <1>1 DEF TypeOK

(* Steps of UtxoNursery.                                                   *)
LEMMA NurseryType ==
  ASSUME TypeOK, NEW s \in Swaps, Nursery(s)
  PROVE  TypeOK'
  <1>0. NoCheck \in Checks
    BY DEF NoCheck, Checks
  <1>1. CASE CheckSwapOutputs(s)
    <2>1. news' \in [Swaps -> 0..2]
      <3>1. news[s] \in 0..2 /\ news[s] < 2
        BY <1>1 DEF TypeOK, CheckSwapOutputs, NextNews
      <3>2. news[s] + 1 \in 0..2
        BY <3>1
      <3>. QED  BY <1>1, <3>2 DEF TypeOK, CheckSwapOutputs
    <2>2. known' \in [Swaps -> BOOLEAN]
      BY <1>1 DEF TypeOK, CheckSwapOutputs
    <2>3. check' \in [Swaps -> [BOOLEAN -> Checks]]
      <3>1. known[s] \in BOOLEAN /\ mined[s] \in BOOLEAN /\ invoice[s] \in BOOLEAN
            /\ zeroConf[s] \in BOOLEAN
        BY DEF TypeOK
      <3>2. [at |-> "read", invoice |-> invoice[s], zeroConf |-> zeroConf[s]] \in Checks
        BY <3>1 DEF Checks
      <3>3. (known[s] \/ mined[s]) \in BOOLEAN
        BY <3>1
      <3>4. \/ UNCHANGED check
            \/ check' = [check EXCEPT ![s][known[s] \/ mined[s]] =
                 [at |-> "read", invoice |-> invoice[s], zeroConf |-> zeroConf[s]]]
        BY <1>1 DEF CheckSwapOutputs
      <3>5. CASE UNCHANGED check
        BY <3>5 DEF TypeOK
      <3>6. CASE check' = [check EXCEPT ![s][known[s] \/ mined[s]] =
                   [at |-> "read", invoice |-> invoice[s], zeroConf |-> zeroConf[s]]]
        BY <3>2, <3>3, <3>6, CheckType
      <3>. QED  BY <3>4, <3>5, <3>6
    <2>. QED  BY <1>1, <2>1, <2>2, <2>3 DEF TypeOK, CheckSwapOutputs, row, ln, chain, lock, env
  <1>2. CASE CheckExpiredSwaps(s)
    <2>1. invoice[s] \in BOOLEAN
      BY DEF TypeOK
    <2>2. queue' \in Seq(Jobs)
      BY <1>2, <2>1, LockType DEF Kinds, CheckExpiredSwaps
    <2>. QED  BY <1>2, <2>2 DEF TypeOK, CheckExpiredSwaps, row, ln, chain, env
  <1>3. ASSUME NEW c \in BOOLEAN PROVE check[s][c].invoice \in BOOLEAN
    <2>1. check[s][c] \in Checks
      BY DEF TypeOK
    <2>. QED  BY <2>1 DEF Checks
  <1>4. CASE RejectZeroConf(s)
    <2>1. queue' \in Seq(Jobs)
      BY <1>3, <1>4, LockType DEF Kinds, RejectZeroConf
    <2>2. check' \in [Swaps -> [BOOLEAN -> Checks]]
      BY <1>0, <1>4, CheckType DEF RejectZeroConf
    <2>. QED  BY <1>4, <2>1, <2>2 DEF TypeOK, RejectZeroConf, row, ln, chain, zmq, env
  <1>5. ASSUME NEW c \in BOOLEAN, SetLockupTransaction(s, c) PROVE TypeOK'
    <2>1. check[s] \in [BOOLEAN -> Checks] /\ check[s][c] \in Checks
      BY DEF TypeOK
    <2>2. [check[s][c] EXCEPT !.at = "stored"] \in Checks
      BY <2>1 DEF Checks
    <2>3. check' = [check EXCEPT ![s][c] = [check[s][c] EXCEPT !.at = "stored"]]
      BY <1>5, <2>1 DEF SetLockupTransaction
    <2>4. check' \in [Swaps -> [BOOLEAN -> Checks]]
      BY <2>2, <2>3, CheckType
    <2>5. status' \in [Swaps -> Statuses]
      BY <1>5 DEF SetLockupTransaction, SetStatus, TypeOK, Statuses
    <2>. QED  BY <1>5, <2>4, <2>5 DEF TypeOK, SetLockupTransaction, ln, chain, zmq, lock, env
  <1>6. ASSUME NEW c \in BOOLEAN, RejectLowAmount(s, c) PROVE TypeOK'
    <2>1. queue' \in Seq(Jobs)
      BY <1>3, <1>6, LockType DEF Kinds, RejectLowAmount
    <2>2. check' \in [Swaps -> [BOOLEAN -> Checks]]
      BY <1>0, <1>6, CheckType DEF RejectLowAmount
    <2>. QED  BY <1>6, <2>1, <2>2 DEF TypeOK, RejectLowAmount, row, ln, chain, env
  <1>7. ASSUME NEW c \in BOOLEAN, AcceptLockup(s, c) PROVE TypeOK'
    <2>1. queue' \in Seq(Jobs)
      BY <1>3, <1>7, LockType DEF Kinds, AcceptLockup
    <2>2. check' \in [Swaps -> [BOOLEAN -> Checks]]
      BY <1>0, <1>7, CheckType DEF AcceptLockup
    <2>. QED  BY <1>7, <2>1, <2>2 DEF TypeOK, AcceptLockup, row, ln, chain, env
  <1>. QED  BY <1>1, <1>2, <1>4, <1>5, <1>6, <1>7 DEF Nursery

(* Steps of the API call.                                                  *)
LEMMA ApiType ==
  ASSUME TypeOK, NEW s \in Swaps, Api(s)
  PROVE  TypeOK'
  <1>1. CASE ReadSwap(s)
    <2>1. lockup[s] \in BOOLEAN /\ status[s] \in Statuses
      BY DEF TypeOK
    <2>2. [at |-> "read", lockup |-> lockup[s], status |-> status[s]] \in Calls
      BY <2>1 DEF Calls
    <2>. QED  BY <1>1, <2>2 DEF TypeOK, ReadSwap, row, ln, chain, zmq, lock, env
  <1>2. CASE SetInvoice(s)
    <2>1. NoCall \in Calls
      BY DEF NoCall, Calls, Statuses
    <2>2. claim' \in [Swaps -> [Workers -> ClaimSteps]]
      <3>1. CASE UNCHANGED claim
        BY <3>1 DEF TypeOK
      <3>2. CASE GoOn(s, "api", "start")
        BY <3>2, GoOnFacts DEF Workers, ClaimSteps
      <3>. QED  BY <1>2, <3>1, <3>2 DEF SetInvoice, GoOn
    <2>3. status' \in [Swaps -> Statuses]
      BY <1>2 DEF SetInvoice, SetStatus, TypeOK, Statuses
    <2>4. zeroConf' \in [Swaps -> BOOLEAN]
      BY <1>2 DEF SetInvoice, TypeOK
    <2>. QED  BY <1>2, <2>1, <2>2, <2>3, <2>4
              DEF TypeOK, SetInvoice, ln, chain, zmq, lock, env
  <1>. QED  BY <1>1, <1>2 DEF Api

(* Ending a run of claimUtxo, with or without an exception.                *)
LEMMA EndType ==
  ASSUME TypeOK, LockInv, NEW s \in Swaps, NEW w \in Workers, claim[s][w] # "idle"
  PROVE  /\ Finish(s, w) \/ Throw(s, w) =>
              queue' \in Seq(Jobs) /\ step' \in Steps /\ retrying' \subseteq Swaps
         /\ \A at \in ClaimSteps : GoOn(s, w, at) => claim' \in [Swaps -> [Workers -> ClaimSteps]]
         /\ Finish(s, w) \/ Throw(s, w) => claim' \in [Swaps -> [Workers -> ClaimSteps]]
         /\ \A value \in Statuses : SetStatus(s, value) => status' \in [Swaps -> Statuses]
  <1>1. ASSUME Finish(s, w) \/ Throw(s, w)
        PROVE  queue' \in Seq(Jobs) /\ step' \in Steps /\ retrying' \subseteq Swaps
    <2>1. CASE w = "lock" /\ Release
      BY <2>1, LockType DEF LockInv, Active
    <2>2. CASE UNCHANGED lock
      BY <2>2 DEF lock, TypeOK
    <2>. QED  BY <1>1, <2>1, <2>2 DEF Finish, Throw
  <1>2. \A at \in ClaimSteps : GoOn(s, w, at) => claim' \in [Swaps -> [Workers -> ClaimSteps]]
    BY GoOnFacts
  <1>3. "idle" \in ClaimSteps
    BY DEF ClaimSteps
  <1>4. \A value \in Statuses : SetStatus(s, value) => status' \in [Swaps -> Statuses]
    BY DEF SetStatus, TypeOK
  <1>. QED  BY <1>1, <1>2, <1>3, <1>4 DEF Finish, Throw

(* Steps of claimUtxo and paySwapInvoice.                                  *)
LEMMA ClaimType ==
  ASSUME TypeOK, LockInv, NEW s \in Swaps, NEW w \in Workers,
         Claim(s, w) \/ RaceTimeout(s, w) \/ BroadcastFails(s, w)
  PROVE  TypeOK'
  <1>0. claim[s][w] # "idle"
    BY DEF Claim, SetInvoicePending, SendPayment, SentBefore, PaidBefore, InvoiceIsExpired,
           Abandon, SetInvoicePaid, Broadcast, SetMinerFee, RaceTimeout, BroadcastFails
  <1>1. CASE SetInvoicePending(s, w)
    <2>1. "InvoicePending" \in Statuses /\ "send" \in ClaimSteps
      BY DEF Statuses, ClaimSteps
    <2>. QED  BY <1>0, <1>1, <2>1, EndType
              DEF TypeOK, SetInvoicePending, ln, chain, zmq, lock, env
  <1>2. CASE SendPayment(s, w)
    <2>1. "waiting" \in ClaimSteps
      BY DEF ClaimSteps
    <2>. QED  BY <1>0, <1>2, <2>1, EndType DEF TypeOK, SendPayment, row, chain, zmq, lock, env
  <1>3. CASE SentBefore(s, w)
    BY <1>0, <1>3, EndType DEF TypeOK, SentBefore, row, ln, chain, zmq, env
  <1>4. CASE PaidBefore(s, w)
    <2>1. "paid" \in ClaimSteps
      BY DEF ClaimSteps
    <2>. QED  BY <1>0, <1>4, <2>1, EndType
              DEF TypeOK, PaidBefore, TrackPayment, row, ln, chain, zmq, lock, env
  <1>5. CASE InvoiceIsExpired(s, w)
    <2>1. "rejected" \in ClaimSteps
      BY DEF ClaimSteps
    <2>. QED  BY <1>0, <1>5, <2>1, EndType
              DEF TypeOK, InvoiceIsExpired, row, ln, chain, zmq, lock, env
  <1>6. CASE Abandon(s, w)
    <2>1. "InvoiceFailedToPay" \in Statuses
      BY DEF Statuses
    <2>. QED  BY <1>0, <1>6, <2>1, EndType DEF TypeOK, Abandon, ln, chain, zmq, env
  <1>7. CASE SetInvoicePaid(s, w)
    <2>1. "InvoicePaid" \in Statuses /\ "broadcast" \in ClaimSteps
      BY DEF Statuses, ClaimSteps
    <2>. QED  BY <1>0, <1>7, <2>1, EndType
              DEF TypeOK, SetInvoicePaid, ln, chain, zmq, lock, env
  <1>8. CASE Broadcast(s, w)
    <2>1. "record" \in ClaimSteps
      BY DEF ClaimSteps
    <2>2. CASE GoOn(s, w, "record") /\ UNCHANGED lock /\ spend' = [spend EXCEPT ![s] = "claim"]
      BY <1>0, <1>8, <2>1, <2>2, EndType
      DEF TypeOK, Broadcast, row, ln, zmq, lock, env
    <2>3. CASE Throw(s, w) /\ UNCHANGED spend
      BY <1>0, <1>8, <2>3, EndType DEF TypeOK, Broadcast, row, ln, zmq, env
    <2>. QED  BY <1>8, <2>2, <2>3 DEF Broadcast
  <1>9. CASE SetMinerFee(s, w)
    <2>1. "TransactionClaimed" \in Statuses
      BY DEF Statuses
    <2>. QED  BY <1>0, <1>9, <2>1, EndType DEF TypeOK, SetMinerFee, ln, chain, zmq, env
  <1>10. CASE RaceTimeout(s, w)
    BY <1>0, <1>10, EndType DEF TypeOK, RaceTimeout, row, ln, chain, zmq, env
  <1>11. CASE BroadcastFails(s, w)
    <2>1. faults' \in 0..MaxFaults
      BY <1>11, BoundsAssumption DEF BroadcastFails, TypeOK
    <2>. QED  BY <1>0, <1>11, <2>1, EndType DEF TypeOK, BroadcastFails, row, ln, chain, zmq
  <1>. QED  BY <1>1, <1>2, <1>3, <1>4, <1>5, <1>6, <1>7, <1>8, <1>9, <1>10, <1>11 DEF Claim

(* Steps of the listeners under swapLock.                                  *)
LEMMA HandlerType ==
  ASSUME TypeOK, NEW s \in Swaps, Handler(s)
  PROVE  TypeOK'
  <1>1. queue # << >>
    BY DEF Handler, QueryExpired, SetSwapExpired, LockupFailed, ZeroConfRejected, OnLockup, Running
  <1>2. Release => queue' \in Seq(Jobs) /\ step' \in Steps /\ retrying' \subseteq Swaps
    BY <1>1, LockType
  <1>3. \A value \in Statuses : SetStatus(s, value) => status' \in [Swaps -> Statuses]
    BY DEF SetStatus, TypeOK
  <1>4. CASE QueryExpired(s)
    <2>1. queue' \in Seq(Jobs) /\ step' \in Steps /\ retrying' \subseteq Swaps
      BY <1>2, <1>4 DEF QueryExpired, Goto, TypeOK, Steps
    <2>. QED  BY <1>4, <2>1 DEF TypeOK, QueryExpired, row, ln, chain, zmq, env
  <1>5. CASE SetSwapExpired(s)
    BY <1>2, <1>3, <1>5 DEF TypeOK, Statuses, SetSwapExpired, ln, chain, zmq, env
  <1>6. CASE LockupFailed(s)
    BY <1>2, <1>3, <1>6 DEF TypeOK, Statuses, LockupFailed, ln, chain, zmq, env
  <1>7. CASE ZeroConfRejected(s)
    BY <1>2, <1>3, <1>7 DEF TypeOK, Statuses, ZeroConfRejected, ln, chain, zmq, env
  <1>8. CASE OnLockup(s)
    <2>1. queue' \in Seq(Jobs) /\ step' \in Steps /\ retrying' \subseteq Swaps
      BY <1>2, <1>8 DEF OnLockup, Goto, TypeOK, Steps
    <2>2. claim' \in [Swaps -> [Workers -> ClaimSteps]]
      <3>1. CASE UNCHANGED claim
        BY <3>1 DEF TypeOK
      <3>2. CASE GoOn(s, "lock", "start")
        BY <3>2, GoOnFacts DEF Workers, ClaimSteps
      <3>. QED  BY <1>8, <3>1, <3>2 DEF OnLockup
    <2>. QED  BY <1>8, <2>1, <2>2 DEF TypeOK, OnLockup, row, ln, chain, zmq, env
  <1>. QED  BY <1>4, <1>5, <1>6, <1>7, <1>8 DEF Handler

(* The retry loop, blocks, and a crash with the start-up after it.         *)
LEMMA RestType ==
  ASSUME TypeOK, RetryTimer \/ RetryLoop \/ MineBlock \/ Restart
  PROVE  TypeOK'
  <1>1. CASE RetryTimer
    <2>1. queue' \in Seq(Jobs)
      BY <1>1, JobFacts, AppendFacts DEF RetryTimer, TypeOK
    <2>. QED  BY <1>1, <2>1 DEF TypeOK, RetryTimer, row, ln, chain, zmq, env
  <1>2. CASE RetryQuery
    BY <1>2 DEF TypeOK, Steps, RetryQuery, PendingInvoices, row, ln, chain, zmq, env
  <1>3. CASE RetryDone
    <2>1. queue # << >>
      BY <1>3 DEF RetryDone, LoopIdle, RunningRetry
    <2>. QED  BY <1>3, <2>1, LockType DEF TypeOK, RetryDone, row, ln, chain, zmq, env
  <1>4. ASSUME NEW s \in Swaps, RetryNext(s) PROVE TypeOK'
    <2>1. claim' \in [Swaps -> [Workers -> ClaimSteps]]
      BY <1>4, GoOnFacts DEF RetryNext, Workers, ClaimSteps
    <2>. QED  BY <1>4, <2>1 DEF TypeOK, RetryNext, row, ln, chain, zmq, env
  <1>5. CASE MineBlock
    BY <1>5, BoundsAssumption DEF TypeOK, MineBlock, row, ln, zmq, lock, env
  <1>6. CASE Restart
    <2>1. NoCheck \in Checks /\ NoCall \in Calls /\ NoClaim \in [Workers -> ClaimSteps]
      BY DEF NoCheck, Checks, NoCall, Calls, Statuses, NoClaim, ClaimSteps
    <2>2. news' \in [Swaps -> 0..2]
      BY <1>6 DEF Restart, TypeOK
    <2>3. watched' \in [Swaps -> BOOLEAN]
      BY <1>6 DEF Restart, Filtered
    <2>4. restarts' \in 0..MaxRestarts
      BY <1>6, BoundsAssumption DEF Restart, TypeOK
    <2>5. queue' \in Seq(Jobs) /\ step' \in Steps /\ retrying' \subseteq Swaps
      BY <1>6 DEF Restart, Steps
    <2>6. /\ check' \in [Swaps -> [BOOLEAN -> Checks]]
          /\ call' \in [Swaps -> Calls]
          /\ claim' \in [Swaps -> [Workers -> ClaimSteps]]
      BY <1>6, <2>1 DEF Restart
    <2>. QED  BY <1>6, <2>2, <2>3, <2>4, <2>5, <2>6 DEF TypeOK, Restart, row, ln, chain
  <1>. QED  BY <1>1, <1>2, <1>3, <1>4, <1>5, <1>6 DEF RetryLoop

(* Every step keeps the types, as long as the lock is held by whom it says.*)
LEMMA NextType == TypeOK /\ LockInv /\ [Next]_vars => TypeOK'
  <1>. SUFFICES ASSUME TypeOK, LockInv, [Next]_vars PROVE TypeOK'
    OBVIOUS
  <1>1. CASE Next
    BY <1>1, EnvironmentType, NurseryType, ApiType, ClaimType, HandlerType, RestType DEF Next
  <1>2. CASE UNCHANGED vars
    BY <1>2 DEF TypeOK, vars, row, ln, chain, zmq, lock, env
  <1>. QED  BY <1>1, <1>2

-----------------------------------------------------------------------------
(* What a step never takes back, and the parts of IInv that rest on it *)

(* Coins stay sent and their amount does not change, what is paid stays    *)
(* paid, and what is spent stays spent.                                    *)
Grows ==
  \A s \in Swaps :
    /\ sent[s] => sent'[s] /\ short'[s] = short[s]
    /\ payment[s] = "paid" => payment'[s] = "paid"
    /\ spend[s] # "none" => spend'[s] = spend[s]

(* No step takes any of this back.                                         *)
LEMMA NextGrows == TypeOK /\ [Next]_vars => Grows
  <1>. SUFFICES ASSUME TypeOK, [Next]_vars PROVE Grows
    OBVIOUS
  <1>1. CASE UNCHANGED <<sent, short, payment, spend>>
    BY <1>1 DEF Grows
  <1>2. ASSUME NEW s \in Swaps, UserLocks(s) PROVE Grows
    BY <1>2 DEF Grows, TypeOK, UserLocks, ln
  <1>3. ASSUME NEW s \in Swaps, UserRefunds(s) PROVE Grows
    BY <1>3 DEF Grows, TypeOK, UserRefunds, ln
  <1>4. ASSUME NEW s \in Swaps, PaymentSucceeds(s) \/ PaymentRejected(s) \/ PaymentFails(s)
        PROVE  Grows
    BY <1>4 DEF Grows, TypeOK, PaymentSucceeds, PaymentRejected, PaymentFails, chain
  <1>5. ASSUME NEW s \in Swaps, NEW w \in Workers, SendPayment(s, w) PROVE Grows
    BY <1>5 DEF Grows, TypeOK, SendPayment, chain
  <1>6. ASSUME NEW s \in Swaps, NEW w \in Workers, Broadcast(s, w) PROVE Grows
    BY <1>6 DEF Grows, TypeOK, Broadcast, ln
  <1>7. ASSUME NEW s \in Swaps,
               MineLockup(s) \/ ExpireInvoice(s) \/ Nursery(s) \/ Api(s) \/ Handler(s)
        PROVE  UNCHANGED <<sent, short, payment, spend>>
    BY <1>7
    DEF MineLockup, ExpireInvoice, Nursery, CheckSwapOutputs, CheckExpiredSwaps,
        RejectZeroConf, SetLockupTransaction, RejectLowAmount, AcceptLockup, Api, ReadSwap,
        SetInvoice, Handler, QueryExpired, SetSwapExpired, LockupFailed, ZeroConfRejected,
        OnLockup, ln, chain
  <1>8. ASSUME NEW s \in Swaps, NEW w \in Workers,
               \/ SetInvoicePending(s, w) \/ SentBefore(s, w) \/ PaidBefore(s, w)
               \/ InvoiceIsExpired(s, w) \/ Abandon(s, w) \/ SetInvoicePaid(s, w)
               \/ SetMinerFee(s, w) \/ RaceTimeout(s, w) \/ BroadcastFails(s, w)
        PROVE  UNCHANGED <<sent, short, payment, spend>>
    BY <1>8
    DEF SetInvoicePending, SentBefore, PaidBefore, InvoiceIsExpired, Abandon, SetInvoicePaid,
        SetMinerFee, RaceTimeout, BroadcastFails, ln, chain
  <1>9. ASSUME RetryTimer \/ RetryLoop \/ MineBlock \/ Restart \/ UNCHANGED vars
        PROVE  UNCHANGED <<sent, short, payment, spend>>
    BY <1>9
    DEF RetryTimer, RetryLoop, RetryQuery, RetryDone, RetryNext, MineBlock, Restart, vars,
        ln, chain
  <1>. QED  BY <1>1, <1>2, <1>3, <1>4, <1>5, <1>6, <1>7, <1>8, <1>9
            DEF Next, Environment, Claim

(* What a lockup event says stays true while it waits, whatever the step   *)
(* does to the queue.                                                      *)
LEMMA QueueStays ==
  ASSUME TypeOK, JobInv, Grows,
         \/ UNCHANGED queue
         \/ \E j \in Jobs : JobOK(j) /\ queue' = Append(queue, j)
         \/ queue # << >> /\ queue' = Tail(queue)
         \/ queue' = << >>
  PROVE  JobInv'
  <1>1. ASSUME NEW j \in Jobs, JobOK(j) PROVE JobOK(j)'
    BY <1>1 DEF Jobs, Retry, JobOK, Good, Grows, TypeOK
  <1>2. \A k \in 1..Len(queue) : queue[k] \in Jobs /\ JobOK(queue[k])
    BY DEF JobInv, TypeOK
  <1>3. ASSUME NEW i \in 1..Len(queue') PROVE \E j \in Jobs : j = queue'[i] /\ JobOK(j)
    <2>1. CASE UNCHANGED queue
      BY <1>2, <2>1
    <2>2. CASE \E j \in Jobs : JobOK(j) /\ queue' = Append(queue, j)
      BY <1>2, <2>2, AppendFacts DEF TypeOK
    <2>3. CASE queue # << >> /\ queue' = Tail(queue)
      <3>1. PICK k \in 1..Len(queue) : queue'[i] = queue[k]
        BY <2>3, TailFacts DEF TypeOK
      <3>. QED  BY <1>2, <3>1
    <2>4. CASE queue' = << >>
      BY <2>4
    <2>. QED  BY <2>1, <2>2, <2>3, <2>4
  <1>4. ASSUME NEW i \in 1..Len(queue') PROVE JobOK(queue[i])'
    <2>1. PICK j \in Jobs : j = queue'[i] /\ JobOK(j)'
      BY <1>1, <1>3
    <2>. QED  BY <2>1 DEF JobOK
  <1>. QED  BY <1>4 DEF JobInv

(* A lockup is good if it was good, or is when somebody comes to depend    *)
(* on it.                                                                  *)
LEMMA GoodStays ==
  ASSUME TypeOK, GoodInv, Grows, \A s \in Swaps : Depends(s)' => Depends(s) \/ Good(s)
  PROVE  GoodInv'
  BY DEF GoodInv, Good, Grows, TypeOK

(* Results are right if they were, or are when they are written down.      *)
LEMMA ResultsStay ==
  ASSUME TypeOK, WorkerInv, ClaimInv, RowIsRight, Grows,
         \A s \in Swaps : \A w \in Workers :
           /\ claim'[s][w] \in {"paid", "broadcast", "record"} =>
                claim[s][w] \in {"paid", "broadcast", "record"} \/ payment'[s] = "paid"
           /\ claim'[s][w] = "record" => claim[s][w] = "record" \/ spend'[s] = "claim",
         \A s \in Swaps :
           /\ spend'[s] = "claim" => spend[s] = "claim" \/ payment'[s] = "paid"
           /\ status'[s] = "TransactionClaimed" =>
                status[s] = "TransactionClaimed" \/ spend'[s] = "claim"
           /\ status'[s] = "InvoicePaid" => status[s] = "InvoicePaid" \/ payment'[s] = "paid"
  PROVE  WorkerInv' /\ ClaimInv' /\ RowIsRight'
  BY DEF WorkerInv, ClaimInv, RowIsRight, Grows

-----------------------------------------------------------------------------
(* Every step keeps each part *)

(* Only what was sent is looked at, mined or spent.                        *)
LEMMA NextChain ==
  ASSUME TypeOK, ChainInv, WorkerInv, GoodInv, Grows, [Next]_vars
  PROVE  ChainInv'
  <1>. DEFINE Sent == \A s \in Swaps :
                /\ lockup'[s] \/ mined'[s] \/ spend'[s] # "none" =>
                     lockup[s] \/ mined[s] \/ spend[s] # "none" \/ sent[s]
                /\ \A c \in BOOLEAN : check'[s][c].at # "idle" => check[s][c].at # "idle" \/ sent[s]
  <1>1. SUFFICES Sent
    BY DEF ChainInv, Grows
  <1>2. CASE UNCHANGED <<lockup, mined, spend, check>>
    BY <1>2
  <1>3. ASSUME NEW s \in Swaps, UserRefunds(s) \/ MineLockup(s) PROVE Sent
    <2>1. UNCHANGED <<lockup, check>> /\ sent[s]
      BY <1>3 DEF UserRefunds, MineLockup, row, ChainInv
    <2>2. CASE UserRefunds(s)
      <3>1. \A t \in Swaps : t # s => spend'[t] = spend[t]
        BY <2>2 DEF UserRefunds, TypeOK
      <3>. QED  BY <2>1, <2>2, <3>1 DEF UserRefunds
    <2>3. CASE MineLockup(s)
      <3>1. \A t \in Swaps : t # s => mined'[t] = mined[t]
        BY <2>3 DEF MineLockup, TypeOK
      <3>. QED  BY <2>1, <2>3, <3>1 DEF MineLockup
    <2>. QED  BY <1>3, <2>2, <2>3
  <1>4. ASSUME NEW s \in Swaps, NEW w \in Workers, Broadcast(s, w) PROVE Sent
    <2>1. sent[s]
      BY <1>4 DEF Broadcast, GoodInv, Good, Depends
    <2>. QED  BY <1>4, <2>1 DEF Broadcast, row, TypeOK
  <1>5. ASSUME NEW s \in Swaps, NEW b \in BOOLEAN, NEW r \in Checks,
               check' = [check EXCEPT ![s][b] = r], sent[s] \/ r.at = "idle"
        PROVE  \A t \in Swaps : \A c \in BOOLEAN :
                 check'[t][c].at # "idle" => check[t][c].at # "idle" \/ sent[t]
    <2>1. check[s] \in [BOOLEAN -> Checks]
      BY DEF TypeOK
    <2>. QED  BY <1>5, <2>1 DEF TypeOK
  <1>6. NoCheck \in Checks /\ NoCheck.at = "idle"
    BY DEF NoCheck, Checks
  <1>7. ASSUME NEW s \in Swaps, CheckSwapOutputs(s) PROVE Sent
    <2>1. known[s] \in BOOLEAN /\ mined[s] \in BOOLEAN /\ invoice[s] \in BOOLEAN
          /\ zeroConf[s] \in BOOLEAN
      BY DEF TypeOK
    <2>2. [at |-> "read", invoice |-> invoice[s], zeroConf |-> zeroConf[s]] \in Checks
      BY <2>1 DEF Checks
    <2>3. (known[s] \/ mined[s]) \in BOOLEAN /\ sent[s]
      BY <1>7, <2>1 DEF CheckSwapOutputs, NextNews
    <2>4. \/ UNCHANGED check
          \/ check' = [check EXCEPT ![s][known[s] \/ mined[s]] =
               [at |-> "read", invoice |-> invoice[s], zeroConf |-> zeroConf[s]]]
      BY <1>7 DEF CheckSwapOutputs
    <2>. QED  BY <1>5, <1>7, <2>2, <2>3, <2>4 DEF CheckSwapOutputs, row, chain
  <1>8. ASSUME NEW s \in Swaps, RejectZeroConf(s) PROVE Sent
    BY <1>5, <1>6, <1>8 DEF RejectZeroConf, row, chain
  <1>9. ASSUME NEW s \in Swaps, NEW c \in BOOLEAN, RejectLowAmount(s, c) \/ AcceptLockup(s, c)
        PROVE  Sent
    BY <1>5, <1>6, <1>9 DEF RejectLowAmount, AcceptLockup, row, chain
  <1>10. ASSUME NEW s \in Swaps, NEW c \in BOOLEAN, SetLockupTransaction(s, c) PROVE Sent
    <2>1. check[s] \in [BOOLEAN -> Checks] /\ check[s][c] \in Checks
      BY DEF TypeOK
    <2>2. sent[s]
      BY <1>10 DEF SetLockupTransaction, ChainInv
    <2>3. [check[s][c] EXCEPT !.at = "stored"] \in Checks
      BY <2>1 DEF Checks
    <2>4. check' = [check EXCEPT ![s][c] = [check[s][c] EXCEPT !.at = "stored"]]
      BY <1>10, <2>1 DEF SetLockupTransaction
    <2>5. \A t \in Swaps : \A b \in BOOLEAN :
            check'[t][b].at # "idle" => check[t][b].at # "idle" \/ sent[t]
      BY <1>5, <2>2, <2>3, <2>4
    <2>. QED  BY <1>10, <2>2, <2>5 DEF SetLockupTransaction, chain, TypeOK
  <1>11. CASE Restart
    BY <1>6, <1>11 DEF Restart, row, chain
  <1>12. ASSUME NEW s \in Swaps,
                \/ UserLocks(s) \/ ExpireInvoice(s) \/ PaymentSucceeds(s) \/ PaymentRejected(s)
                \/ PaymentFails(s) \/ CheckExpiredSwaps(s) \/ Api(s) \/ Handler(s)
         PROVE  UNCHANGED <<lockup, mined, spend, check>>
    BY <1>12
    DEF UserLocks, ExpireInvoice, PaymentSucceeds, PaymentRejected, PaymentFails,
        CheckExpiredSwaps, Api, ReadSwap, SetInvoice, Handler, QueryExpired, SetSwapExpired,
        LockupFailed, ZeroConfRejected, OnLockup, row, chain
  <1>13. ASSUME NEW s \in Swaps, NEW w \in Workers,
                \/ SetInvoicePending(s, w) \/ SendPayment(s, w) \/ SentBefore(s, w)
                \/ PaidBefore(s, w) \/ InvoiceIsExpired(s, w) \/ Abandon(s, w)
                \/ SetInvoicePaid(s, w) \/ SetMinerFee(s, w) \/ RaceTimeout(s, w)
                \/ BroadcastFails(s, w)
         PROVE  UNCHANGED <<lockup, mined, spend, check>>
    BY <1>13
    DEF SetInvoicePending, SendPayment, SentBefore, PaidBefore, InvoiceIsExpired, Abandon,
        SetInvoicePaid, SetMinerFee, RaceTimeout, BroadcastFails, row, chain
  <1>14. ASSUME RetryTimer \/ RetryLoop \/ MineBlock \/ UNCHANGED vars
         PROVE  UNCHANGED <<lockup, mined, spend, check>>
    BY <1>14
    DEF RetryTimer, RetryLoop, RetryQuery, RetryDone, RetryNext, MineBlock, vars, row, chain
  <1>. QED  BY <1>2, <1>3, <1>4, <1>7, <1>8, <1>9, <1>10, <1>11, <1>12, <1>13, <1>14
            DEF Next, Environment, Nursery, Claim

(* An event that says coins can be claimed is emitted for good coins only. *)
LEMMA NextJobs ==
  ASSUME TypeOK, ChainInv, LockInv, JobInv, Grows, [Next]_vars
  PROVE  JobInv'
  <1>. DEFINE Stays == \/ UNCHANGED queue
                       \/ \E j \in Jobs : JobOK(j) /\ queue' = Append(queue, j)
                       \/ queue # << >> /\ queue' = Tail(queue)
                       \/ queue' = << >>
  <1>1. SUFFICES Stays
    BY QueueStays
  <1>2. CASE UNCHANGED queue
    BY <1>2
  <1>3. ASSUME NEW k \in Kinds, NEW s \in Swaps, NEW i \in BOOLEAN, Enqueue(k, s, i),
               k = "swap.lockup" /\ i => Good(s)
        PROVE  Stays
    <2>. DEFINE j == [kind |-> k, swap |-> s, invoice |-> i]
    <2>1. j \in Jobs /\ JobOK(j) /\ queue' = Append(queue, j)
      BY <1>3, JobFacts DEF Enqueue, JobOK
    <2>. QED  BY <2>1
  <1>4. ASSUME NEW s \in Swaps, NEW c \in BOOLEAN
        PROVE  check[s][c].invoice \in BOOLEAN /\ invoice[s] \in BOOLEAN
    <2>1. check[s][c] \in Checks
      BY DEF TypeOK
    <2>. QED  BY <2>1 DEF Checks, TypeOK
  <1>5. ASSUME NEW s \in Swaps, NEW c \in BOOLEAN, AcceptLockup(s, c) PROVE Stays
    <2>1. check[s][c].invoice => Good(s)
      BY <1>5 DEF AcceptLockup, TooLow, ChainInv, Good
    <2>. QED  BY <1>3, <1>4, <1>5, <2>1 DEF AcceptLockup, Kinds
  <1>6. ASSUME NEW s \in Swaps, NEW c \in BOOLEAN, RejectLowAmount(s, c) PROVE Stays
    BY <1>3, <1>4, <1>6 DEF RejectLowAmount, Kinds
  <1>7. ASSUME NEW s \in Swaps, RejectZeroConf(s) \/ CheckExpiredSwaps(s) PROVE Stays
    BY <1>3, <1>4, <1>7 DEF RejectZeroConf, CheckExpiredSwaps, Kinds
  <1>8. CASE RetryTimer
    BY <1>8, JobFacts DEF RetryTimer, JobOK
  <1>9. ASSUME NEW s \in Swaps, NEW w \in Workers,
               \/ Finish(s, w) \/ Throw(s, w) \/ UNCHANGED lock, claim[s][w] # "idle"
        PROVE  Stays
    BY <1>9 DEF Finish, Throw, Release, LockInv, Active, lock
  <1>10. ASSUME NEW s \in Swaps, NEW w \in Workers,
                Claim(s, w) \/ RaceTimeout(s, w) \/ BroadcastFails(s, w)
         PROVE  Stays
    <2>1. claim[s][w] # "idle"
      BY <1>10
      DEF Claim, SetInvoicePending, SendPayment, SentBefore, PaidBefore, InvoiceIsExpired,
          Abandon, SetInvoicePaid, Broadcast, SetMinerFee, RaceTimeout, BroadcastFails
    <2>2. Finish(s, w) \/ Throw(s, w) \/ UNCHANGED lock
      BY <1>10
      DEF Claim, SetInvoicePending, SendPayment, SentBefore, PaidBefore, TrackPayment,
          InvoiceIsExpired, Abandon, SetInvoicePaid, Broadcast, SetMinerFee, RaceTimeout,
          BroadcastFails, lock
    <2>. QED  BY <1>9, <2>1, <2>2
  <1>11. ASSUME NEW s \in Swaps, PaymentFails(s) PROVE Stays
    BY <1>11 DEF PaymentFails, Release, LockInv, Active, lock
  <1>12. ASSUME NEW s \in Swaps, Handler(s) PROVE Stays
    BY <1>12
    DEF Handler, QueryExpired, SetSwapExpired, LockupFailed, ZeroConfRejected, OnLockup,
        Running, Release, Goto
  <1>13. CASE RetryLoop \/ Restart
    BY <1>13
    DEF RetryLoop, RetryQuery, RetryDone, RetryNext, LoopIdle, RunningRetry, Release, Restart
  <1>14. ASSUME \/ MineBlock \/ UNCHANGED vars
                \/ \E s \in Swaps : \/ UserLocks(s) \/ UserRefunds(s) \/ MineLockup(s)
                                    \/ ExpireInvoice(s) \/ PaymentSucceeds(s)
                                    \/ PaymentRejected(s) \/ CheckSwapOutputs(s) \/ Api(s)
                                    \/ \E c \in BOOLEAN : SetLockupTransaction(s, c)
         PROVE  UNCHANGED queue
    BY <1>14
    DEF MineBlock, vars, UserLocks, UserRefunds, MineLockup, ExpireInvoice, PaymentSucceeds,
        PaymentRejected, CheckSwapOutputs, Api, ReadSwap, SetInvoice, SetLockupTransaction, lock
  <1>. QED  BY <1>2, <1>5, <1>6, <1>7, <1>8, <1>10, <1>11, <1>12, <1>13, <1>14
            DEF Next, Environment, Nursery

(* The lock is given to a lockup that was accepted for a swap with invoice.*)
StartsClaim(s) == Running("swap.lockup", s, "start") /\ Head(queue).invoice

(* Somebody comes to depend on a lockup only by taking up such an event, or*)
(* by a call of the API that finds the lockup in the row.                  *)
LEMMA NextDepends ==
  ASSUME TypeOK, [Next]_vars
  PROVE  \A t \in Swaps :
           Depends(t)' => Depends(t) \/ StartsClaim(t) \/ (ReadSwap(t) /\ lockup[t])
  <1>. DEFINE Stays == \A t \in Swaps :
                Depends(t)' => Depends(t) \/ StartsClaim(t) \/ (ReadSwap(t) /\ lockup[t])
  <1>1. SUFFICES Stays
    OBVIOUS
  <1>2. CASE /\ UNCHANGED <<payment, call, claim>> /\ retrying' \subseteq retrying
             /\ \A t \in Swaps : status'[t] = "InvoicePending" => status[t] = "InvoicePending"
    BY <1>2 DEF Depends
  <1>3. ASSUME NEW s \in Swaps, NEW w \in Workers, NEW at \in ClaimSteps, GoOn(s, w, at),
               UNCHANGED call, retrying' \subseteq retrying,
               at = "idle" \/ Depends(s) \/ StartsClaim(s),
               \A t \in Swaps :
                 payment'[t] # "none" => payment[t] # "none" \/ (t = s /\ Depends(s)),
               \A t \in Swaps :
                 status'[t] = "InvoicePending" =>
                   status[t] = "InvoicePending" \/ (t = s /\ Depends(s))
        PROVE  Stays
    BY <1>3, GoOnFacts DEF Depends
  <1>4. ASSUME NEW s \in Swaps, NEW w \in Workers,
               Claim(s, w) \/ RaceTimeout(s, w) \/ BroadcastFails(s, w)
        PROVE  Stays
    <2>1. Depends(s)
      BY <1>4
      DEF Claim, SetInvoicePending, SendPayment, SentBefore, PaidBefore, InvoiceIsExpired,
          Abandon, SetInvoicePaid, Broadcast, SetMinerFee, RaceTimeout, BroadcastFails, Depends
    <2>2. \E at \in ClaimSteps : GoOn(s, w, at)
      BY <1>4
      DEF Claim, SetInvoicePending, SendPayment, SentBefore, PaidBefore, TrackPayment,
          InvoiceIsExpired, Abandon, SetInvoicePaid, Broadcast, SetMinerFee, RaceTimeout,
          BroadcastFails, Finish, Throw, ClaimSteps
    <2>3. UNCHANGED call /\ retrying' \subseteq retrying
      BY <1>4
      DEF Claim, SetInvoicePending, SendPayment, SentBefore, PaidBefore, TrackPayment,
          InvoiceIsExpired, Abandon, SetInvoicePaid, Broadcast, SetMinerFee, RaceTimeout,
          BroadcastFails, Finish, Throw, Release, lock
    <2>4. \A t \in Swaps : payment'[t] # "none" => payment[t] # "none" \/ t = s
      BY <1>4
      DEF Claim, SetInvoicePending, SendPayment, SentBefore, PaidBefore, InvoiceIsExpired,
          Abandon, SetInvoicePaid, Broadcast, SetMinerFee, RaceTimeout, BroadcastFails, ln,
          TypeOK
    <2>5. \A t \in Swaps : status'[t] = "InvoicePending" => status[t] = "InvoicePending" \/ t = s
      BY <1>4
      DEF Claim, SetInvoicePending, SendPayment, SentBefore, PaidBefore, InvoiceIsExpired,
          Abandon, SetInvoicePaid, Broadcast, SetMinerFee, RaceTimeout, BroadcastFails, row,
          SetStatus, TypeOK
    <2>. QED  BY <1>3, <2>1, <2>2, <2>3, <2>4, <2>5
  <1>5. ASSUME NEW s \in Swaps, PaymentSucceeds(s) \/ PaymentRejected(s) \/ PaymentFails(s)
        PROVE  Stays
    <2>1. PICK result \in {"paid", "rejected", "idle"} : Tell(s, result)
      BY <1>5 DEF PaymentSucceeds, PaymentRejected, PaymentFails
    <2>2. \A t \in Swaps : \A w \in Workers : claim'[t][w] # "idle" => claim[t][w] # "idle"
      BY <2>1, TellFacts DEF ClaimSteps
    <2>3. \A t \in Swaps : payment'[t] # "none" => payment[t] # "none"
      BY <1>5 DEF PaymentSucceeds, PaymentRejected, PaymentFails, TypeOK
    <2>4. UNCHANGED <<status, call>> /\ retrying' \subseteq retrying
      BY <1>5 DEF PaymentSucceeds, PaymentRejected, PaymentFails, Release, row, lock
    <2>. QED  BY <2>2, <2>3, <2>4 DEF Depends
  <1>6. ASSUME NEW s \in Swaps, ReadSwap(s) PROVE Stays
    <2>1. \A t \in Swaps : call'[t] = IF t = s THEN [at |-> "read", lockup |-> lockup[s],
                                                      status |-> status[s]] ELSE call[t]
      BY <1>6 DEF ReadSwap, TypeOK
    <2>2. UNCHANGED <<status, payment, retrying, claim>>
      BY <1>6 DEF ReadSwap, row, ln, lock
    <2>. QED  BY <1>6, <2>1, <2>2 DEF Depends
  <1>7. ASSUME NEW s \in Swaps, SetInvoice(s) PROVE Stays
    <2>0. \A t \in Swaps : status'[t] = "InvoicePending" => status[t] = "InvoicePending"
      BY <1>7 DEF SetInvoice, SetStatus, TypeOK
    <2>1. \A t \in Swaps : call'[t].at = "read" => call'[t] = call[t]
      <3>1. NoCall.at # "read"
        BY DEF NoCall
      <3>. QED  BY <1>7, <3>1 DEF SetInvoice, TypeOK
    <2>2. SettlesAtOnce(call[s]) => Depends(s)
      BY <1>7 DEF SetInvoice, SettlesAtOnce, Depends
    <2>3. \A t \in Swaps : \A w \in Workers :
            claim'[t][w] # "idle" => claim[t][w] # "idle" \/ (t = s /\ SettlesAtOnce(call[s]))
      <3>1. CASE UNCHANGED claim
        BY <3>1
      <3>2. CASE SettlesAtOnce(call[s]) /\ GoOn(s, "api", "start")
        BY <3>2, GoOnFacts DEF Workers, ClaimSteps
      <3>. QED  BY <1>7, <3>1, <3>2 DEF SetInvoice, GoOn
    <2>4. UNCHANGED <<payment, retrying>>
      BY <1>7 DEF SetInvoice, ln, lock
    <2>. QED  BY <2>0, <2>1, <2>2, <2>3, <2>4 DEF Depends
  <1>8. ASSUME NEW s \in Swaps, OnLockup(s) PROVE Stays
    <2>1. Head(queue).invoice => StartsClaim(s)
      BY <1>8 DEF OnLockup, StartsClaim
    <2>2. CASE Release /\ UNCHANGED claim
      BY <1>8, <2>2 DEF OnLockup, Release, Depends, row, ln
    <2>3. CASE Head(queue).invoice /\ Goto("claiming") /\ GoOn(s, "lock", "start")
      <3>1. "lock" \in Workers /\ "start" \in ClaimSteps
        BY DEF Workers, ClaimSteps
      <3>2. UNCHANGED <<status, payment, call, retrying>>
        BY <1>8, <2>3 DEF OnLockup, Goto, row, ln
      <3>. QED  BY <1>3, <2>1, <2>3, <3>1, <3>2
    <2>. QED  BY <1>8, <2>2, <2>3 DEF OnLockup
  <1>9. CASE RetryQuery
    <2>1. \A t \in Swaps : t \in retrying' => status[t] = "InvoicePending"
      BY <1>9 DEF RetryQuery, PendingInvoices
    <2>2. UNCHANGED <<status, payment, call, claim>>
      BY <1>9 DEF RetryQuery, row, ln
    <2>. QED  BY <2>1, <2>2 DEF Depends
  <1>10. ASSUME NEW s \in Swaps, RetryNext(s) PROVE Stays
    <2>1. "lock" \in Workers /\ "send" \in ClaimSteps
      BY DEF Workers, ClaimSteps
    <2>2. Depends(s) /\ UNCHANGED <<status, payment, call>> /\ retrying' \subseteq retrying
      BY <1>10 DEF RetryNext, Depends, row, ln
    <2>. QED  BY <1>3, <1>10, <2>1, <2>2 DEF RetryNext
  <1>11. CASE Restart
    BY <1>11 DEF Restart, NoCall, NoClaim, Depends, row, ln
  <1>12. ASSUME \/ RetryTimer \/ RetryDone \/ MineBlock \/ UNCHANGED vars
                \/ \E s \in Swaps : \/ UserLocks(s) \/ UserRefunds(s) \/ MineLockup(s)
                                    \/ ExpireInvoice(s) \/ CheckSwapOutputs(s)
                                    \/ CheckExpiredSwaps(s) \/ RejectZeroConf(s)
                                    \/ QueryExpired(s)
                \/ \E s \in Swaps, c \in BOOLEAN : RejectLowAmount(s, c) \/ AcceptLockup(s, c)
         PROVE  UNCHANGED <<status, payment, call, claim>> /\ retrying' \subseteq retrying
    BY <1>12
    DEF RetryTimer, RetryDone, MineBlock, vars, UserLocks, UserRefunds, MineLockup,
        ExpireInvoice, CheckSwapOutputs, CheckExpiredSwaps, RejectZeroConf, RejectLowAmount,
        AcceptLockup, QueryExpired, Release, Goto, row, ln, lock
  <1>13. ASSUME NEW s \in Swaps,
                \/ SetSwapExpired(s) \/ LockupFailed(s) \/ ZeroConfRejected(s)
                \/ \E c \in BOOLEAN : SetLockupTransaction(s, c)
         PROVE  Stays
    <2>1. UNCHANGED <<payment, call, claim>> /\ retrying' \subseteq retrying
      BY <1>13
      DEF SetSwapExpired, LockupFailed, ZeroConfRejected, SetLockupTransaction, Release, ln, lock
    <2>2. \A t \in Swaps : status'[t] = "InvoicePending" => status[t] = "InvoicePending"
      BY <1>13
      DEF SetSwapExpired, LockupFailed, ZeroConfRejected, SetLockupTransaction, SetStatus, TypeOK
    <2>. QED  BY <1>2, <2>1, <2>2
  <1>. QED  BY <1>2, <1>4, <1>5, <1>6, <1>7, <1>8, <1>9, <1>10, <1>11, <1>12, <1>13
            DEF Next, Environment, Nursery, Api, Handler, RetryLoop

(* So nobody depends on a lockup that nobody has looked at.                *)
LEMMA NextGood ==
  ASSUME TypeOK, ChainInv, JobInv, GoodInv, Grows, [Next]_vars
  PROVE  GoodInv'
  <1>1. ASSUME NEW s \in Swaps, StartsClaim(s) PROVE Good(s)
    <2>1. /\ queue # << >> /\ Head(queue).kind = "swap.lockup" /\ Head(queue).swap = s
          /\ Head(queue).invoice
      BY <1>1 DEF StartsClaim, Running
    <2>2. Head(queue) # Retry
      BY <2>1 DEF Retry
    <2>3. JobOK(Head(queue))
      BY <2>1, HeadFacts DEF JobInv, TypeOK
    <2>. QED  BY <2>1, <2>2, <2>3 DEF JobOK
  <1>2. ASSUME NEW s \in Swaps, ReadSwap(s), lockup[s] PROVE Good(s)
    BY <1>2 DEF ReadSwap, ChainInv, Good
  <1>. QED  BY <1>1, <1>2, NextDepends, GoodStays

(* Workers, the chain and the rows record only results there are.          *)
LEMMA NextResults ==
  ASSUME TypeOK, WorkerInv, ClaimInv, RowIsRight, Grows, [Next]_vars
  PROVE  WorkerInv' /\ ClaimInv' /\ RowIsRight'
  <1>. DEFINE Workings ==
         \A s \in Swaps : \A w \in Workers :
           /\ claim'[s][w] \in {"paid", "broadcast", "record"} =>
                claim[s][w] \in {"paid", "broadcast", "record"} \/ payment'[s] = "paid"
           /\ claim'[s][w] = "record" => claim[s][w] = "record" \/ spend'[s] = "claim"
       Claims == \A s \in Swaps : spend'[s] = "claim" => spend[s] = "claim" \/ payment'[s] = "paid"
       Rows ==
         \A s \in Swaps :
           /\ status'[s] = "TransactionClaimed" =>
                status[s] = "TransactionClaimed" \/ spend'[s] = "claim"
           /\ status'[s] = "InvoicePaid" => status[s] = "InvoicePaid" \/ payment'[s] = "paid"
  <1>1. SUFFICES Workings /\ Claims /\ Rows
    BY ResultsStay
  <1>2. CASE UNCHANGED <<status, spend, claim>>
    BY <1>2
  <1>3. ASSUME NEW s \in Swaps, NEW w \in Workers, NEW at \in ClaimSteps, GoOn(s, w, at),
               at \in {"paid", "broadcast", "record"} => payment'[s] = "paid",
               at = "record" => spend'[s] = "claim"
        PROVE  Workings
    BY <1>3, GoOnFacts
  <1>4. ASSUME NEW s \in Swaps, NEW value \in Statuses, SetStatus(s, value),
               value = "TransactionClaimed" => spend'[s] = "claim",
               value = "InvoicePaid" => payment'[s] = "paid"
        PROVE  Rows
    BY <1>4 DEF SetStatus, TypeOK
  <1>5. ASSUME NEW s \in Swaps, UserRefunds(s) PROVE Workings /\ Claims /\ Rows
    BY <1>5 DEF UserRefunds, row, TypeOK
  <1>6. ASSUME NEW s \in Swaps, PaymentSucceeds(s) \/ PaymentRejected(s) \/ PaymentFails(s)
        PROVE  Workings /\ Claims /\ Rows
    <2>1. UNCHANGED <<status, spend>>
      BY <1>6 DEF PaymentSucceeds, PaymentRejected, PaymentFails, row, chain
    <2>2. PICK result \in {"paid", "rejected", "idle"} :
            Tell(s, result) /\ (result = "paid" => payment'[s] = "paid")
      BY <1>6 DEF PaymentSucceeds, PaymentRejected, PaymentFails, TypeOK
    <2>3. Workings
      BY <2>2, TellFacts DEF ClaimSteps
    <2>. QED  BY <2>1, <2>3
  <1>7. ASSUME NEW s \in Swaps,
               \/ SetSwapExpired(s) \/ LockupFailed(s) \/ ZeroConfRejected(s)
               \/ \E c \in BOOLEAN : SetLockupTransaction(s, c)
        PROVE  Workings /\ Claims /\ Rows
    <2>1. UNCHANGED <<claim, spend>>
      BY <1>7 DEF SetSwapExpired, LockupFailed, ZeroConfRejected, SetLockupTransaction, chain
    <2>2. \E value \in Statuses \ {"TransactionClaimed", "InvoicePaid"} : SetStatus(s, value)
      BY <1>7
      DEF SetSwapExpired, LockupFailed, ZeroConfRejected, SetLockupTransaction, Statuses
    <2>3. Rows
      BY <1>4, <2>2
    <2>. QED  BY <2>1, <2>3
  <1>8. ASSUME NEW s \in Swaps, SetInvoice(s) PROVE Workings /\ Claims /\ Rows
    <2>1. Workings
      <3>1. CASE UNCHANGED claim
        BY <3>1
      <3>2. CASE GoOn(s, "api", "start")
        BY <1>3, <3>2 DEF Workers, ClaimSteps
      <3>. QED  BY <1>8, <3>1, <3>2 DEF SetInvoice, GoOn
    <2>2. Rows
      BY <1>4, <1>8 DEF SetInvoice, Statuses
    <2>. QED  BY <1>8, <2>1, <2>2 DEF SetInvoice, chain
  <1>9. ASSUME NEW s \in Swaps, OnLockup(s) \/ RetryNext(s) PROVE Workings /\ Claims /\ Rows
    <2>1. UNCHANGED <<status, spend>>
      BY <1>9 DEF OnLockup, RetryNext, row, chain
    <2>2. CASE UNCHANGED claim
      BY <2>1, <2>2
    <2>3. CASE \E at \in {"start", "send"} : GoOn(s, "lock", at)
      <3>1. Workings
        BY <1>3, <2>3 DEF Workers, ClaimSteps
      <3>. QED  BY <2>1, <3>1
    <2>. QED  BY <1>9, <2>2, <2>3 DEF OnLockup, RetryNext
  <1>10. CASE Restart
    BY <1>10 DEF Restart, NoClaim, row, chain
  <1>11. ASSUME NEW s \in Swaps, NEW w \in Workers,
                \/ SendPayment(s, w) \/ SentBefore(s, w) \/ PaidBefore(s, w)
                \/ InvoiceIsExpired(s, w) \/ RaceTimeout(s, w) \/ BroadcastFails(s, w)
         PROVE  Workings /\ Claims /\ Rows
    <2>1. UNCHANGED <<status, spend>>
      BY <1>11
      DEF SendPayment, SentBefore, PaidBefore, InvoiceIsExpired, RaceTimeout, BroadcastFails,
          row, chain
    <2>2. \E at \in {"waiting", "idle", "rejected", "paid"} :
            GoOn(s, w, at) /\ (at = "paid" => payment'[s] = "paid")
      BY <1>11
      DEF SendPayment, SentBefore, PaidBefore, InvoiceIsExpired, RaceTimeout, BroadcastFails,
          TrackPayment, Finish, Throw, ln
    <2>3. Workings
      BY <1>3, <2>2 DEF ClaimSteps
    <2>. QED  BY <2>1, <2>3
  <1>12. ASSUME NEW s \in Swaps, NEW w \in Workers, SetInvoicePending(s, w) \/ Abandon(s, w)
         PROVE  Workings /\ Claims /\ Rows
    <2>1. UNCHANGED spend
      BY <1>12 DEF SetInvoicePending, Abandon, chain
    <2>2. \E value \in {"InvoicePending", "InvoiceFailedToPay"} : SetStatus(s, value)
      BY <1>12 DEF SetInvoicePending, Abandon
    <2>3. \E at \in {"send", "idle"} : GoOn(s, w, at)
      BY <1>12 DEF SetInvoicePending, Abandon, Finish
    <2>4. Rows
      BY <1>4, <2>2 DEF Statuses
    <2>5. Workings
      BY <1>3, <2>3 DEF ClaimSteps
    <2>. QED  BY <2>1, <2>4, <2>5
  <1>13. ASSUME NEW s \in Swaps, NEW w \in Workers, SetInvoicePaid(s, w)
         PROVE  Workings /\ Claims /\ Rows
    <2>1. payment'[s] = "paid" /\ UNCHANGED spend
      BY <1>13 DEF SetInvoicePaid, WorkerInv, ln, chain
    <2>2. Workings
      BY <1>3, <1>13, <2>1 DEF SetInvoicePaid, ClaimSteps
    <2>3. Rows
      BY <1>4, <1>13, <2>1 DEF SetInvoicePaid, Statuses
    <2>. QED  BY <2>1, <2>2, <2>3
  <1>14. ASSUME NEW s \in Swaps, NEW w \in Workers, Broadcast(s, w)
         PROVE  Workings /\ Claims /\ Rows
    <2>1. payment[s] = "paid" /\ UNCHANGED <<status, payment>>
      BY <1>14 DEF Broadcast, WorkerInv, row, ln
    <2>2. CASE spend' = [spend EXCEPT ![s] = "claim"] /\ GoOn(s, w, "record")
      <3>1. spend'[s] = "claim" /\ Claims
        BY <2>1, <2>2 DEF TypeOK
      <3>2. Workings
        BY <1>3, <2>1, <2>2, <3>1 DEF ClaimSteps
      <3>. QED  BY <2>1, <3>1, <3>2
    <2>3. CASE Throw(s, w) /\ UNCHANGED spend
      <3>1. Workings
        BY <1>3, <2>3 DEF Throw, ClaimSteps
      <3>. QED  BY <2>1, <2>3, <3>1
    <2>. QED  BY <1>14, <2>2, <2>3 DEF Broadcast
  <1>15. ASSUME NEW s \in Swaps, NEW w \in Workers, SetMinerFee(s, w)
         PROVE  Workings /\ Claims /\ Rows
    <2>1. spend'[s] = "claim" /\ UNCHANGED spend
      BY <1>15 DEF SetMinerFee, WorkerInv, chain
    <2>2. Workings
      BY <1>3, <1>15 DEF SetMinerFee, Finish, ClaimSteps
    <2>3. Rows
      BY <1>4, <1>15, <2>1 DEF SetMinerFee, Statuses
    <2>. QED  BY <2>1, <2>2, <2>3
  <1>16. ASSUME \/ RetryTimer \/ RetryQuery \/ RetryDone \/ MineBlock \/ UNCHANGED vars
                \/ \E s \in Swaps : \/ UserLocks(s) \/ MineLockup(s) \/ ExpireInvoice(s)
                                    \/ CheckSwapOutputs(s) \/ CheckExpiredSwaps(s)
                                    \/ RejectZeroConf(s) \/ ReadSwap(s) \/ QueryExpired(s)
                \/ \E s \in Swaps, c \in BOOLEAN : RejectLowAmount(s, c) \/ AcceptLockup(s, c)
         PROVE  UNCHANGED <<status, spend, claim>>
    BY <1>16, ZenonT(60)
    DEF RetryTimer, RetryQuery, RetryDone, MineBlock, vars, UserLocks, MineLockup,
        ExpireInvoice, CheckSwapOutputs, CheckExpiredSwaps, RejectZeroConf, RejectLowAmount,
        AcceptLockup, ReadSwap, QueryExpired, row, chain
  <1>. QED  BY <1>2, <1>5, <1>6, <1>7, <1>8, <1>9, <1>10, <1>11, <1>12, <1>13, <1>14, <1>15,
               <1>16 DEF Next, Environment, Nursery, Api, Claim, Handler, RetryLoop

(* At most one run of claimUtxo holds the lock, and it holds it until it   *)
(* ends.                                                                   *)
LEMMA NextLock ==
  ASSUME TypeOK, LockInv, [Next]_vars
  PROVE  LockInv'
  <1>0. "lock" \in Workers
    BY DEF Workers
  <1>1. ASSUME queue' = << >> => step' = "start", \A s \in Swaps : ~Active(s)'
        PROVE  LockInv'
    BY <1>1 DEF LockInv
  <1>2. ASSUME UNCHANGED step, UNCHANGED queue \/ \E j \in Jobs : queue' = Append(queue, j),
               \A s \in Swaps : Active(s)' => Active(s)
        PROVE  LockInv'
    <2>1. queue # << >> => queue' # << >> /\ Head(queue') = Head(queue)
      BY <1>2, AppendFacts DEF TypeOK
    <2>2. queue' = << >> => queue = << >>
      BY <2>1
    <2>. QED  BY <1>2, <2>1, <2>2 DEF LockInv
  <1>3. ASSUME step = "start" \/ step = "expire" PROVE \A s \in Swaps : ~Active(s)
    BY <1>3 DEF LockInv
  <1>4. ASSUME NEW s \in Swaps, NEW w \in Workers, NEW at \in ClaimSteps, GoOn(s, w, at),
               claim[s][w] # "idle"
        PROVE  \A t \in Swaps : Active(t)' => Active(t)
    BY <1>0, <1>4, GoOnFacts DEF Active
  <1>5. ASSUME NEW s \in Swaps, NEW w \in Workers, claim[s][w] # "idle",
               Finish(s, w) \/ Throw(s, w)
        PROVE  LockInv'
    <2>1. GoOn(s, w, "idle") /\ "idle" \in ClaimSteps
      BY <1>5 DEF Finish, Throw, ClaimSteps
    <2>2. CASE w = "lock" /\ Release
      <3>1. \A t \in Swaps : ~Active(t)'
        BY <1>5, <2>1, <2>2, GoOnFacts DEF LockInv, Active
      <3>. QED  BY <1>1, <2>2, <3>1 DEF Release
    <2>3. CASE UNCHANGED lock
      BY <1>2, <1>4, <1>5, <2>1, <2>3 DEF lock
    <2>. QED  BY <1>5, <2>2, <2>3 DEF Finish, Throw
  <1>6. ASSUME NEW s \in Swaps, NEW w \in Workers,
               Claim(s, w) \/ RaceTimeout(s, w) \/ BroadcastFails(s, w)
        PROVE  LockInv'
    <2>1. claim[s][w] # "idle"
      BY <1>6
      DEF Claim, SetInvoicePending, SendPayment, SentBefore, PaidBefore, InvoiceIsExpired,
          Abandon, SetInvoicePaid, Broadcast, SetMinerFee, RaceTimeout, BroadcastFails
    <2>2. \/ Finish(s, w) \/ Throw(s, w)
          \/ UNCHANGED lock /\ \E at \in ClaimSteps : GoOn(s, w, at)
      BY <1>6
      DEF Claim, SetInvoicePending, SendPayment, SentBefore, PaidBefore, TrackPayment,
          InvoiceIsExpired, Abandon, SetInvoicePaid, Broadcast, SetMinerFee, RaceTimeout,
          BroadcastFails, lock, ClaimSteps
    <2>3. CASE UNCHANGED lock /\ \E at \in ClaimSteps : GoOn(s, w, at)
      BY <1>2, <1>4, <2>1, <2>3 DEF lock
    <2>. QED  BY <1>5, <2>1, <2>2, <2>3
  <1>7. ASSUME NEW s \in Swaps, NEW result \in {"paid", "rejected", "idle"}, Tell(s, result)
        PROVE  /\ \A t \in Swaps : Active(t)' => Active(t)
               /\ claim[s]["lock"] = "waiting" /\ result = "idle" => \A t \in Swaps : ~Active(t)'
    BY <1>0, <1>7, TellFacts DEF LockInv, Active, ClaimSteps
  <1>8. ASSUME NEW s \in Swaps, PaymentSucceeds(s) \/ PaymentRejected(s)
        PROVE  LockInv'
    BY <1>2, <1>7, <1>8 DEF PaymentSucceeds, PaymentRejected, lock
  <1>9. ASSUME NEW s \in Swaps, PaymentFails(s) PROVE LockInv'
    <2>1. CASE claim[s]["lock"] = "waiting" /\ Release
      BY <1>1, <1>7, <1>9, <2>1 DEF PaymentFails, Release
    <2>2. CASE UNCHANGED lock
      BY <1>2, <1>7, <1>9, <2>2 DEF PaymentFails, lock
    <2>. QED  BY <1>9, <2>1, <2>2 DEF PaymentFails
  <1>10. ASSUME NEW s \in Swaps,
                QueryExpired(s) \/ SetSwapExpired(s) \/ LockupFailed(s) \/ ZeroConfRejected(s)
         PROVE  LockInv'
    <2>1. (step = "start" \/ step = "expire") /\ queue # << >> /\ UNCHANGED claim
      BY <1>10 DEF QueryExpired, SetSwapExpired, LockupFailed, ZeroConfRejected, Running
    <2>2. queue' = << >> => step' = "start"
      BY <1>10, <2>1
      DEF QueryExpired, SetSwapExpired, LockupFailed, ZeroConfRejected, Release, Goto
    <2>. QED  BY <1>1, <1>3, <2>1, <2>2 DEF Active
  <1>11. ASSUME NEW s \in Swaps, OnLockup(s) PROVE LockInv'
    <2>1. step = "start" /\ queue # << >> /\ \A t \in Swaps : ~Active(t)
      BY <1>3, <1>11 DEF OnLockup, Running
    <2>2. CASE Release /\ UNCHANGED claim
      BY <1>1, <2>1, <2>2 DEF Release, Active
    <2>3. CASE Goto("claiming") /\ GoOn(s, "lock", "start")
      <3>1. \A t \in Swaps : Active(t)' => t = s
        BY <1>0, <2>1, <2>3, GoOnFacts DEF Active, ClaimSteps
      <3>2. Head(queue) # Retry
        BY <1>11 DEF OnLockup, Running, Retry
      <3>. QED  BY <2>1, <2>3, <3>1, <3>2 DEF LockInv, Goto
    <2>. QED  BY <1>11, <2>2, <2>3 DEF OnLockup
  <1>12. ASSUME NEW s \in Swaps, RetryNext(s) PROVE LockInv'
    <2>1. /\ queue # << >> /\ Head(queue) = Retry /\ step = "retrying"
          /\ \A t \in Swaps : ~Active(t)
      BY <1>12 DEF RetryNext, LoopIdle, RunningRetry, Active
    <2>2. \A t \in Swaps : Active(t)' => t = s
      BY <1>0, <1>12, <2>1, GoOnFacts DEF RetryNext, Active, ClaimSteps
    <2>. QED  BY <1>12, <2>1, <2>2 DEF LockInv, RetryNext
  <1>13. CASE RetryQuery \/ RetryDone
    <2>1. queue # << >> /\ UNCHANGED claim /\ \A t \in Swaps : ~Active(t)
      BY <1>3, <1>13 DEF RetryQuery, RetryDone, LoopIdle, RunningRetry, Active
    <2>2. queue' = << >> => step' = "start"
      BY <1>13, <2>1 DEF RetryQuery, RetryDone, Release
    <2>. QED  BY <1>1, <2>1, <2>2 DEF Active
  <1>14. CASE Restart
    BY <1>0, <1>1, <1>14 DEF Restart, NoClaim, Active
  <1>15. ASSUME NEW s \in Swaps, SetInvoice(s) PROVE LockInv'
    <2>1. \A t \in Swaps : claim'[t]["lock"] = claim[t]["lock"]
      <3>1. CASE UNCHANGED claim
        BY <3>1
      <3>2. CASE GoOn(s, "api", "start")
        BY <1>0, <3>2, GoOnFacts DEF Workers, ClaimSteps
      <3>. QED  BY <1>15, <3>1, <3>2 DEF SetInvoice, GoOn
    <2>. QED  BY <1>2, <1>15, <2>1 DEF SetInvoice, Active, lock
  <1>16. ASSUME UNCHANGED <<step, claim>>,
                UNCHANGED queue \/ \E j \in Jobs : queue' = Append(queue, j)
         PROVE  LockInv'
    BY <1>2, <1>16 DEF Active
  <1>17. ASSUME NEW s \in Swaps, NEW c \in BOOLEAN,
                \/ CheckExpiredSwaps(s) \/ RejectZeroConf(s)
                \/ RejectLowAmount(s, c) \/ AcceptLockup(s, c)
         PROVE  LockInv'
    <2>1. check[s][c] \in Checks /\ check[s][FALSE] \in Checks /\ invoice[s] \in BOOLEAN
      <3>1. check[s] \in [BOOLEAN -> Checks] /\ invoice \in [Swaps -> BOOLEAN]
        BY DEF TypeOK
      <3>. QED  BY <3>1
    <2>2. check[s][c].invoice \in BOOLEAN /\ check[s][FALSE].invoice \in BOOLEAN
      BY <2>1 DEF Checks
    <2>3. \E k \in Kinds, i \in BOOLEAN : Enqueue(k, s, i)
      BY <1>17, <2>1, <2>2
      DEF CheckExpiredSwaps, RejectZeroConf, RejectLowAmount, AcceptLockup, Kinds
    <2>4. \E j \in Jobs : queue' = Append(queue, j)
      BY <2>3, JobFacts DEF Enqueue
    <2>5. UNCHANGED <<step, claim>>
      BY <1>17 DEF CheckExpiredSwaps, RejectZeroConf, RejectLowAmount, AcceptLockup
    <2>. QED  BY <1>16, <2>4, <2>5
  <1>18. CASE RetryTimer
    BY <1>16, <1>18, JobFacts DEF RetryTimer
  <1>19. ASSUME \/ MineBlock \/ UNCHANGED vars
                \/ \E s \in Swaps : \/ UserLocks(s) \/ UserRefunds(s) \/ MineLockup(s)
                                    \/ ExpireInvoice(s) \/ CheckSwapOutputs(s) \/ ReadSwap(s)
                                    \/ \E c \in BOOLEAN : SetLockupTransaction(s, c)
         PROVE  LockInv'
    BY <1>16, <1>19, ZenonT(60)
    DEF MineBlock, vars, UserLocks, UserRefunds, MineLockup, ExpireInvoice, CheckSwapOutputs,
        ReadSwap, SetLockupTransaction, lock
  <1>. QED  BY <1>6, <1>8, <1>9, <1>10, <1>11, <1>12, <1>13, <1>14, <1>15, <1>17, <1>18, <1>19
            DEF Next, Environment, Nursery, Api, Handler, RetryLoop

-----------------------------------------------------------------------------
(* The theorems *)

(* Nothing has happened yet.                                               *)
LEMMA InitInv == Init => IInv
  <1>. SUFFICES ASSUME Init PROVE IInv
    OBVIOUS
  <1>1. TypeOK
    BY InitType
  <1>2. /\ queue = << >> /\ retrying = {} /\ step = "start"
        /\ \A s \in Swaps :
             /\ status[s] \in {"InvoiceSet", "SwapCreated"} /\ payment[s] = "none"
             /\ ~lockup[s] /\ ~mined[s] /\ spend[s] = "none" /\ call[s].at = "idle"
             /\ \A c \in BOOLEAN : check[s][c].at = "idle"
             /\ \A w \in Workers : claim[s][w] = "idle"
    BY DEF Init, NoCheck, NoCall, NoClaim
  <1>3. "lock" \in Workers
    BY DEF Workers
  <1>. QED  BY <1>1, <1>2, <1>3
            DEF IInv, ChainInv, JobInv, GoodInv, Depends, WorkerInv, ClaimInv, LockInv,
                RowIsRight, Active

(* Every step keeps all of it.                                             *)
LEMMA NextInv == IInv /\ [Next]_vars => IInv'
  BY NextType, NextGrows, NextChain, NextJobs, NextGood, NextResults, NextLock DEF IInv

(* The invariant is inductive: Spec reaches only states where what the     *)
(* workers, the events that wait and the API call rely on is so.           *)
THEOREM Inductive == Spec => []IInv
  BY InitInv, NextInv, PTL DEF Spec

(* Every variable has its type.                                            *)
THEOREM TypeCorrect == Spec => []TypeOK
  BY Inductive, PTL DEF IInv

(* No invoice is paid against a lockup that is missing or too small.       *)
THEOREM PaysForGoodCoins == Spec => []PaidOnlySufficient
  <1>1. IInv => PaidOnlySufficient
    BY DEF IInv, GoodInv, Depends, Good, PaidOnlySufficient
  <1>. QED  BY <1>1, Inductive, PTL

(* Rows that say InvoicePaid or TransactionClaimed are right.              *)
THEOREM RowsAreRight == Spec => []RowIsRight
  BY Inductive, PTL DEF IInv

-----------------------------------------------------------------------------
(* What one step may do to the nursery's checks and to the queue           *)

(* UtxoNursery goes on with a notification, if the swap awaits its lockup. *)
Notices(s) == CheckSwapOutputs(s) /\ status[s] \in Awaiting

(* It hands the lockup it has looked at to SwapNursery.                    *)
Hands(s, c) == check[s][c].at # "idle" /\ check'[s][c].at = "idle"

(* A check is started by a notification only, with the row as it is then;  *)
(* the one that runs keeps what it read; and no step starts and ends one.  *)
LEMMA NextChecks ==
  ASSUME TypeOK, [Next]_vars
  PROVE  \A s \in Swaps :
           /\ \A c \in BOOLEAN : check'[s][c].at # "idle" =>
                \/ check[s][c].at # "idle" /\ check'[s][c].zeroConf = check[s][c].zeroConf
                \/ /\ Notices(s) /\ c = (known[s] \/ mined[s])
                   /\ check'[s][c].zeroConf = zeroConf[s]
           /\ \A c \in BOOLEAN : Notices(s) => ~Hands(s, c)
  <1>. DEFINE Keeps(t, c) ==
                check'[t][c].at # "idle" =>
                  check[t][c].at # "idle" /\ check'[t][c].zeroConf = check[t][c].zeroConf
  <1>0. NoCheck.at = "idle" /\ NoCheck \in Checks
    BY DEF NoCheck, Checks
  <1>1. ASSUME NEW s \in Swaps, NEW b \in BOOLEAN, NEW r \in Checks,
               check' = [check EXCEPT ![s][b] = r]
        PROVE  \A t \in Swaps : \A c \in BOOLEAN :
                 check'[t][c] = IF t = s /\ c = b THEN r ELSE check[t][c]
    <2>1. check[s] \in [BOOLEAN -> Checks]
      BY DEF TypeOK
    <2>. QED  BY <1>1, <2>1 DEF TypeOK
  <1>2. ASSUME NEW s \in Swaps, CheckSwapOutputs(s)
        PROVE  /\ \A t \in Swaps : \A c \in BOOLEAN :
                    \/ Keeps(t, c)
                    \/ /\ Notices(t) /\ c = (known[t] \/ mined[t])
                       /\ check'[t][c].zeroConf = zeroConf[t]
               /\ \A t \in Swaps : \A c \in BOOLEAN : ~Hands(t, c)
    <2>. DEFINE r == [at |-> "read", invoice |-> invoice[s], zeroConf |-> zeroConf[s]]
                b == known[s] \/ mined[s]
    <2>1. known[s] \in BOOLEAN /\ mined[s] \in BOOLEAN /\ invoice[s] \in BOOLEAN
          /\ zeroConf[s] \in BOOLEAN
      BY DEF TypeOK
    <2>2. r \in Checks /\ b \in BOOLEAN /\ r.at = "read" /\ r.zeroConf = zeroConf[s]
      BY <2>1 DEF Checks
    <2>3. UNCHANGED check \/ (check' = [check EXCEPT ![s][b] = r] /\ Notices(s))
      BY <1>2 DEF CheckSwapOutputs, Notices
    <2>4. CASE UNCHANGED check
      BY <2>4 DEF Hands
    <2>5. CASE check' = [check EXCEPT ![s][b] = r] /\ Notices(s)
      <3>. HIDE DEF r, b
      <3>0. check' = [check EXCEPT ![s][b] = r]
        BY <2>5
      <3>1. \A t \in Swaps : \A c \in BOOLEAN :
              check'[t][c] = IF t = s /\ c = b THEN r ELSE check[t][c]
        BY ONLY <1>1, <2>2, <3>0, s \in Swaps, ZenonT(60)
      <3>2. ASSUME NEW t \in Swaps, NEW c \in BOOLEAN, ~(t = s /\ c = b)
            PROVE  Keeps(t, c) /\ ~Hands(t, c)
        BY <3>1, <3>2 DEF Hands
      <3>3. check'[s][b].at = "read" /\ check'[s][b].zeroConf = zeroConf[s]
        BY <2>2, <3>1
      <3>. QED  BY <2>2, <2>5, <3>2, <3>3 DEF Hands, b
    <2>. QED  BY <2>3, <2>4, <2>5
  <1>3. ASSUME NEW s \in Swaps, NEW c \in BOOLEAN,
               RejectZeroConf(s) \/ RejectLowAmount(s, c) \/ AcceptLockup(s, c)
        PROVE  \A t \in Swaps : \A d \in BOOLEAN : Keeps(t, d)
    <2>1. PICK d \in BOOLEAN : check' = [check EXCEPT ![s][d] = NoCheck]
      BY <1>3 DEF RejectZeroConf, RejectLowAmount, AcceptLockup
    <2>. QED  BY <1>0, <1>1, <2>1
  <1>4. ASSUME NEW s \in Swaps, NEW c \in BOOLEAN, SetLockupTransaction(s, c)
        PROVE  \A t \in Swaps : \A d \in BOOLEAN : Keeps(t, d)
    <2>1. check[s] \in [BOOLEAN -> Checks] /\ check[s][c] \in Checks
      BY DEF TypeOK
    <2>2. [check[s][c] EXCEPT !.at = "stored"] \in Checks
      BY <2>1 DEF Checks
    <2>3. [check[s][c] EXCEPT !.at = "stored"].zeroConf = check[s][c].zeroConf
      BY <2>1 DEF Checks
    <2>4. check' = [check EXCEPT ![s][c] = [check[s][c] EXCEPT !.at = "stored"]]
      BY <1>4, <2>1 DEF SetLockupTransaction
    <2>5. check[s][c].at # "idle"
      BY <1>4 DEF SetLockupTransaction
    <2>. QED  BY <1>1, <2>2, <2>3, <2>4, <2>5
  <1>5. ASSUME Restart PROVE \A t \in Swaps : \A c \in BOOLEAN : Keeps(t, c)
    BY <1>0, <1>5 DEF Restart
  <1>6. ASSUME UNCHANGED check PROVE \A t \in Swaps : \A c \in BOOLEAN : Keeps(t, c)
    BY <1>6
  <1>7. \/ Restart \/ UNCHANGED check
        \/ \E s \in Swaps : CheckSwapOutputs(s) \/ RejectZeroConf(s)
        \/ \E s \in Swaps, c \in BOOLEAN :
             SetLockupTransaction(s, c) \/ RejectLowAmount(s, c) \/ AcceptLockup(s, c)
    <2>1. ASSUME NEW s \in Swaps, Environment(s) \/ CheckExpiredSwaps(s) \/ Api(s) \/ Handler(s)
          PROVE  UNCHANGED check
      BY <2>1
      DEF Environment, UserLocks, UserRefunds, MineLockup, ExpireInvoice, PaymentSucceeds,
          PaymentRejected, PaymentFails, CheckExpiredSwaps, Api, ReadSwap, SetInvoice, Handler,
          QueryExpired, SetSwapExpired, LockupFailed, ZeroConfRejected, OnLockup
    <2>2. ASSUME NEW s \in Swaps, NEW w \in Workers,
                 Claim(s, w) \/ RaceTimeout(s, w) \/ BroadcastFails(s, w)
          PROVE  UNCHANGED check
      BY <2>2
      DEF Claim, SetInvoicePending, SendPayment, SentBefore, PaidBefore, InvoiceIsExpired,
          Abandon, SetInvoicePaid, Broadcast, SetMinerFee, RaceTimeout, BroadcastFails
    <2>3. ASSUME RetryTimer \/ RetryLoop \/ MineBlock \/ UNCHANGED vars
          PROVE  UNCHANGED check
      BY <2>3 DEF RetryTimer, RetryLoop, RetryQuery, RetryDone, RetryNext, MineBlock, vars
    <2>. QED  BY <2>1, <2>2, <2>3 DEF Next, Nursery
  <1>8. \/ \A t \in Swaps : \A c \in BOOLEAN : Keeps(t, c)
        \/ \E s \in Swaps : CheckSwapOutputs(s)
    BY <1>3, <1>4, <1>5, <1>6, <1>7
  <1>9. (\A t \in Swaps : ~Notices(t)) \/ \E s \in Swaps : CheckSwapOutputs(s)
    BY DEF Notices
  <1>. QED  BY <1>2, <1>8, <1>9

(* What may be appended to the queue: a round of the retry loop, the event *)
(* of an expired swap, and what UtxoNursery found out about a lockup.      *)
NewJob(j) ==
  \/ j = Retry
  \/ j # Retry /\ j.kind = "swap.expired" /\ Timeout[j.swap] <= height
  \/ /\ j # Retry /\ j.kind # "swap.expired"
     /\ \E c \in BOOLEAN :
          Hands(j.swap, c) /\ (j.kind = "swap.lockup" => c \/ check[j.swap][c].zeroConf)

(* A step appends one event or removes the running one; a crash loses all. *)
QueueStep ==
  \/ UNCHANGED queue /\ (step' = step \/ (step = "start" /\ step' # "start"))
  \/ step' = step /\ \E j \in Jobs : NewJob(j) /\ queue' = Append(queue, j)
  \/ queue # << >> /\ queue' = Tail(queue) /\ retrying' = {}
  \/ queue' = << >> /\ retrying' = {}

(* Every step treats the queue like that.                                  *)
LEMMA NextQueue ==
  ASSUME TypeOK, LockInv, [Next]_vars
  PROVE  QueueStep
  <1>1. CASE UNCHANGED <<queue, step>>
    BY <1>1 DEF QueueStep
  <1>2. ASSUME NEW k \in Kinds, NEW s \in Swaps, NEW i \in BOOLEAN, Enqueue(k, s, i),
               UNCHANGED step,
               \/ k = "swap.expired" /\ Timeout[s] <= height
               \/ /\ k # "swap.expired"
                  /\ \E c \in BOOLEAN :
                       Hands(s, c) /\ (k = "swap.lockup" => c \/ check[s][c].zeroConf)
        PROVE  QueueStep
    <2>1. PICK j \in Jobs : j = [kind |-> k, swap |-> s, invoice |-> i] /\ j # Retry
      BY JobFacts
    <2>2. j.kind = k /\ j.swap = s /\ queue' = Append(queue, j)
      BY <1>2, <2>1 DEF Enqueue
    <2>3. NewJob(j)
      BY <1>2, <2>1, <2>2 DEF NewJob
    <2>. QED  BY <1>2, <2>2, <2>3 DEF QueueStep
  <1>3. ASSUME NEW s \in Swaps, NEW c \in BOOLEAN
        PROVE  /\ check[s][c].invoice \in BOOLEAN /\ invoice[s] \in BOOLEAN
               /\ check[s][c].at # "idle" /\ check' = [check EXCEPT ![s][c] = NoCheck] =>
                    Hands(s, c)
    <2>1. check[s] \in [BOOLEAN -> Checks] /\ check[s][c] \in Checks /\ NoCheck.at = "idle"
      BY DEF TypeOK, NoCheck
    <2>2. ASSUME check' = [check EXCEPT ![s][c] = NoCheck] PROVE check'[s][c] = NoCheck
      BY <2>1, <2>2 DEF TypeOK
    <2>. QED  BY <2>1, <2>2 DEF Checks, TypeOK, Hands
  <1>4. ASSUME NEW s \in Swaps, NEW c \in BOOLEAN, AcceptLockup(s, c) PROVE QueueStep
    <2>1. Hands(s, c) /\ (c \/ check[s][c].zeroConf)
      BY <1>3, <1>4 DEF AcceptLockup, MayAcceptZeroConf
    <2>. QED  BY <1>2, <1>3, <1>4, <2>1 DEF AcceptLockup, Kinds
  <1>5. ASSUME NEW s \in Swaps, NEW c \in BOOLEAN, RejectLowAmount(s, c) PROVE QueueStep
    <2>1. Hands(s, c)
      BY <1>3, <1>5 DEF RejectLowAmount
    <2>. QED  BY <1>2, <1>3, <1>5, <2>1 DEF RejectLowAmount, Kinds
  <1>6. ASSUME NEW s \in Swaps, RejectZeroConf(s) PROVE QueueStep
    <2>1. Hands(s, FALSE)
      BY <1>3, <1>6 DEF RejectZeroConf
    <2>. QED  BY <1>2, <1>3, <1>6, <2>1 DEF RejectZeroConf, Kinds
  <1>7. ASSUME NEW s \in Swaps, CheckExpiredSwaps(s) PROVE QueueStep
    BY <1>2, <1>3, <1>7 DEF CheckExpiredSwaps, Expirable, Kinds
  <1>8. CASE RetryTimer
    BY <1>8, JobFacts DEF RetryTimer, NewJob, QueueStep
  <1>9. ASSUME NEW s \in Swaps, NEW w \in Workers,
               Claim(s, w) \/ RaceTimeout(s, w) \/ BroadcastFails(s, w)
        PROVE  QueueStep
    <2>1. claim[s][w] # "idle"
      BY <1>9
      DEF Claim, SetInvoicePending, SendPayment, SentBefore, PaidBefore, InvoiceIsExpired,
          Abandon, SetInvoicePaid, Broadcast, SetMinerFee, RaceTimeout, BroadcastFails
    <2>2. Finish(s, w) \/ Throw(s, w) \/ UNCHANGED lock
      BY <1>9
      DEF Claim, SetInvoicePending, SendPayment, SentBefore, PaidBefore, TrackPayment,
          InvoiceIsExpired, Abandon, SetInvoicePaid, Broadcast, SetMinerFee, RaceTimeout,
          BroadcastFails, lock
    <2>. QED  BY <2>1, <2>2 DEF Finish, Throw, Release, LockInv, Active, lock, QueueStep
  <1>10. ASSUME NEW s \in Swaps, PaymentFails(s) PROVE QueueStep
    BY <1>10 DEF PaymentFails, Release, LockInv, Active, lock, QueueStep
  <1>11. ASSUME NEW s \in Swaps, Handler(s) PROVE QueueStep
    BY <1>11
    DEF Handler, QueryExpired, SetSwapExpired, LockupFailed, ZeroConfRejected, OnLockup,
        Running, Release, Goto, QueueStep
  <1>12. CASE RetryLoop \/ Restart
    BY <1>12
    DEF RetryLoop, RetryQuery, RetryDone, RetryNext, LoopIdle, RunningRetry, Release, Restart,
        QueueStep
  <1>13. ASSUME \/ MineBlock \/ UNCHANGED vars
                \/ \E s \in Swaps : \/ UserLocks(s) \/ UserRefunds(s) \/ MineLockup(s)
                                    \/ ExpireInvoice(s) \/ PaymentSucceeds(s)
                                    \/ PaymentRejected(s) \/ CheckSwapOutputs(s) \/ Api(s)
                                    \/ \E c \in BOOLEAN : SetLockupTransaction(s, c)
         PROVE  UNCHANGED <<queue, step>>
    BY <1>13
    DEF MineBlock, vars, UserLocks, UserRefunds, MineLockup, ExpireInvoice, PaymentSucceeds,
        PaymentRejected, CheckSwapOutputs, Api, ReadSwap, SetInvoice, SetLockupTransaction, lock
  <1>. QED  BY <1>1, <1>4, <1>5, <1>6, <1>7, <1>8, <1>9, <1>10, <1>11, <1>12, <1>13
            DEF Next, Environment, Nursery

-----------------------------------------------------------------------------
(* Unconfirmed lockups of swaps created with their invoice                 *)

(* The lockup is in a block, or the swap accepts it before.                *)
Covered(s) == mined[s] \/ zeroConf[s]

LockupJob(j, s) == j # Retry /\ j.kind = "swap.lockup" /\ j.swap = s

(* The API does not touch such a swap, ZmqClient remembers its lockup until*)
(* it is confirmed, and whoever hears of the lockup may act on it.         *)
FirstInv ==
  \A s \in InvoiceFirst :
    invoice[s] /\ call[s] = NoCall

ZeroConfInv ==
  \A s \in InvoiceFirst :
    /\ check[s][TRUE].at # "idle" => mined[s]
    /\ check[s][FALSE].at # "idle" => check[s][FALSE].zeroConf = zeroConf[s]
    /\ \A i \in 1..Len(queue) : LockupJob(queue[i], s) => Covered(s)
    /\ Depends(s) => Covered(s)

KnownInv == \A s \in Swaps : known[s] => news[s] = 1

(* Users lock coins, lockups are confirmed and blocks are mined: nothing   *)
(* else happens to what is on the chain, but for what is spent.            *)
LEMMA NextWorld ==
  ASSUME [Next]_vars
  PROVE  \/ UNCHANGED <<sent, mined, height>> \/ MineBlock
         \/ \E s \in Swaps : UserLocks(s) \/ MineLockup(s)
  <1>1. ASSUME NEW s \in Swaps, \/ UserRefunds(s) \/ ExpireInvoice(s) \/ PaymentSucceeds(s)
                               \/ PaymentRejected(s) \/ PaymentFails(s)
                               \/ Nursery(s) \/ Api(s) \/ Handler(s)
        PROVE  UNCHANGED <<sent, mined, height>>
    BY <1>1
    DEF UserRefunds, ExpireInvoice, PaymentSucceeds, PaymentRejected, PaymentFails,
        Nursery, CheckSwapOutputs, CheckExpiredSwaps, RejectZeroConf, SetLockupTransaction,
        RejectLowAmount, AcceptLockup, Api, ReadSwap, SetInvoice, Handler, QueryExpired,
        SetSwapExpired, LockupFailed, ZeroConfRejected, OnLockup, chain
  <1>2. ASSUME NEW s \in Swaps, NEW w \in Workers,
               Claim(s, w) \/ RaceTimeout(s, w) \/ BroadcastFails(s, w)
        PROVE  UNCHANGED <<sent, mined, height>>
    BY <1>2
    DEF Claim, SetInvoicePending, SendPayment, SentBefore, PaidBefore, InvoiceIsExpired, Abandon,
        SetInvoicePaid, Broadcast, SetMinerFee, RaceTimeout, BroadcastFails, chain
  <1>3. ASSUME RetryTimer \/ RetryLoop \/ Restart \/ UNCHANGED vars
        PROVE  UNCHANGED <<sent, mined, height>>
    BY <1>3
    DEF RetryTimer, RetryLoop, RetryQuery, RetryDone, RetryNext, Restart, vars, chain
  <1>. QED  BY <1>1, <1>2, <1>3 DEF Next, Environment

(* Only notifications and a restart change what ZmqClient knows.           *)
LEMMA NextNotified ==
  ASSUME [Next]_vars
  PROVE  \/ UNCHANGED <<known, news>> \/ Restart
         \/ \E s \in Swaps : CheckSwapOutputs(s)
  <1>1. ASSUME NEW s \in Swaps, \/ Environment(s) \/ CheckExpiredSwaps(s) \/ RejectZeroConf(s)
                               \/ Api(s) \/ Handler(s)
                               \/ \E c \in BOOLEAN : \/ SetLockupTransaction(s, c)
                                                     \/ RejectLowAmount(s, c) \/ AcceptLockup(s, c)
        PROVE  UNCHANGED <<known, news>>
    BY <1>1
    DEF Environment, UserLocks, UserRefunds, MineLockup, ExpireInvoice, PaymentSucceeds,
        PaymentRejected, PaymentFails, CheckExpiredSwaps, RejectZeroConf, SetLockupTransaction,
        RejectLowAmount, AcceptLockup, Api, ReadSwap, SetInvoice, Handler, QueryExpired,
        SetSwapExpired, LockupFailed, ZeroConfRejected, OnLockup, zmq
  <1>2. ASSUME NEW s \in Swaps, NEW w \in Workers,
               Claim(s, w) \/ RaceTimeout(s, w) \/ BroadcastFails(s, w)
        PROVE  UNCHANGED <<known, news>>
    BY <1>2
    DEF Claim, SetInvoicePending, SendPayment, SentBefore, PaidBefore, InvoiceIsExpired, Abandon,
        SetInvoicePaid, Broadcast, SetMinerFee, RaceTimeout, BroadcastFails, zmq
  <1>3. ASSUME RetryTimer \/ RetryLoop \/ MineBlock \/ UNCHANGED vars
        PROVE  UNCHANGED <<known, news>>
    BY <1>3
    DEF RetryTimer, RetryLoop, RetryQuery, RetryDone, RetryNext, MineBlock, vars, zmq
  <1>. QED  BY <1>1, <1>2, <1>3 DEF Next, Nursery

(* A lockup ZmqClient remembers was seen once, unconfirmed.                *)
LEMMA NextKnown ==
  ASSUME TypeOK, KnownInv, [Next]_vars
  PROVE  KnownInv'
  <1>1. ASSUME NEW s \in Swaps, CheckSwapOutputs(s) PROVE KnownInv'
    <2>1. \A t \in Swaps \ {s} : known'[t] = known[t] /\ news'[t] = news[t]
      BY <1>1 DEF CheckSwapOutputs, TypeOK
    <2>2. known'[s] => ~known[s] /\ ~mined[s]
      BY <1>1 DEF CheckSwapOutputs, TypeOK
    <2>3. news'[s] = news[s] + 1 /\ news[s] \in 0..1 /\ (news[s] = 1 => mined[s])
      BY <1>1 DEF CheckSwapOutputs, NextNews, TypeOK
    <2>. QED  BY <2>1, <2>2, <2>3 DEF KnownInv
  <1>2. CASE Restart
    BY <1>2 DEF Restart, KnownInv
  <1>3. CASE UNCHANGED <<known, news>>
    BY <1>3 DEF KnownInv
  <1>. QED  BY <1>1, <1>2, <1>3, NextNotified

(* Nobody sets the invoice of such a swap again, and with it whether 0-conf*)
(* is accepted.                                                            *)
LEMMA NextFirst ==
  ASSUME TypeOK, FirstInv, [Next]_vars
  PROVE  /\ FirstInv'
         /\ \A s \in InvoiceFirst : zeroConf'[s] = zeroConf[s] /\ (mined[s] => mined'[s])
  <1>. DEFINE Same == UNCHANGED <<invoice, call, zeroConf>>
              Kept == \A s \in InvoiceFirst :
                /\ invoice'[s] /\ call'[s] = NoCall /\ zeroConf'[s] = zeroConf[s]
  <1>1. ASSUME NEW s \in Swaps, ReadSwap(s) \/ SetInvoice(s) PROVE Kept
    <2>1. s \notin InvoiceFirst
      BY <1>1 DEF ReadSwap, SetInvoice, FirstInv, NoCall
    <2>2. \A t \in Swaps \ {s} :
            invoice'[t] = invoice[t] /\ call'[t] = call[t] /\ zeroConf'[t] = zeroConf[t]
      BY <1>1 DEF ReadSwap, SetInvoice, TypeOK, row
    <2>. QED  BY <2>1, <2>2, BoundsAssumption DEF FirstInv
  <1>2. ASSUME Restart PROVE Kept
    BY <1>2, BoundsAssumption DEF Restart, FirstInv, row
  <1>3. Same \/ Restart \/ \E s \in Swaps : ReadSwap(s) \/ SetInvoice(s)
    <2>1. ASSUME NEW s \in Swaps, Environment(s) \/ Nursery(s) \/ Handler(s)
          PROVE  Same
      BY <2>1
      DEF Environment, UserLocks, UserRefunds, MineLockup, ExpireInvoice, PaymentSucceeds,
          PaymentRejected, PaymentFails, Nursery, CheckSwapOutputs, CheckExpiredSwaps,
          RejectZeroConf, SetLockupTransaction, RejectLowAmount, AcceptLockup, Handler,
          QueryExpired, SetSwapExpired, LockupFailed, ZeroConfRejected, OnLockup, row
    <2>2. ASSUME NEW s \in Swaps, NEW w \in Workers,
                 Claim(s, w) \/ RaceTimeout(s, w) \/ BroadcastFails(s, w)
          PROVE  Same
      BY <2>2
      DEF Claim, SetInvoicePending, SendPayment, SentBefore, PaidBefore, InvoiceIsExpired,
          Abandon, SetInvoicePaid, Broadcast, SetMinerFee, RaceTimeout, BroadcastFails, row
    <2>3. ASSUME RetryTimer \/ RetryLoop \/ MineBlock \/ UNCHANGED vars
          PROVE  Same
      BY <2>3 DEF RetryTimer, RetryLoop, RetryQuery, RetryDone, RetryNext, MineBlock, vars, row
    <2>. QED  BY <2>1, <2>2, <2>3 DEF Next, Api
  <1>4. Kept
    BY <1>1, <1>2, <1>3 DEF FirstInv
  <1>5. \A s \in Swaps : mined[s] => mined'[s]
    <2>1. ASSUME NEW s \in Swaps, MineLockup(s) PROVE \A t \in Swaps : mined[t] => mined'[t]
      BY <2>1 DEF MineLockup, TypeOK
    <2>2. MineBlock \/ (\E s \in Swaps : UserLocks(s)) => UNCHANGED mined
      BY DEF MineBlock, UserLocks
    <2>. QED  BY <2>1, <2>2, NextWorld
  <1>. QED  BY <1>4, <1>5, BoundsAssumption DEF FirstInv

(* Whoever may come to pay for such a swap looked at a confirmed lockup, or*)
(* at a row that accepts 0-conf.                                           *)
LEMMA NextZeroConf ==
  ASSUME TypeOK, LockInv, KnownInv, FirstInv, ZeroConfInv, [Next]_vars
  PROVE  ZeroConfInv'
  <1>. SUFFICES ASSUME NEW s \in InvoiceFirst
                PROVE  /\ check'[s][TRUE].at # "idle" => mined'[s]
                       /\ check'[s][FALSE].at # "idle" =>
                            check'[s][FALSE].zeroConf = zeroConf'[s]
                       /\ \A i \in 1..Len(queue') : LockupJob(queue'[i], s) => Covered(s)'
                       /\ Depends(s)' => Covered(s)'
    BY DEF ZeroConfInv, LockupJob
  <1>0. s \in Swaps
    BY BoundsAssumption
  <1>1. zeroConf'[s] = zeroConf[s] /\ (mined[s] => mined'[s]) /\ (Covered(s) => Covered(s)')
    BY NextFirst DEF Covered
  <1>2. check'[s][TRUE].at # "idle" => mined'[s]
    <2>1. ASSUME Notices(s), known[s] PROVE mined[s]
      BY <1>0, <2>1 DEF Notices, CheckSwapOutputs, NextNews, KnownInv
    <2>. QED  BY <1>0, <1>1, <2>1, NextChecks DEF ZeroConfInv, TypeOK
  <1>3. check'[s][FALSE].at # "idle" => check'[s][FALSE].zeroConf = zeroConf'[s]
    BY <1>0, <1>1, NextChecks DEF ZeroConfInv
  <1>4. ASSUME NEW j \in Jobs, NewJob(j), LockupJob(j, s) PROVE Covered(s)
    <2>1. PICK c \in BOOLEAN : check[s][c].at # "idle" /\ (c \/ check[s][c].zeroConf)
      BY <1>4 DEF NewJob, LockupJob, Hands
    <2>. QED  BY <2>1 DEF ZeroConfInv, Covered
  <1>5. ASSUME NEW i \in 1..Len(queue'), LockupJob(queue'[i], s) PROVE Covered(s)
    <2>1. ASSUME NEW k \in 1..Len(queue), queue'[i] = queue[k] PROVE Covered(s)
      BY <1>5, <2>1 DEF ZeroConfInv
    <2>2. CASE UNCHANGED queue
      BY <2>1, <2>2
    <2>3. ASSUME NEW j \in Jobs, NewJob(j), queue' = Append(queue, j) PROVE Covered(s)
      BY <1>4, <1>5, <2>1, <2>3, AppendFacts DEF TypeOK
    <2>4. CASE queue # << >> /\ queue' = Tail(queue)
      BY <2>1, <2>4, TailFacts DEF TypeOK
    <2>5. CASE queue' = << >>
      BY <2>5
    <2>. QED  BY <2>2, <2>3, <2>4, <2>5, NextQueue DEF QueueStep
  <1>6. Depends(s)' => Covered(s)
    <2>1. ASSUME StartsClaim(s) PROVE Covered(s)
      <3>1. queue # << >> /\ Head(queue).kind = "swap.lockup" /\ Head(queue).swap = s
        BY <2>1 DEF StartsClaim, Running
      <3>2. LockupJob(queue[1], s) /\ 1 \in 1..Len(queue)
        BY <3>1, HeadFacts DEF LockupJob, Retry, TypeOK
      <3>. QED  BY <3>2 DEF ZeroConfInv
    <2>2. ~ReadSwap(s)
      BY DEF ReadSwap, FirstInv
    <2>. QED  BY <1>0, <2>1, <2>2, NextDepends DEF ZeroConfInv
  <1>. QED  BY <1>1, <1>2, <1>3, <1>5, <1>6

(* A swap that was created with its invoice is paid for before its lockup  *)
(* is confirmed only if it accepts 0-conf: with crashes, with retries, and *)
(* whatever else the backend is doing.  Of swaps whose invoice comes later *)
(* this is false, as the run SS_zero_conf shows.                           *)
THEOREM ZeroConfAccepted ==
  Spec => [](\A s \in InvoiceFirst : payment[s] # "none" => mined[s] \/ zeroConf[s])
  <1>1. Init => KnownInv /\ FirstInv /\ ZeroConfInv
    <2>. SUFFICES ASSUME Init PROVE KnownInv /\ FirstInv /\ ZeroConfInv
      OBVIOUS
    <2>1. /\ queue = << >> /\ retrying = {}
          /\ \A s \in Swaps :
               /\ status[s] \in {"InvoiceSet", "SwapCreated"} /\ payment[s] = "none"
               /\ ~known[s] /\ call[s] = NoCall /\ call[s].at = "idle"
               /\ \A c \in BOOLEAN : check[s][c].at = "idle"
               /\ \A w \in Workers : claim[s][w] = "idle"
               /\ s \in InvoiceFirst => invoice[s]
      BY DEF Init, NoCheck, NoCall, NoClaim
    <2>2. \A s \in Swaps : ~Depends(s)
      BY <2>1 DEF Depends
    <2>3. KnownInv /\ FirstInv
      BY <2>1, BoundsAssumption DEF KnownInv, FirstInv
    <2>4. Len(queue) = 0 /\ 1..Len(queue) = {}
      BY <2>1
    <2>5. \A s \in InvoiceFirst : check[s][TRUE].at = "idle" /\ check[s][FALSE].at = "idle"
      BY <2>1, BoundsAssumption
    <2>6. ZeroConfInv
      BY <2>2, <2>4, <2>5, BoundsAssumption DEF ZeroConfInv
    <2>. QED  BY <2>3, <2>6
  <1>2. IInv /\ KnownInv /\ FirstInv /\ ZeroConfInv /\ [Next]_vars =>
          KnownInv' /\ FirstInv' /\ ZeroConfInv'
    BY NextKnown, NextFirst, NextZeroConf DEF IInv
  <1>3. ZeroConfInv => \A s \in InvoiceFirst : payment[s] # "none" => mined[s] \/ zeroConf[s]
    BY DEF ZeroConfInv, Depends, Covered
  <1>. QED  BY <1>1, <1>2, <1>3, Inductive, PTL DEF Spec

(* The property the runs check: if all swaps come with their invoice, none *)
(* is paid for early unless it accepts 0-conf.                             *)
THEOREM ZeroConfIsAccepted ==
  ASSUME InvoiceFirst = Swaps
  PROVE  Spec => []ZeroConfOnlyIfAccepted
  <1>1. (\A s \in InvoiceFirst : payment[s] # "none" => mined[s] \/ zeroConf[s])
          => ZeroConfOnlyIfAccepted
    BY DEF ZeroConfOnlyIfAccepted
  <1>. QED  BY <1>1, ZeroConfAccepted, PTL

-----------------------------------------------------------------------------
(***************************************************************************)
(* Blocks that do not overtake the backend.  The hypotheses are those of   *)
(* the run SS_timely: handlers and payments end before the next block,     *)
(* every swap comes with its invoice, and the backend does not crash.      *)
(***************************************************************************)
InTime == Timely /\ InvoiceFirst = Swaps /\ MaxRestarts = 0

Late(s) == Timeout[s] <= height

(* The three things the backend may be doing with a swap: looking at its   *)
(* lockup, keeping an event about it, and paying, claiming or retrying.    *)
Watching(s) == \E c \in BOOLEAN : check[s][c].at # "idle"

QueuedAt(i, s) ==
  /\ queue[i] # Retry /\ queue[i].swap = s /\ queue[i].kind # "swap.expired"
  /\ i = 1 => step = "start"

Queued(s) == \E i \in 1..Len(queue) : QueuedAt(i, s)

Settling(s) == Active(s) \/ status[s] = "InvoicePending" \/ s \in retrying

Still(s) == ~Watching(s) /\ ~Queued(s) /\ ~Settling(s)

(* Before a notification is handled, and from the timeout height on,       *)
(* nothing happens to the swap.                                            *)
Fresh(s) == news[s] = 0 \/ (mined[s] /\ news[s] = 1) \/ Late(s)

ExpiryJob(j, s) == j # Retry /\ j.swap = s /\ j.kind = "swap.expired"

RestOK(s) ==
  /\ claim[s]["api"] = "idle"
  /\ mined[s] => news[s] > 0
  /\ Fresh(s) => Still(s)
  /\ Late(s) /\ sent[s] => mined[s] /\ news[s] = 2
  /\ spend[s] = "refund" => Late(s)
  /\ \A i \in 1..Len(queue) : ExpiryJob(queue[i], s) => Late(s)

(* It does one of the three at a time, and pays only at the end.           *)
OneOK(s) ==
  /\ Watching(s) => ~Queued(s) /\ ~Settling(s) /\ payment[s] = "none"
  /\ \A c, d \in BOOLEAN : check[s][c].at # "idle" /\ check[s][d].at # "idle" => c = d
  /\ Queued(s) => ~Settling(s) /\ payment[s] = "none"
  /\ \A i, j \in 1..Len(queue) : QueuedAt(i, s) /\ QueuedAt(j, s) => i = j

LoopOK(s) ==
  s \in retrying => step = "retrying" /\ ~Active(s) /\ status[s] = "InvoicePending"

(* What the row says of a payment that is out.                             *)
PayOK(s) ==
  /\ claim[s]["lock"] \in {"send", "waiting", "rejected", "paid"} => status[s] = "InvoicePending"
  /\ claim[s]["lock"] = "rejected" => payment[s] = "none"
  /\ payment[s] # "none" /\ Settling(s) => ~invoiceExpired[s]
  /\ payment[s] = "inflight" => status[s] = "InvoicePending"
  /\ payment[s] # "none" =>
       status[s] \in {"InvoicePending", "InvoicePaid", "TransactionClaimed", "SwapExpired"}

TimelyInv == \A s \in Swaps : RestOK(s) /\ OneOK(s) /\ LoopOK(s) /\ PayOK(s)

(* The backend stays up, nobody calls setSwapInvoice, and only the lock's  *)
(* holder settles swaps.                                                   *)
LEMMA NoRestart == InTime /\ TypeOK => ~Restart
  BY BoundsAssumption DEF InTime, TypeOK, Restart

LEMMA NoCalls ==
  ASSUME InTime, FirstInv, NEW s \in Swaps
  PROVE  ~ReadSwap(s) /\ ~SetInvoice(s)
  BY DEF InTime, FirstInv, ReadSwap, SetInvoice, NoCall

LEMMA OnlyLock ==
  ASSUME TimelyInv, NEW s \in Swaps, NEW w \in Workers, claim[s][w] # "idle"
  PROVE  w = "lock" /\ Active(s)
  BY DEF TimelyInv, RestOK, Workers, Active

(* Where the events of a swap are after a step: where they were, one place *)
(* further on, or with one more at the end that UtxoNursery has handed in. *)
LEMMA NextQueuedAt ==
  ASSUME TypeOK, QueueStep, NEW s \in Swaps
  PROVE  \/ \A i \in 1..Len(queue') : QueuedAt(i, s)' => i \in 1..Len(queue) /\ QueuedAt(i, s)
         \/ \A i \in 1..Len(queue') :
              QueuedAt(i, s)' => i + 1 \in 1..Len(queue) /\ QueuedAt(i + 1, s)
         \/ /\ \E c \in BOOLEAN : Hands(s, c)
            /\ \A i \in 1..Len(queue') :
                 QueuedAt(i, s)' =>
                   (i \in 1..Len(queue) /\ QueuedAt(i, s)) \/ i = Len(queue) + 1
  <1>0. queue \in Seq(Jobs)
    BY DEF TypeOK
  <1>1. CASE UNCHANGED queue /\ (step' = step \/ step' # "start")
    BY <1>1 DEF QueuedAt
  <1>2. ASSUME NEW j \in Jobs, NewJob(j), queue' = Append(queue, j), step' = step
        PROVE  \/ \A i \in 1..Len(queue') :
                    QueuedAt(i, s)' => i \in 1..Len(queue) /\ QueuedAt(i, s)
               \/ /\ \E c \in BOOLEAN : Hands(s, c)
                  /\ \A i \in 1..Len(queue') :
                       QueuedAt(i, s)' =>
                         (i \in 1..Len(queue) /\ QueuedAt(i, s)) \/ i = Len(queue) + 1
    <2>1. Len(queue') = Len(queue) + 1 /\ queue'[Len(queue) + 1] = j
          /\ \A i \in 1..Len(queue) : queue'[i] = queue[i]
      BY <1>0, <1>2
    <2>2. ASSUME NEW i \in 1..Len(queue'), QueuedAt(i, s)'
          PROVE  (i \in 1..Len(queue) /\ QueuedAt(i, s)) \/ i = Len(queue) + 1
      <3>1. i \in 1..Len(queue) \/ i = Len(queue) + 1
        BY <1>0, <2>1
      <3>. QED  BY <1>2, <2>1, <2>2, <3>1 DEF QueuedAt
    <2>3. CASE \E c \in BOOLEAN : Hands(s, c)
      BY <2>2, <2>3
    <2>4. CASE ~ \E c \in BOOLEAN : Hands(s, c)
      <3>1. ~(j # Retry /\ j.swap = s /\ j.kind # "swap.expired")
        BY <1>2, <2>4 DEF NewJob
      <3>2. \A i \in 1..Len(queue') : QueuedAt(i, s)' => i # Len(queue) + 1
        BY <2>1, <3>1 DEF QueuedAt
      <3>. QED  BY <2>2, <3>2
    <2>. QED  BY <2>3, <2>4
  <1>3. CASE queue # << >> /\ queue' = Tail(queue)
    <2>1. \A i \in 1..Len(queue') : i + 1 \in 1..Len(queue) /\ queue'[i] = queue[i + 1] /\ i + 1 # 1
      BY <1>0, <1>3, TailFacts
    <2>. QED  BY <2>1 DEF QueuedAt
  <1>4. CASE queue' = << >>
    BY <1>4
  <1>. QED  BY <1>1, <1>2, <1>3, <1>4 DEF QueueStep

(* So an event about a lockup comes from a check.                          *)
LEMMA NextQueued ==
  ASSUME TypeOK, LockInv, [Next]_vars, NEW s \in Swaps
  PROVE  Queued(s)' => Queued(s) \/ \E c \in BOOLEAN : Hands(s, c)
  BY NextQueue, NextQueuedAt DEF Queued

(* Expiry events are about swaps that timed out.                           *)
LEMMA NextExpiryJob ==
  ASSUME TypeOK, LockInv, [Next]_vars, NEW s \in Swaps,
         \A i \in 1..Len(queue) : ExpiryJob(queue[i], s) => Late(s)
  PROVE  \A i \in 1..Len(queue') : ExpiryJob(queue'[i], s) => Late(s)
  <1>. SUFFICES ASSUME NEW i \in 1..Len(queue'), ExpiryJob(queue'[i], s) PROVE Late(s)
    OBVIOUS
  <1>1. ASSUME NEW k \in 1..Len(queue), queue'[i] = queue[k] PROVE Late(s)
    BY <1>1
  <1>2. CASE UNCHANGED queue
    BY <1>1, <1>2
  <1>3. ASSUME NEW j \in Jobs, NewJob(j), queue' = Append(queue, j) PROVE Late(s)
    <2>1. ExpiryJob(j, s) => Late(s)
      BY <1>3 DEF NewJob, ExpiryJob, Late
    <2>. QED  BY <1>1, <1>3, <2>1, AppendFacts DEF TypeOK
  <1>4. CASE queue # << >> /\ queue' = Tail(queue)
    BY <1>1, <1>4, TailFacts DEF TypeOK
  <1>5. CASE queue' = << >>
    BY <1>5
  <1>. QED  BY <1>2, <1>3, <1>4, <1>5, NextQueue DEF QueueStep

(* The swap that a step settles: only its own row, its own payment and its *)
(* own run of claimUtxo change.                                            *)
Touches(s) ==
  \/ ExpireInvoice(s) \/ PaymentSucceeds(s) \/ PaymentRejected(s) \/ PaymentFails(s)
  \/ \E c \in BOOLEAN : SetLockupTransaction(s, c)
  \/ Claim(s, "lock") \/ RaceTimeout(s, "lock") \/ BroadcastFails(s, "lock")
  \/ SetSwapExpired(s) \/ LockupFailed(s) \/ ZeroConfRejected(s) \/ OnLockup(s)
  \/ RetryNext(s)

Untouched(s) ==
  /\ status'[s] = status[s] /\ payment'[s] = payment[s] /\ claim'[s] = claim[s]
  /\ invoiceExpired'[s] = invoiceExpired[s]

LEMMA NextTouches ==
  ASSUME InTime, TypeOK, FirstInv, TimelyInv, [Next]_vars
  PROVE  \A t \in Swaps : Untouched(t) \/ Touches(t)
  <1>. DEFINE Others(s) == \A t \in Swaps \ {s} : Untouched(t)
              All == \A t \in Swaps : Untouched(t)
  <1>1. UNCHANGED <<status, payment, claim, invoiceExpired>> => All
    BY DEF Untouched
  <1>2. ASSUME NEW s \in Swaps, NEW w \in Workers, NEW at \in ClaimSteps, GoOn(s, w, at)
        PROVE  \A t \in Swaps \ {s} : claim'[t] = claim[t]
    BY <1>2 DEF GoOn, TypeOK
  <1>3. ASSUME NEW s \in Swaps, NEW value, SetStatus(s, value)
        PROVE  \A t \in Swaps \ {s} : status'[t] = status[t]
    BY <1>3 DEF SetStatus, TypeOK
  <1>4. ASSUME NEW s \in Swaps, ExpireInvoice(s) PROVE Others(s)
    BY <1>4 DEF ExpireInvoice, Untouched, TypeOK, row
  <1>5. ASSUME NEW s \in Swaps, PaymentSucceeds(s) \/ PaymentRejected(s) \/ PaymentFails(s)
        PROVE  Others(s)
    BY <1>5
    DEF PaymentSucceeds, PaymentRejected, PaymentFails, Tell, Untouched, TypeOK, row
  <1>6. ASSUME NEW s \in Swaps, NEW c \in BOOLEAN, SetLockupTransaction(s, c) PROVE Others(s)
    BY <1>3, <1>6 DEF SetLockupTransaction, Untouched, ln
  <1>7. ASSUME NEW s \in Swaps, SetSwapExpired(s) \/ LockupFailed(s) \/ ZeroConfRejected(s)
        PROVE  Others(s)
    BY <1>3, <1>7 DEF SetSwapExpired, LockupFailed, ZeroConfRejected, Untouched, ln
  <1>8. ASSUME NEW s \in Swaps, OnLockup(s) \/ RetryNext(s) PROVE Others(s)
    <2>1. UNCHANGED claim \/ \E at \in {"start", "send"} : GoOn(s, "lock", at)
      BY <1>8 DEF OnLockup, RetryNext
    <2>2. \A t \in Swaps \ {s} : claim'[t] = claim[t]
      BY <1>2, <2>1 DEF Workers, ClaimSteps
    <2>. QED  BY <1>8, <2>2 DEF OnLockup, RetryNext, Untouched, row, ln
  <1>9. ASSUME NEW s \in Swaps, NEW w \in Workers,
               Claim(s, w) \/ RaceTimeout(s, w) \/ BroadcastFails(s, w)
        PROVE  w = "lock" /\ Others(s)
    <2>1. claim[s][w] # "idle"
      BY <1>9
      DEF Claim, SetInvoicePending, SendPayment, SentBefore, PaidBefore, InvoiceIsExpired,
          Abandon, SetInvoicePaid, Broadcast, SetMinerFee, RaceTimeout, BroadcastFails
    <2>2. \E at \in ClaimSteps : GoOn(s, w, at)
      BY <1>9
      DEF Claim, SetInvoicePending, SendPayment, SentBefore, PaidBefore, TrackPayment,
          InvoiceIsExpired, Abandon, SetInvoicePaid, Broadcast, SetMinerFee, RaceTimeout,
          BroadcastFails, Finish, Throw, ClaimSteps
    <2>3. \A t \in Swaps \ {s} : status'[t] = status[t]
      BY <1>3, <1>9
      DEF Claim, SetInvoicePending, SendPayment, SentBefore, PaidBefore, InvoiceIsExpired,
          Abandon, SetInvoicePaid, Broadcast, SetMinerFee, RaceTimeout, BroadcastFails, row
    <2>4. /\ \A t \in Swaps \ {s} : payment'[t] = payment[t]
          /\ UNCHANGED invoiceExpired
      BY <1>9
      DEF Claim, SetInvoicePending, SendPayment, SentBefore, PaidBefore, InvoiceIsExpired,
          Abandon, SetInvoicePaid, Broadcast, SetMinerFee, RaceTimeout, BroadcastFails, ln,
          TypeOK
    <2>5. \A t \in Swaps \ {s} : claim'[t] = claim[t]
      BY <1>2, <2>2
    <2>. QED  BY <2>1, <2>3, <2>4, <2>5, OnlyLock DEF Untouched
  <1>10. ASSUME \/ RetryTimer \/ RetryQuery \/ RetryDone \/ MineBlock \/ UNCHANGED vars
                \/ \E s \in Swaps : \/ UserLocks(s) \/ UserRefunds(s) \/ MineLockup(s)
                                    \/ CheckSwapOutputs(s) \/ CheckExpiredSwaps(s)
                                    \/ RejectZeroConf(s) \/ QueryExpired(s)
                                    \/ \E c \in BOOLEAN : \/ RejectLowAmount(s, c)
                                                          \/ AcceptLockup(s, c)
         PROVE  UNCHANGED <<status, payment, claim, invoiceExpired>>
    BY <1>10, ZenonT(60)
    DEF RetryTimer, RetryQuery, RetryDone, MineBlock, vars, UserLocks, UserRefunds, MineLockup,
        CheckSwapOutputs, CheckExpiredSwaps, RejectZeroConf, QueryExpired, RejectLowAmount,
        AcceptLockup, row, ln
  <1>11. All \/ \E s \in Swaps : Touches(s) /\ Others(s)
    <2>1. ASSUME NEW s \in Swaps, Environment(s) \/ Nursery(s) \/ Api(s) \/ Handler(s)
          PROVE  All \/ (Touches(s) /\ Others(s))
      BY <1>1, <1>4, <1>5, <1>6, <1>7, <1>8, <1>10, <2>1, NoCalls
      DEF Environment, Nursery, Api, Handler, Touches
    <2>2. ASSUME NEW s \in Swaps, NEW w \in Workers,
                 Claim(s, w) \/ RaceTimeout(s, w) \/ BroadcastFails(s, w)
          PROVE  Touches(s) /\ Others(s)
      BY <1>9, <2>2 DEF Touches
    <2>3. ASSUME RetryLoop PROVE All \/ \E s \in Swaps : Touches(s) /\ Others(s)
      BY <1>1, <1>8, <1>10, <2>3 DEF RetryLoop, Touches
    <2>. QED  BY <1>1, <1>10, <2>1, <2>2, <2>3, NoRestart DEF Next
  <1>. QED  BY <1>11

(* A swap comes to be settled by an event about its lockup.                *)
LEMMA NextSettling ==
  ASSUME InTime, TypeOK, LockInv, FirstInv, TimelyInv, [Next]_vars, NEW t \in Swaps
  PROVE  /\ Settling(t)' => Settling(t) \/ OnLockup(t)
         /\ t \in retrying' => t \in retrying \/ (RetryQuery /\ status[t] = "InvoicePending")
  <1>1. t \in retrying' => t \in retrying \/ (RetryQuery /\ status[t] = "InvoicePending")
    <2>1. retrying' \subseteq retrying \/ RetryQuery
      <3>1. ASSUME NEW s \in Swaps, Environment(s) \/ Nursery(s) \/ Api(s) \/ Handler(s)
            PROVE  retrying' \subseteq retrying
        BY <3>1
        DEF Environment, UserLocks, UserRefunds, MineLockup, ExpireInvoice, PaymentSucceeds,
            PaymentRejected, PaymentFails, Nursery, CheckSwapOutputs, CheckExpiredSwaps,
            RejectZeroConf, SetLockupTransaction, RejectLowAmount, AcceptLockup, Api, ReadSwap,
            SetInvoice, Handler, QueryExpired, SetSwapExpired, LockupFailed, ZeroConfRejected,
            OnLockup, Release, Goto, lock
      <3>2. ASSUME NEW s \in Swaps, NEW w \in Workers,
                   Claim(s, w) \/ RaceTimeout(s, w) \/ BroadcastFails(s, w)
            PROVE  retrying' \subseteq retrying
        BY <3>2
        DEF Claim, SetInvoicePending, SendPayment, SentBefore, PaidBefore, TrackPayment,
            InvoiceIsExpired, Abandon, SetInvoicePaid, Broadcast, SetMinerFee, RaceTimeout,
            BroadcastFails, Finish, Throw, Release, lock
      <3>3. ASSUME \/ RetryTimer \/ RetryDone \/ MineBlock \/ Restart \/ UNCHANGED vars
                   \/ \E s \in Swaps : RetryNext(s)
            PROVE  retrying' \subseteq retrying
        BY <3>3 DEF RetryTimer, RetryDone, MineBlock, Restart, vars, RetryNext, Release, lock
      <3>. QED  BY <3>1, <3>2, <3>3 DEF Next, RetryLoop
    <2>. QED  BY <2>1 DEF RetryQuery, PendingInvoices
  <1>2. ASSUME Untouched(t) PROVE Settling(t)' => Settling(t)
    BY <1>1, <1>2 DEF Untouched, Settling, Active
  <1>3. ASSUME Claim(t, "lock") \/ RaceTimeout(t, "lock") \/ BroadcastFails(t, "lock")
        PROVE  Settling(t)
    BY <1>3
    DEF Claim, SetInvoicePending, SendPayment, SentBefore, PaidBefore, InvoiceIsExpired, Abandon,
        SetInvoicePaid, Broadcast, SetMinerFee, RaceTimeout, BroadcastFails, Settling, Active
  <1>4. ASSUME ExpireInvoice(t) \/ PaymentSucceeds(t) \/ PaymentRejected(t) \/ PaymentFails(t)
        PROVE  Settling(t)' => Settling(t)
    <2>1. Active(t)' => Active(t)
      <3>1. CASE UNCHANGED claim
        BY <3>1 DEF Active
      <3>2. CASE \E result \in {"paid", "rejected", "idle"} : Tell(t, result)
        BY <3>2, TellFacts DEF ClaimSteps, Workers, Active
      <3>. QED  BY <1>4, <3>1, <3>2 DEF ExpireInvoice, PaymentSucceeds, PaymentRejected, PaymentFails
    <2>2. UNCHANGED status
      BY <1>4 DEF ExpireInvoice, PaymentSucceeds, PaymentRejected, PaymentFails, row
    <2>. QED  BY <1>1, <2>1, <2>2 DEF Settling
  <1>5. ASSUME \/ SetSwapExpired(t) \/ LockupFailed(t) \/ ZeroConfRejected(t)
               \/ \E c \in BOOLEAN : SetLockupTransaction(t, c)
        PROVE  Settling(t)' => Settling(t)
    <2>1. UNCHANGED claim
      BY <1>5 DEF SetSwapExpired, LockupFailed, ZeroConfRejected, SetLockupTransaction
    <2>2. status'[t] # "InvoicePending"
      BY <1>5
      DEF SetSwapExpired, LockupFailed, ZeroConfRejected, SetLockupTransaction, SetStatus, TypeOK
    <2>3. ~RetryQuery
      BY <1>5
      DEF RetryQuery, RunningRetry, SetSwapExpired, LockupFailed, ZeroConfRejected,
          SetLockupTransaction, Release, lock
    <2>. QED  BY <1>1, <2>1, <2>2, <2>3 DEF Settling, Active
  <1>6. ASSUME RetryNext(t) PROVE Settling(t)
    BY <1>6 DEF RetryNext, Settling
  <1>. QED  BY <1>1, <1>2, <1>3, <1>4, <1>5, <1>6, NextTouches DEF Touches

(* Only users and claimUtxo spend lockups.                                 *)
LEMMA NextSpend ==
  ASSUME [Next]_vars
  PROVE  \/ UNCHANGED spend \/ \E s \in Swaps : UserRefunds(s)
         \/ \E s \in Swaps, w \in Workers : Broadcast(s, w)
  <1>1. ASSUME NEW s \in Swaps, \/ UserLocks(s) \/ MineLockup(s) \/ ExpireInvoice(s)
                               \/ PaymentSucceeds(s) \/ PaymentRejected(s) \/ PaymentFails(s)
                               \/ Nursery(s) \/ Api(s) \/ Handler(s)
        PROVE  UNCHANGED spend
    BY <1>1
    DEF UserLocks, MineLockup, ExpireInvoice, PaymentSucceeds, PaymentRejected, PaymentFails,
        Nursery, CheckSwapOutputs, CheckExpiredSwaps, RejectZeroConf, SetLockupTransaction,
        RejectLowAmount, AcceptLockup, Api, ReadSwap, SetInvoice, Handler, QueryExpired,
        SetSwapExpired, LockupFailed, ZeroConfRejected, OnLockup, chain
  <1>2. ASSUME NEW s \in Swaps, NEW w \in Workers,
               \/ SetInvoicePending(s, w) \/ SendPayment(s, w) \/ SentBefore(s, w)
               \/ PaidBefore(s, w) \/ InvoiceIsExpired(s, w) \/ Abandon(s, w)
               \/ SetInvoicePaid(s, w) \/ SetMinerFee(s, w) \/ RaceTimeout(s, w)
               \/ BroadcastFails(s, w)
        PROVE  UNCHANGED spend
    BY <1>2
    DEF SetInvoicePending, SendPayment, SentBefore, PaidBefore, InvoiceIsExpired, Abandon,
        SetInvoicePaid, SetMinerFee, RaceTimeout, BroadcastFails, chain
  <1>3. ASSUME RetryTimer \/ RetryLoop \/ MineBlock \/ Restart \/ UNCHANGED vars
        PROVE  UNCHANGED spend
    BY <1>3
    DEF RetryTimer, RetryLoop, RetryQuery, RetryDone, RetryNext, MineBlock, Restart, vars, chain
  <1>. QED  BY <1>1, <1>2, <1>3 DEF Next, Environment, Claim

(* Fresh swaps stay fresh until they are notified of, and become fresh when*)
(* the chain moves, which it does when the backend has nothing to do.      *)
LEMMA NextFresh ==
  ASSUME InTime, TypeOK, FirstInv, TimelyInv, [Next]_vars, NEW s \in Swaps
  PROVE  /\ Fresh(s)' =>
              \/ Fresh(s) /\ ~CheckSwapOutputs(s)
              \/ Quiet /\ UNCHANGED <<row, check, lock, claim>>
         /\ mined'[s] => news'[s] > 0
         /\ Late(s)' /\ sent'[s] => mined'[s] /\ news'[s] = 2
         /\ Late(s) => Late(s)'
  <1>0. /\ mined[s] => news[s] > 0
        /\ Late(s) /\ sent[s] => mined[s] /\ news[s] = 2
        /\ news[s] \in 0..2 /\ height \in Nat /\ Timeout[s] \in Nat
    BY BoundsAssumption DEF TimelyInv, RestOK, TypeOK
  <1>1. ASSUME CheckSwapOutputs(s)
        PROVE  /\ ~Fresh(s)' /\ (mined'[s] => news'[s] > 0)
               /\ Late(s)' /\ sent'[s] => mined'[s] /\ news'[s] = 2
               /\ Late(s) => Late(s)'
    <2>1. UNCHANGED <<sent, mined, height>> /\ news'[s] = news[s] + 1
      BY <1>1 DEF CheckSwapOutputs, chain, TypeOK
    <2>2. sent[s] /\ news[s] < 2 /\ (news[s] = 1 => mined[s])
      BY <1>1 DEF CheckSwapOutputs, NextNews
    <2>. QED  BY <1>0, <2>1, <2>2 DEF Fresh, Late
  <1>2. ASSUME ~CheckSwapOutputs(s) PROVE news'[s] = news[s]
    <2>1. ASSUME NEW t \in Swaps, CheckSwapOutputs(t) PROVE news'[s] = news[s]
      BY <1>2, <2>1 DEF CheckSwapOutputs, TypeOK
    <2>. QED  BY <2>1, NextNotified, NoRestart
  <1>3. ASSUME NEW t \in Swaps, MineLockup(t)
        PROVE  /\ UNCHANGED <<news, height, sent, row, check, lock, claim>> /\ Quiet
               /\ (mined'[s] => news'[s] > 0) /\ (mined[s] => mined'[s])
    <2>1. /\ UNCHANGED <<news, height, sent, row, check, lock, claim>> /\ Quiet
          /\ sent[t] /\ mined' = [mined EXCEPT ![t] = TRUE]
      BY <1>3 DEF InTime, MineLockup, zmq
    <2>2. news[t] > 0
      BY <2>1 DEF Quiet
    <2>. QED  BY <1>0, <2>1, <2>2 DEF TypeOK
  <1>4. ASSUME MineBlock
        PROVE  /\ UNCHANGED <<news, mined, sent, row, check, lock, claim>> /\ Quiet
               /\ Late(s)' /\ sent'[s] => mined'[s] /\ news'[s] = 2
               /\ Late(s) => Late(s)'
    <2>1. /\ UNCHANGED <<news, mined, sent, row, check, lock, claim>> /\ Quiet
          /\ height' = height + 1
          /\ sent[s] /\ Timeout[s] <= height + 1 => mined[s]
      BY <1>4 DEF InTime, MineBlock, zmq
    <2>2. mined[s] => news[s] = 2
      BY <2>1 DEF Quiet
    <2>. QED  BY <1>0, <2>1, <2>2 DEF Late
  <1>5. ASSUME NEW t \in Swaps, UserLocks(t)
        PROVE  UNCHANGED <<mined, height, news>> /\ (sent'[s] => sent[s] \/ ~Late(s))
    BY <1>0, <1>5 DEF InTime, UserLocks, zmq, Late, TypeOK
  <1>6. \/ UNCHANGED <<sent, mined, height>> \/ MineBlock
        \/ \E t \in Swaps : UserLocks(t) \/ MineLockup(t)
    BY NextWorld
  <1>7. CASE ~CheckSwapOutputs(s)
    BY <1>0, <1>2, <1>3, <1>4, <1>5, <1>6, <1>7 DEF Fresh, Late
  <1>. QED  BY <1>1, <1>7

(* When nothing runs, nothing happens to any swap.                         *)
LEMMA QuietStill ==
  ASSUME TypeOK, LockInv, TimelyInv, Quiet, NEW s \in Swaps
  PROVE  Still(s)
  <1>1. ~Watching(s)
    BY DEF Quiet, Watching, NoCheck
  <1>2. ~Queued(s)
    BY DEF Quiet, Queued
  <1>3. ~Active(s) /\ status[s] # "InvoicePending"
    BY DEF Quiet, Active, NoClaim, Workers
  <1>4. s \notin retrying
    BY DEF Quiet, LockInv, TimelyInv, LoopOK
  <1>. QED  BY <1>1, <1>2, <1>3, <1>4 DEF Still, Settling

(* A lockup event that is taken up waited in the queue.                    *)
LEMMA StartsQueued ==
  ASSUME TypeOK, NEW s \in Swaps, NEW k \in Kinds \ {"swap.expired"}, Running(k, s, "start")
  PROVE  1 \in 1..Len(queue) /\ QueuedAt(1, s) /\ Queued(s)
  <1>1. queue # << >> /\ Head(queue).kind = k /\ Head(queue).swap = s /\ step = "start"
    BY DEF Running
  <1>2. 1 \in 1..Len(queue) /\ queue[1] # Retry /\ queue[1].kind = k /\ queue[1].swap = s
    BY <1>1, HeadFacts DEF TypeOK, Retry, Kinds
  <1>. QED  BY <1>1, <1>2 DEF QueuedAt, Queued

(* An expiry event that is handled is of a swap that timed out.            *)
LEMMA ExpiringLate ==
  ASSUME TypeOK, TimelyInv, NEW s \in Swaps, SetSwapExpired(s)
  PROVE  Late(s)
  <1>1. queue # << >> /\ Head(queue).kind = "swap.expired" /\ Head(queue).swap = s
    BY DEF SetSwapExpired, Running
  <1>2. 1 \in 1..Len(queue) /\ ExpiryJob(queue[1], s)
    BY <1>1, HeadFacts DEF TypeOK, Retry, ExpiryJob
  <1>. QED  BY <1>2 DEF TimelyInv, RestOK

(* Nothing happens to a fresh swap, and timeouts come after confirmations. *)
LEMMA NextRest ==
  ASSUME InTime, TypeOK, LockInv, FirstInv, TimelyInv, [Next]_vars, NEW s \in Swaps
  PROVE  RestOK(s)'
  <1>1. (claim[s]["api"] = "idle")'
    <2>1. Untouched(s) => claim'[s]["api"] = "idle"
      BY DEF Untouched, TimelyInv, RestOK
    <2>2. ASSUME NEW at \in ClaimSteps, GoOn(s, "lock", at) PROVE claim'[s]["api"] = "idle"
      BY <2>2, GoOnFacts DEF Workers, TimelyInv, RestOK
    <2>3. ASSUME NEW result \in ClaimSteps, Tell(s, result) PROVE claim'[s]["api"] = "idle"
      BY <2>3, TellFacts DEF Workers, TimelyInv, RestOK
    <2>4. UNCHANGED claim => claim'[s]["api"] = "idle"
      BY DEF TimelyInv, RestOK
    <2>5. Touches(s) =>
            \/ UNCHANGED claim \/ \E at \in ClaimSteps : GoOn(s, "lock", at)
            \/ \E result \in ClaimSteps : Tell(s, result)
      BY DEF Touches, ExpireInvoice, PaymentSucceeds, PaymentRejected, PaymentFails,
             SetLockupTransaction, SetSwapExpired, LockupFailed, ZeroConfRejected, OnLockup,
             RetryNext, Claim, SetInvoicePending, SendPayment, SentBefore, PaidBefore,
             TrackPayment, InvoiceIsExpired, Abandon, SetInvoicePaid, Broadcast, SetMinerFee,
             RaceTimeout, BroadcastFails, Finish, Throw, ClaimSteps
    <2>. QED  BY <2>1, <2>2, <2>3, <2>4, <2>5, NextTouches
  <1>2. Fresh(s)' => Still(s)'
    <2>1. ASSUME Quiet, UNCHANGED <<row, check, lock, claim>> PROVE Still(s)'
      <3>1. Still(s)
        BY <2>1, QuietStill
      <3>. QED  BY <2>1, <3>1
                DEF Still, Watching, Queued, QueuedAt, Settling, Active, row, lock
    <2>2. ASSUME Fresh(s), ~CheckSwapOutputs(s) PROVE Still(s)'
      <3>1. ~Watching(s) /\ ~Queued(s) /\ ~Settling(s)
        BY <2>2 DEF TimelyInv, RestOK, Still
      <3>2. ~Watching(s)'
        BY <2>2, <3>1, NextChecks DEF Notices, Watching
      <3>3. ~Queued(s)'
        BY <3>1, NextQueued DEF Hands, Watching
      <3>4. ~Settling(s)'
        BY <3>1, NextSettling, StartsQueued DEF OnLockup, Kinds
      <3>. QED  BY <3>2, <3>3, <3>4 DEF Still
    <2>. QED  BY <2>1, <2>2, NextFresh
  <1>3. (spend[s] = "refund" => Late(s))'
    <2>1. spend'[s] = "refund" => spend[s] = "refund" \/ Late(s)
      <3>1. ASSUME NEW t \in Swaps, UserRefunds(t) PROVE spend'[s] = "refund" =>
                                                        spend[s] = "refund" \/ Late(s)
        BY <3>1 DEF UserRefunds, Late, TypeOK
      <3>2. ASSUME NEW t \in Swaps, NEW w \in Workers, Broadcast(t, w)
            PROVE  spend'[s] = "refund" => spend[s] = "refund"
        BY <3>2 DEF Broadcast, TypeOK
      <3>. QED  BY <3>1, <3>2, NextSpend
    <2>. QED  BY <2>1, NextFresh DEF TimelyInv, RestOK
  <1>4. (\A i \in 1..Len(queue) : ExpiryJob(queue[i], s) => Late(s))'
    BY NextExpiryJob, NextFresh DEF TimelyInv, RestOK, ExpiryJob
  <1>. QED  BY <1>1, <1>2, <1>3, <1>4, NextFresh DEF RestOK

(* A lockup that is taken up no longer waits, and no other event of the    *)
(* swap does.                                                              *)
LEMMA StartsAlone ==
  ASSUME TypeOK, QueueStep, TimelyInv, NEW s \in Swaps, OnLockup(s)
  PROVE  ~Queued(s)'
  <1>1. 1 \in 1..Len(queue) /\ QueuedAt(1, s)
    BY StartsQueued DEF OnLockup, Kinds
  <1>2. \A i \in 1..Len(queue) : QueuedAt(i, s) => i = 1
    BY <1>1 DEF TimelyInv, OneOK
  <1>3. queue \in Seq(Jobs) /\ queue # << >>
    BY DEF TypeOK, OnLockup, Running
  <1>4. CASE Goto("claiming")
    <2>1. queue' = queue /\ step' = "claiming"
      BY <1>4 DEF Goto
    <2>2. \A i \in 1..Len(queue') : QueuedAt(i, s)' => i # 1 /\ QueuedAt(i, s)
      BY <2>1 DEF QueuedAt
    <2>. QED  BY <1>2, <2>1, <2>2 DEF Queued
  <1>5. CASE Release
    <2>1. queue' = Tail(queue)
      BY <1>5 DEF Release
    <2>2. \A i \in 1..Len(queue') : i + 1 \in 1..Len(queue) /\ queue'[i] = queue[i + 1] /\ i + 1 # 1
      BY <1>3, <2>1, TailFacts
    <2>3. \A i \in 1..Len(queue') : QueuedAt(i, s)' => QueuedAt(i + 1, s)
      BY <2>2 DEF QueuedAt
    <2>. QED  BY <1>2, <2>2, <2>3 DEF Queued
  <1>. QED  BY <1>4, <1>5 DEF OnLockup

(* The backend does one thing at a time with a swap.                       *)
LEMMA NextOne ==
  ASSUME InTime, TypeOK, LockInv, FirstInv, TimelyInv, [Next]_vars, NEW s \in Swaps
  PROVE  OneOK(s)'
  <1>0. OneOK(s) /\ QueueStep
    BY NextQueue DEF TimelyInv
  <1>1. ASSUME ~Settling(s), payment[s] = "none" PROVE payment'[s] = "none"
    <2>1. ~Active(s) /\ claim[s]["lock"] = "idle"
      BY <1>1 DEF Settling, Active
    <2>2. Touches(s) => payment'[s] = "none"
      BY <1>1, <2>1
      DEF Touches, ExpireInvoice, PaymentSucceeds, PaymentRejected, PaymentFails,
          SetLockupTransaction, SetSwapExpired, LockupFailed, ZeroConfRejected, OnLockup,
          RetryNext, Claim, SetInvoicePending, SendPayment, SentBefore, PaidBefore,
          InvoiceIsExpired, Abandon, SetInvoicePaid, Broadcast, SetMinerFee, RaceTimeout,
          BroadcastFails, ln, TypeOK
    <2>. QED  BY <1>1, <2>2, NextTouches DEF Untouched
  <1>2. OnLockup(s) => Queued(s)
    BY StartsQueued DEF OnLockup, Kinds
  <1>3. ASSUME NEW c \in BOOLEAN, Hands(s, c)
        PROVE  Watching(s) /\ ~Watching(s)'
    <2>1. Watching(s) /\ \A d \in BOOLEAN : check[s][d].at # "idle" => d = c
      BY <1>0, <1>3 DEF Hands, Watching, OneOK
    <2>2. \A d \in BOOLEAN : check'[s][d].at # "idle" => check[s][d].at # "idle"
      BY <1>3, NextChecks
    <2>. QED  BY <1>3, <2>1, <2>2 DEF Hands, Watching
  <1>4. ASSUME Watching(s)'
        PROVE  ~Queued(s)' /\ ~Settling(s)' /\ payment'[s] = "none"
    <2>1. ~Queued(s) /\ ~Settling(s) /\ payment[s] = "none"
      <3>1. CASE Watching(s)
        BY <1>0, <3>1 DEF OneOK
      <3>2. CASE ~Watching(s)
        <4>1. Notices(s)
          BY <1>4, <3>2, NextChecks DEF Watching
        <4>2. Fresh(s) /\ status[s] \in Awaiting
          BY <4>1 DEF Notices, CheckSwapOutputs, NextNews, Fresh, TypeOK
        <4>3. Still(s)
          BY <4>2 DEF TimelyInv, RestOK
        <4>4. payment[s] = "none"
          BY <4>2 DEF TimelyInv, PayOK, Awaiting
        <4>. QED  BY <4>3, <4>4 DEF Still
      <3>. QED  BY <3>1, <3>2
    <2>2. ~Queued(s)'
      BY <1>3, <1>4, <2>1, NextQueued
    <2>3. ~Settling(s)'
      BY <1>2, <2>1, NextSettling
    <2>. QED  BY <1>1, <2>1, <2>2, <2>3
  <1>5. ASSUME NEW c \in BOOLEAN, NEW d \in BOOLEAN,
               check'[s][c].at # "idle", check'[s][d].at # "idle"
        PROVE  c = d
    <2>1. CASE Notices(s)
      <3>1. Fresh(s)
        BY <2>1 DEF Notices, CheckSwapOutputs, NextNews, Fresh, TypeOK
      <3>2. ~Watching(s)
        BY <3>1 DEF TimelyInv, RestOK, Still
      <3>. QED  BY <1>5, <3>2, NextChecks DEF Watching
    <2>2. CASE ~Notices(s)
      BY <1>0, <1>5, <2>2, NextChecks DEF OneOK
    <2>. QED  BY <2>1, <2>2
  <1>6. ASSUME Queued(s)' PROVE ~Settling(s)' /\ payment'[s] = "none"
    <2>1. Queued(s) \/ Watching(s)
      BY <1>3, <1>6, NextQueued
    <2>2. ~Settling(s) /\ payment[s] = "none"
      BY <1>0, <2>1 DEF OneOK
    <2>. QED  BY <1>0, <1>1, <1>6, <2>2, NextSettling, StartsAlone
  <1>7. ASSUME NEW i \in 1..Len(queue'), NEW j \in 1..Len(queue'), QueuedAt(i, s)', QueuedAt(j, s)'
        PROVE  i = j
    <2>0. queue \in Seq(Jobs) /\ i \in Nat /\ j \in Nat
      BY DEF TypeOK
    <2>1. CASE \E c \in BOOLEAN : Hands(s, c)
      <3>1. \A k \in 1..Len(queue) : ~QueuedAt(k, s)
        BY <1>0, <1>3, <2>1 DEF OneOK, Queued
      <3>2. \A k \in 1..Len(queue') : QueuedAt(k, s)' => k = Len(queue) + 1
        BY <1>0, <3>1, NextQueuedAt
      <3>. QED  BY <1>7, <3>2
    <2>2. CASE ~ \E c \in BOOLEAN : Hands(s, c)
      <3>1. \/ \A k \in 1..Len(queue') : QueuedAt(k, s)' => k \in 1..Len(queue) /\ QueuedAt(k, s)
            \/ \A k \in 1..Len(queue') :
                 QueuedAt(k, s)' => k + 1 \in 1..Len(queue) /\ QueuedAt(k + 1, s)
        BY <1>0, <2>2, NextQueuedAt
      <3>2. \A k, l \in 1..Len(queue) : QueuedAt(k, s) /\ QueuedAt(l, s) => k = l
        BY <1>0 DEF OneOK
      <3>3. CASE \A k \in 1..Len(queue') : QueuedAt(k, s)' => k \in 1..Len(queue) /\ QueuedAt(k, s)
        BY <1>7, <3>2, <3>3
      <3>4. CASE \A k \in 1..Len(queue') :
                   QueuedAt(k, s)' => k + 1 \in 1..Len(queue) /\ QueuedAt(k + 1, s)
        <4>1. i + 1 = j + 1
          BY <1>7, <3>2, <3>4
        <4>. QED  BY <2>0, <4>1
      <3>. QED  BY <3>1, <3>3, <3>4
    <2>. QED  BY <2>1, <2>2
  <1>. QED  BY <1>4, <1>5, <1>6, <1>7 DEF OneOK

(* The swaps the retry loop has yet to settle stay pending and are settled *)
(* by nobody else.                                                         *)
LEMMA NextLoop ==
  ASSUME InTime, TypeOK, LockInv, FirstInv, TimelyInv, [Next]_vars, NEW s \in Swaps
  PROVE  LoopOK(s)'
  <1>. SUFFICES ASSUME s \in retrying'
                PROVE  step' = "retrying" /\ ~Active(s)' /\ status'[s] = "InvoicePending"
    BY DEF LoopOK
  <1>1. CASE RetryQuery
    <2>1. UNCHANGED <<status, claim>> /\ step = "start" /\ step' = "retrying"
      BY <1>1 DEF RetryQuery, RunningRetry, row
    <2>2. ~Active(s)
      BY <2>1 DEF LockInv
    <2>3. status[s] = "InvoicePending"
      BY <1>1 DEF RetryQuery, PendingInvoices
    <2>. QED  BY <2>1, <2>2, <2>3 DEF Active
  <1>2. CASE ~RetryQuery
    <2>1. s \in retrying
      BY <1>2, NextSettling
    <2>2. step = "retrying" /\ ~Active(s) /\ status[s] = "InvoicePending" /\ ~Watching(s)
      BY <2>1 DEF TimelyInv, LoopOK, OneOK, Settling
    <2>3. step' = "retrying"
      BY <2>2, NextQueue DEF QueueStep
    <2>4. Untouched(s) => ~Active(s)' /\ status'[s] = "InvoicePending"
      BY <2>2 DEF Untouched, Active
    <2>5. ASSUME Touches(s) PROVE ~Active(s)' /\ status'[s] = "InvoicePending"
      <3>1. claim[s]["lock"] = "idle"
        BY <2>2 DEF Active
      <3>2. \/ ExpireInvoice(s) \/ PaymentSucceeds(s) \/ PaymentRejected(s) \/ PaymentFails(s)
        BY <2>2, <2>5, <3>1
        DEF Touches, SetLockupTransaction, SetSwapExpired, LockupFailed, ZeroConfRejected,
            OnLockup, RetryNext, Running, Claim, SetInvoicePending, SendPayment, SentBefore,
            PaidBefore, InvoiceIsExpired, Abandon, SetInvoicePaid, Broadcast, SetMinerFee,
            RaceTimeout, BroadcastFails, Watching
      <3>3. UNCHANGED status
        BY <3>2 DEF ExpireInvoice, PaymentSucceeds, PaymentRejected, PaymentFails, row
      <3>4. UNCHANGED claim \/ \E result \in {"paid", "rejected", "idle"} : Tell(s, result)
        BY <3>2 DEF ExpireInvoice, PaymentSucceeds, PaymentRejected, PaymentFails
      <3>5. claim'[s]["lock"] = "idle"
        BY <3>1, <3>4, TellFacts DEF ClaimSteps, Workers
      <3>. QED  BY <2>2, <3>3, <3>5 DEF Active
    <2>. QED  BY <2>3, <2>4, <2>5, NextTouches
  <1>. QED  BY <1>1, <1>2

(* A payment that is out is pending, and its swap is being settled.        *)
LEMMA NextPay ==
  ASSUME InTime, TypeOK, LockInv, WorkerInv, FirstInv, TimelyInv, [Next]_vars, NEW s \in Swaps
  PROVE  PayOK(s)'
  <1>. DEFINE at == claim[s]["lock"]
              OK(a, st, p) ==
                /\ a \in {"send", "waiting", "rejected", "paid"} => st = "InvoicePending"
                /\ a = "rejected" => p = "none"
                /\ p = "inflight" => st = "InvoicePending"
                /\ p # "none" =>
                     st \in {"InvoicePending", "InvoicePaid", "TransactionClaimed", "SwapExpired"}
  <1>0. /\ OK(at, status[s], payment[s])
        /\ payment[s] # "none" /\ Settling(s) => ~invoiceExpired[s]
        /\ at \in {"paid", "broadcast", "record"} => payment[s] = "paid"
        /\ Active(s) <=> at # "idle"
    BY DEF TimelyInv, PayOK, WorkerInv, Workers, Active
  <1>1. ASSUME OK(claim'[s]["lock"], status'[s], payment'[s]),
               payment'[s] # "none" => payment[s] # "none" \/ ~invoiceExpired[s],
               invoiceExpired'[s] = invoiceExpired[s]
        PROVE  PayOK(s)'
    <2>1. ASSUME payment'[s] # "none", Settling(s)' PROVE ~invoiceExpired'[s]
      <3>1. OnLockup(s) => payment[s] = "none"
        BY StartsQueued DEF OnLockup, Kinds, TimelyInv, OneOK
      <3>2. CASE payment[s] # "none"
        BY <1>0, <1>1, <2>1, <3>1, <3>2, NextSettling
      <3>3. CASE payment[s] = "none"
        BY <1>1, <2>1, <3>3
      <3>. QED  BY <3>2, <3>3
    <2>. QED  BY <1>1, <2>1 DEF PayOK
  <1>2. CASE Untouched(s)
    BY <1>0, <1>1, <1>2 DEF Untouched
  <1>3. ASSUME NEW a \in ClaimSteps, GoOn(s, "lock", a) PROVE claim'[s]["lock"] = a
    BY <1>3, GoOnFacts DEF Workers
  <1>4. ASSUME NEW v, SetStatus(s, v) PROVE status'[s] = v
    BY <1>4 DEF SetStatus, TypeOK
  <1>5. CASE ExpireInvoice(s)
    <2>1. Quiet /\ UNCHANGED <<status, payment, claim>>
      BY <1>5 DEF ExpireInvoice, InTime, row
    <2>2. ~Settling(s)
      BY <2>1, QuietStill DEF Still
    <2>3. ~Settling(s)'
      BY <1>5, <2>2, NextSettling DEF ExpireInvoice, OnLockup, Quiet, InTime, Running
    <2>. QED  BY <1>0, <2>1, <2>3 DEF PayOK
  <1>6. CASE PaymentSucceeds(s) \/ PaymentRejected(s) \/ PaymentFails(s)
    <2>1. PICK result \in {"paid", "rejected", "idle"} :
            /\ Tell(s, result) /\ payment'[s] = IF result = "paid" THEN "paid" ELSE "none"
      BY <1>6 DEF PaymentSucceeds, PaymentRejected, PaymentFails, TypeOK
    <2>2. claim'[s]["lock"] = IF at = "waiting" THEN result ELSE at
      BY <2>1, TellFacts DEF ClaimSteps, Workers
    <2>3. UNCHANGED <<status, invoiceExpired>> /\ payment[s] = "inflight"
      BY <1>6 DEF PaymentSucceeds, PaymentRejected, PaymentFails, row
    <2>. QED  BY <1>0, <1>1, <2>1, <2>2, <2>3
  <1>7. ASSUME \/ \E c \in BOOLEAN : SetLockupTransaction(s, c)
               \/ LockupFailed(s) \/ ZeroConfRejected(s) \/ SetSwapExpired(s)
        PROVE  PayOK(s)'
    <2>1. UNCHANGED <<payment, invoiceExpired, claim>>
      BY <1>7 DEF SetLockupTransaction, LockupFailed, ZeroConfRejected, SetSwapExpired, ln
    <2>2. CASE \E c \in BOOLEAN : SetLockupTransaction(s, c)
      <3>1. Watching(s)
        BY <2>2 DEF SetLockupTransaction, Watching
      <3>2. payment[s] = "none" /\ at = "idle"
        BY <1>0, <3>1 DEF TimelyInv, OneOK, Settling
      <3>. QED  BY <1>1, <2>1, <3>2
    <2>3. CASE LockupFailed(s) \/ ZeroConfRejected(s)
      <3>1. Queued(s)
        BY <2>3, StartsQueued DEF LockupFailed, ZeroConfRejected, Kinds
      <3>2. payment[s] = "none" /\ at = "idle"
        BY <1>0, <3>1 DEF TimelyInv, OneOK, Settling
      <3>. QED  BY <1>1, <2>1, <3>2
    <2>4. CASE SetSwapExpired(s)
      <3>1. Still(s)
        BY <2>4, ExpiringLate DEF TimelyInv, RestOK, Fresh
      <3>2. payment[s] # "inflight" /\ at = "idle"
        BY <1>0, <3>1 DEF Still, Settling
      <3>3. status'[s] = "SwapExpired"
        BY <1>4, <2>4 DEF SetSwapExpired
      <3>. QED  BY <1>1, <2>1, <3>2, <3>3
    <2>. QED  BY <1>7, <2>2, <2>3, <2>4
  <1>8. CASE OnLockup(s)
    <2>1. UNCHANGED <<status, payment, invoiceExpired>>
      BY <1>8 DEF OnLockup, row, ln
    <2>2. payment[s] = "none"
      BY <1>8, StartsQueued DEF OnLockup, Kinds, TimelyInv, OneOK
    <2>3. claim'[s]["lock"] \in {at, "start"}
      BY <1>3, <1>8 DEF OnLockup, ClaimSteps
    <2>. QED  BY <1>0, <1>1, <2>1, <2>2, <2>3
  <1>9. CASE RetryNext(s)
    <2>1. UNCHANGED <<status, payment, invoiceExpired>> /\ claim'[s]["lock"] = "send"
      BY <1>3, <1>9 DEF RetryNext, row, ln, ClaimSteps
    <2>2. status[s] = "InvoicePending"
      BY <1>9 DEF RetryNext, TimelyInv, LoopOK
    <2>. QED  BY <1>0, <1>1, <2>1, <2>2
  <1>10. CASE SetInvoicePending(s, "lock")
    <2>1. UNCHANGED <<payment, invoiceExpired>> /\ claim'[s]["lock"] = "send"
          /\ status'[s] = "InvoicePending"
      BY <1>3, <1>4, <1>10 DEF SetInvoicePending, ln, ClaimSteps
    <2>. QED  BY <1>0, <1>1, <2>1
  <1>11. CASE SendPayment(s, "lock")
    <2>1. /\ UNCHANGED <<status, invoiceExpired>> /\ claim'[s]["lock"] = "waiting"
          /\ payment'[s] = "inflight" /\ ~invoiceExpired[s] /\ at = "send"
      BY <1>3, <1>11 DEF SendPayment, row, ClaimSteps, TypeOK
    <2>. QED  BY <1>0, <1>1, <2>1
  <1>12. CASE SentBefore(s, "lock") \/ RaceTimeout(s, "lock") \/ BroadcastFails(s, "lock")
    <2>1. UNCHANGED <<status, payment, invoiceExpired>> /\ claim'[s]["lock"] = "idle"
      BY <1>3, <1>12 DEF SentBefore, RaceTimeout, BroadcastFails, Finish, Throw, row, ln, ClaimSteps
    <2>. QED  BY <1>0, <1>1, <2>1
  <1>13. CASE PaidBefore(s, "lock")
    <2>1. /\ UNCHANGED <<status, payment, invoiceExpired>> /\ claim'[s]["lock"] = "paid"
          /\ at = "send"
      BY <1>3, <1>13 DEF PaidBefore, TrackPayment, row, ln, ClaimSteps
    <2>. QED  BY <1>0, <1>1, <2>1
  <1>14. CASE InvoiceIsExpired(s, "lock")
    <2>1. /\ UNCHANGED <<status, payment, invoiceExpired>> /\ claim'[s]["lock"] = "rejected"
          /\ at = "send" /\ invoiceExpired[s]
      BY <1>3, <1>14 DEF InvoiceIsExpired, row, ln, ClaimSteps
    <2>2. payment[s] = "none"
      BY <1>0, <2>1 DEF Settling
    <2>. QED  BY <1>0, <1>1, <2>1, <2>2
  <1>15. CASE Abandon(s, "lock")
    <2>1. /\ UNCHANGED <<payment, invoiceExpired>> /\ claim'[s]["lock"] = "idle"
          /\ at = "rejected"
      BY <1>3, <1>15 DEF Abandon, Finish, ln, ClaimSteps
    <2>. QED  BY <1>0, <1>1, <2>1
  <1>16. CASE SetInvoicePaid(s, "lock")
    <2>1. /\ UNCHANGED <<payment, invoiceExpired>> /\ claim'[s]["lock"] = "broadcast"
          /\ at = "paid" /\ status'[s] = "InvoicePaid"
      BY <1>3, <1>4, <1>16 DEF SetInvoicePaid, ln, ClaimSteps
    <2>. QED  BY <1>0, <1>1, <2>1
  <1>17. CASE Broadcast(s, "lock")
    <2>1. /\ UNCHANGED <<status, payment, invoiceExpired>>
          /\ claim'[s]["lock"] \in {"record", "idle"}
      BY <1>3, <1>17 DEF Broadcast, Throw, row, ln, ClaimSteps
    <2>. QED  BY <1>0, <1>1, <2>1
  <1>18. CASE SetMinerFee(s, "lock")
    <2>1. /\ UNCHANGED <<payment, invoiceExpired>> /\ claim'[s]["lock"] = "idle"
          /\ at = "record" /\ status'[s] = "TransactionClaimed"
      BY <1>3, <1>4, <1>18 DEF SetMinerFee, Finish, ln, ClaimSteps
    <2>. QED  BY <1>0, <1>1, <2>1
  <1>. QED  BY <1>2, <1>5, <1>6, <1>7, <1>8, <1>9, <1>10, <1>11, <1>12, <1>13, <1>14, <1>15,
               <1>16, <1>17, <1>18, NextTouches DEF Touches, Claim

(* With blocks that wait, the invariant is inductive.                      *)
THEOREM InductiveInTime ==
  ASSUME InTime
  PROVE  Spec => [](IInv /\ FirstInv /\ TimelyInv)
  <1>1. Init => IInv /\ FirstInv /\ TimelyInv
    <2>. SUFFICES ASSUME Init PROVE IInv /\ FirstInv /\ TimelyInv
      OBVIOUS
    <2>1. IInv
      BY InitInv
    <2>2. /\ queue = << >> /\ retrying = {}
          /\ \A s \in Swaps :
               /\ status[s] \in {"InvoiceSet", "SwapCreated"} /\ payment[s] = "none"
               /\ call[s] = NoCall /\ ~mined[s] /\ ~sent[s] /\ spend[s] = "none"
               /\ \A c \in BOOLEAN : check[s][c].at = "idle"
               /\ \A w \in Workers : claim[s][w] = "idle"
               /\ s \in InvoiceFirst => invoice[s]
      BY DEF Init, NoCheck, NoCall, NoClaim
    <2>3. FirstInv
      BY <2>2, BoundsAssumption DEF FirstInv
    <2>4. 1..Len(queue) = {}
      BY <2>2
    <2>5. ASSUME NEW s \in Swaps PROVE RestOK(s) /\ OneOK(s) /\ LoopOK(s) /\ PayOK(s)
      <3>1. claim[s]["lock"] = "idle" /\ claim[s]["api"] = "idle"
        BY <2>2 DEF Workers
      <3>2. Still(s)
        BY <2>2, <2>4, <3>1 DEF Still, Watching, Queued, Settling, Active
      <3>. QED  BY <2>2, <2>4, <3>1, <3>2
                DEF RestOK, OneOK, LoopOK, PayOK, Still, Watching
    <2>. QED  BY <2>1, <2>3, <2>5 DEF TimelyInv
  <1>2. IInv /\ FirstInv /\ TimelyInv /\ [Next]_vars => IInv' /\ FirstInv' /\ TimelyInv'
    <2>. SUFFICES ASSUME IInv, FirstInv, TimelyInv, [Next]_vars
                  PROVE  IInv' /\ FirstInv' /\ TimelyInv'
      OBVIOUS
    <2>1. IInv' /\ FirstInv'
      BY NextInv, NextFirst DEF IInv
    <2>2. \A s \in Swaps : RestOK(s)' /\ OneOK(s)' /\ LoopOK(s)' /\ PayOK(s)'
      BY NextRest, NextOne, NextLoop, NextPay DEF IInv
    <2>. QED  BY <2>1, <2>2 DEF TimelyInv
  <1>. QED  BY <1>1, <1>2, PTL DEF Spec

(* If the calls that build the claim transaction do not fail, a payment    *)
(* that went out is followed up until the coins are claimed.  If they may, *)
(* this is false, as the run SS_claim_fails shows.                         *)
THEOREM PaymentsArePursued ==
  ASSUME InTime, "claim" \notin Failures
  PROVE  Spec => []PaidIsPursued
  <1>. DEFINE Inv == IInv /\ FirstInv /\ TimelyInv
  <1>1. Init => PaidIsPursued
    BY DEF Init, PaidIsPursued
  <1>2. Inv /\ PaidIsPursued /\ [Next]_vars => PaidIsPursued'
    <2>. SUFFICES ASSUME Inv, PaidIsPursued, [Next]_vars, NEW s \in Swaps,
                         payment'[s] = "paid", spend'[s] = "none"
                  PROVE  status'[s] = "InvoicePending" \/ claim'[s] # NoClaim
      BY DEF PaidIsPursued
    <2>. DEFINE at == claim[s]["lock"]
    <2>0. /\ TypeOK /\ PayOK(s) /\ OneOK(s) /\ RestOK(s) /\ Grows
          /\ at \in {"paid", "broadcast", "record"} => payment[s] = "paid"
          /\ at = "record" => spend[s] = "claim"
      BY NextGrows DEF IInv, TimelyInv, WorkerInv, Workers
    <2>1. spend[s] = "none"
      BY <2>0 DEF Grows, TypeOK
    <2>2. payment[s] = "paid" => status[s] = "InvoicePending" \/ claim[s] # NoClaim
      BY <2>1 DEF PaidIsPursued
    <2>3. CASE Untouched(s) \/ ExpireInvoice(s)
      <3>1. status'[s] = status[s] /\ payment'[s] = payment[s] /\ claim'[s] = claim[s]
        BY <2>3 DEF Untouched, ExpireInvoice, row
      <3>. QED  BY <2>2, <3>1
    <2>4. CASE PaymentSucceeds(s) \/ PaymentRejected(s) \/ PaymentFails(s)
      <3>1. payment[s] = "inflight" /\ UNCHANGED status
        BY <2>4 DEF PaymentSucceeds, PaymentRejected, PaymentFails, row
      <3>. QED  BY <2>0, <3>1 DEF PayOK
    <2>5. ASSUME \/ \E c \in BOOLEAN : SetLockupTransaction(s, c)
                 \/ LockupFailed(s) \/ ZeroConfRejected(s) \/ OnLockup(s)
          PROVE  FALSE
      <3>1. Watching(s) \/ Queued(s)
        BY <2>0, <2>5, StartsQueued
        DEF SetLockupTransaction, LockupFailed, ZeroConfRejected, OnLockup, Kinds, Watching
      <3>2. payment'[s] = payment[s]
        BY <2>5 DEF SetLockupTransaction, LockupFailed, ZeroConfRejected, OnLockup, ln
      <3>. QED  BY <2>0, <3>1, <3>2 DEF OneOK
    <2>6. CASE SetSwapExpired(s)
      <3>1. ~Active(s) /\ status[s] # "InvoicePending"
        BY <2>0, <2>6, ExpiringLate DEF RestOK, Fresh, Still, Settling
      <3>2. claim[s] = NoClaim
        <4>1. claim[s] \in [Workers -> ClaimSteps] /\ \A w \in Workers : claim[s][w] = "idle"
          BY <2>0, <3>1 DEF TypeOK, RestOK, Workers, Active
        <4>. QED  BY <4>1 DEF NoClaim
      <3>3. payment'[s] = payment[s]
        BY <2>6 DEF SetSwapExpired, ln
      <3>. QED  BY <2>2, <3>1, <3>2, <3>3
    <2>7. ASSUME NEW a \in ClaimSteps \ {"idle"}, GoOn(s, "lock", a) PROVE claim'[s] # NoClaim
      <3>1. claim'[s]["lock"] = a /\ NoClaim["lock"] = "idle"
        BY <2>0, <2>7, GoOnFacts DEF Workers, NoClaim
      <3>. QED  BY <3>1
    <2>8. CASE RetryNext(s) \/ PaidBefore(s, "lock") \/ InvoiceIsExpired(s, "lock")
               \/ SetInvoicePaid(s, "lock")
      <3>1. \E a \in ClaimSteps \ {"idle"} : GoOn(s, "lock", a)
        BY <2>8 DEF RetryNext, PaidBefore, TrackPayment, InvoiceIsExpired, SetInvoicePaid,
                    ClaimSteps
      <3>. QED  BY <2>7, <3>1
    <2>9. CASE SetInvoicePending(s, "lock")
      BY <2>0, <2>9 DEF SetInvoicePending, SetStatus, TypeOK
    <2>10. CASE SendPayment(s, "lock") \/ SentBefore(s, "lock") \/ Abandon(s, "lock")
      <3>1. payment'[s] # "paid"
        BY <2>0, <2>10 DEF SendPayment, SentBefore, Abandon, ln, PayOK, TypeOK
      <3>. QED  BY <3>1
    <2>11. CASE RaceTimeout(s, "lock")
      <3>1. at = "waiting" /\ UNCHANGED status
        BY <2>11 DEF RaceTimeout, row
      <3>. QED  BY <2>0, <3>1 DEF PayOK
    <2>12. ASSUME Broadcast(s, "lock") \/ BroadcastFails(s, "lock") \/ SetMinerFee(s, "lock")
           PROVE  FALSE
      <3>1. ~Broadcast(s, "lock")
        BY <2>0, <2>1 DEF Broadcast, TypeOK
      <3>2. ~BroadcastFails(s, "lock")
        BY DEF BroadcastFails
      <3>3. ~SetMinerFee(s, "lock")
        BY <2>0, <2>1 DEF SetMinerFee
      <3>. QED  BY <2>12, <3>1, <3>2, <3>3
    <2>. QED  BY <2>0, <2>3, <2>4, <2>5, <2>6, <2>8, <2>9, <2>10, <2>11, <2>12, NextTouches
              DEF Touches, Claim
  <1>. QED  BY <1>1, <1>2, InductiveInTime, PTL DEF Spec

-----------------------------------------------------------------------------
(* The refinement of Purchase *)

(* What the mapping reads is all it depends on.                            *)
LEMMA SameBill == UNCHANGED payment => UNCHANGED bill
  BY DEF bill

LEMMA SameCoins == UNCHANGED <<sent, spend>> => UNCHANGED coins
  BY DEF coins, Coins

LEMMA SameEnough == UNCHANGED short => UNCHANGED enough
  BY DEF enough

LEMMA SameExpired == UNCHANGED height => UNCHANGED expired
  BY DEF expired

(* A payment of one swap that changes changes one bill.                    *)
LEMMA BillOfOne ==
  ASSUME TypeOK, NEW s \in Swaps, NEW p \in {"none", "inflight", "paid"},
         payment' = [payment EXCEPT ![s] = p]
  PROVE  bill' = [bill EXCEPT ![s] = IF p = "none" THEN "due" ELSE p]
  <1>1. \A t \in Swaps : payment'[t] = IF t = s THEN p ELSE payment[t]
    BY DEF TypeOK
  <1>. QED  BY <1>1 DEF bill

(* An output of one swap that is spent changes the coins of one swap.      *)
LEMMA CoinsOfOne ==
  ASSUME TypeOK, NEW s \in Swaps, NEW how \in {"claim", "refund"},
         spend' = [spend EXCEPT ![s] = how], UNCHANGED sent
  PROVE  coins' = [coins EXCEPT ![s] = IF how = "claim" THEN "claimed" ELSE "refunded"]
  <1>1. \A t \in Swaps : spend'[t] = IF t = s THEN how ELSE spend[t]
    BY DEF TypeOK
  <1>2. \A t \in Swaps :
          Coins(t)' = IF t = s THEN IF how = "claim" THEN "claimed" ELSE "refunded" ELSE Coins(t)
    BY <1>1 DEF Coins
  <1>. QED  BY <1>2 DEF coins

(* The initial states map to initial states.                               *)
LEMMA InitKept == Init => Bargain!Init
  <1>. SUFFICES ASSUME Init PROVE Bargain!Init
    OBVIOUS
  <1>1. /\ coins = [s \in Swaps |-> "none"] /\ bill = [s \in Swaps |-> "due"]
    BY DEF Init, coins, Coins, bill
  <1>2. enough \in [Swaps -> BOOLEAN] /\ expired \in [Swaps -> BOOLEAN]
    <2>1. \A s \in Swaps : (~short[s]) \in BOOLEAN /\ (Timeout[s] <= height) \in BOOLEAN
      BY BoundsAssumption DEF Init
    <2>. QED  BY <2>1 DEF enough, expired
  <1>. QED  BY <1>1, <1>2 DEF Bargain!Init

(* A step that touches neither coins, payments nor blocks is a stutter.    *)
LEMMA Stutters == UNCHANGED <<sent, short, spend, payment, height>> => UNCHANGED Bargain!vars
  BY SameBill, SameCoins, SameEnough, SameExpired DEF Bargain!vars

(* Every step maps to a step of Purchase or to a stutter.                  *)
LEMMA NextKept == IInv /\ [Next]_vars => [Bargain!Next]_(Bargain!vars)
  <1>. SUFFICES ASSUME IInv, [Next]_vars PROVE Bargain!Next \/ UNCHANGED Bargain!vars
    OBVIOUS
  <1>0. TypeOK
    BY DEF IInv
  <1>1. ASSUME NEW s \in Swaps, UserLocks(s) PROVE Bargain!Lock(s)
    <2>1. UNCHANGED bill /\ UNCHANGED expired
      BY <1>1, SameBill, SameExpired DEF UserLocks, ln
    <2>2. coins[s] = "none"
      BY <1>1 DEF UserLocks, IInv, ChainInv, TypeOK, coins, Coins
    <2>3. coins' = [coins EXCEPT ![s] = "locked"]
      <3>1. \A t \in Swaps : sent'[t] = IF t = s THEN TRUE ELSE sent[t]
        BY <1>0, <1>1 DEF UserLocks, TypeOK
      <3>2. spend[s] = "none" /\ UNCHANGED spend
        BY <1>1 DEF UserLocks, IInv, ChainInv, TypeOK
      <3>3. \A t \in Swaps : Coins(t)' = IF t = s THEN "locked" ELSE Coins(t)
        BY <3>1, <3>2 DEF Coins
      <3>. QED  BY <3>3 DEF coins
    <2>4. \E b \in BOOLEAN : enough' = [enough EXCEPT ![s] = b]
      <3>1. PICK b \in BOOLEAN : short' = [short EXCEPT ![s] = b]
        BY <1>1 DEF UserLocks
      <3>2. \A t \in Swaps : short'[t] = IF t = s THEN b ELSE short[t]
        BY <1>0, <3>1 DEF TypeOK
      <3>3. enough' = [enough EXCEPT ![s] = ~b] /\ (~b) \in BOOLEAN
        BY <3>2 DEF enough
      <3>. QED  BY <3>3
    <2>. QED  BY <2>1, <2>2, <2>3, <2>4 DEF Bargain!Lock
  <1>2. ASSUME NEW s \in Swaps, UserRefunds(s) PROVE Bargain!Refund(s)
    <2>1. UNCHANGED bill /\ UNCHANGED enough /\ UNCHANGED expired
      BY <1>2, SameBill, SameEnough, SameExpired DEF UserRefunds, ln
    <2>2. coins[s] = "locked" /\ expired[s]
      BY <1>2 DEF UserRefunds, IInv, ChainInv, coins, Coins, expired
    <2>3. coins' = [coins EXCEPT ![s] = "refunded"]
      BY <1>0, <1>2, CoinsOfOne DEF UserRefunds
    <2>. QED  BY <2>1, <2>2, <2>3 DEF Bargain!Refund
  <1>3. ASSUME NEW s \in Swaps, PaymentSucceeds(s) \/ PaymentRejected(s) \/ PaymentFails(s)
        PROVE  Bargain!Answer(s, "paid") \/ Bargain!Answer(s, "due")
    <2>1. UNCHANGED coins /\ UNCHANGED enough /\ UNCHANGED expired
      BY <1>3, SameCoins, SameEnough, SameExpired
      DEF PaymentSucceeds, PaymentRejected, PaymentFails, chain
    <2>2. bill[s] = "inflight"
      BY <1>3 DEF PaymentSucceeds, PaymentRejected, PaymentFails, bill
    <2>3. bill' = [bill EXCEPT ![s] = "paid"] \/ bill' = [bill EXCEPT ![s] = "due"]
      BY <1>0, <1>3, BillOfOne DEF PaymentSucceeds, PaymentRejected, PaymentFails
    <2>. QED  BY <2>1, <2>2, <2>3 DEF Bargain!Answer
  <1>4. ASSUME NEW s \in Swaps, NEW w \in Workers, SendPayment(s, w) PROVE Bargain!Pay(s)
    <2>1. UNCHANGED coins /\ UNCHANGED enough /\ UNCHANGED expired
      BY <1>4, SameCoins, SameEnough, SameExpired DEF SendPayment, chain
    <2>2. Good(s)
      BY <1>4 DEF SendPayment, IInv, GoodInv, Depends
    <2>3. bill[s] = "due" /\ coins[s] # "none" /\ enough[s]
      BY <1>4, <2>2 DEF SendPayment, Good, bill, coins, Coins, enough
    <2>4. bill' = [bill EXCEPT ![s] = "inflight"]
      BY <1>0, <1>4, BillOfOne DEF SendPayment
    <2>. QED  BY <2>1, <2>3, <2>4 DEF Bargain!Pay
  <1>5. ASSUME NEW s \in Swaps, NEW w \in Workers, Broadcast(s, w)
        PROVE  Bargain!Claim(s) \/ UNCHANGED Bargain!vars
    <2>1. UNCHANGED bill /\ UNCHANGED enough /\ UNCHANGED expired
      BY <1>5, SameBill, SameEnough, SameExpired DEF Broadcast, ln
    <2>2. CASE spend[s] = "none" /\ spend' = [spend EXCEPT ![s] = "claim"]
      <3>1. payment[s] = "paid" /\ Good(s)
        BY <1>5 DEF Broadcast, IInv, WorkerInv, GoodInv, Depends
      <3>2. coins[s] = "locked" /\ bill[s] = "paid"
        BY <2>2, <3>1 DEF coins, Coins, bill, Good
      <3>3. coins' = [coins EXCEPT ![s] = "claimed"]
        BY <1>0, <1>5, <2>2, CoinsOfOne DEF Broadcast
      <3>. QED  BY <2>1, <3>2, <3>3 DEF Bargain!Claim
    <2>3. CASE UNCHANGED spend
      BY <1>5, <2>3, Stutters DEF Broadcast, ln
    <2>. QED  BY <1>5, <2>2, <2>3 DEF Broadcast
  <1>6. CASE MineBlock
    <2>1. UNCHANGED coins /\ UNCHANGED enough /\ UNCHANGED bill
      BY <1>6, SameCoins, SameEnough, SameBill DEF MineBlock, ln
    <2>2. expired' \in [Swaps -> BOOLEAN] /\ \A s \in Swaps : expired[s] => expired'[s]
      BY <1>0, <1>6, BoundsAssumption DEF MineBlock, expired, TypeOK
    <2>. QED  BY <2>1, <2>2 DEF Bargain!Expire, Bargain!Next
  <1>7. ASSUME \/ RetryTimer \/ RetryLoop \/ Restart \/ UNCHANGED vars
               \/ \E s \in Swaps : \/ MineLockup(s) \/ ExpireInvoice(s) \/ Nursery(s)
                                   \/ Api(s) \/ Handler(s)
        PROVE  UNCHANGED Bargain!vars
    <2>. DEFINE Same == UNCHANGED <<sent, short, spend, payment, height>>
    <2>1. RetryTimer \/ RetryLoop \/ Restart \/ UNCHANGED vars => Same
      BY DEF RetryTimer, RetryLoop, RetryQuery, RetryDone, RetryNext, Restart, vars, ln, chain
    <2>2. ASSUME NEW s \in Swaps, MineLockup(s) \/ ExpireInvoice(s) PROVE Same
      BY <2>2 DEF MineLockup, ExpireInvoice, ln, chain
    <2>3. ASSUME NEW s \in Swaps, CheckSwapOutputs(s) \/ CheckExpiredSwaps(s) \/ RejectZeroConf(s)
          PROVE  Same
      BY <2>3 DEF CheckSwapOutputs, CheckExpiredSwaps, RejectZeroConf, ln, chain
    <2>4. ASSUME NEW s \in Swaps, NEW c \in BOOLEAN,
                 SetLockupTransaction(s, c) \/ RejectLowAmount(s, c) \/ AcceptLockup(s, c)
          PROVE  Same
      BY <2>4 DEF SetLockupTransaction, RejectLowAmount, AcceptLockup, ln, chain
    <2>5. ASSUME NEW s \in Swaps, Nursery(s) PROVE Same
      BY <2>3, <2>4, <2>5 DEF Nursery
    <2>6. ASSUME NEW s \in Swaps, Api(s) PROVE Same
      BY <2>6 DEF Api, ReadSwap, SetInvoice, ln, chain
    <2>7. ASSUME NEW s \in Swaps,
                 QueryExpired(s) \/ SetSwapExpired(s) \/ LockupFailed(s) \/ ZeroConfRejected(s)
          PROVE  Same
      BY <2>7 DEF QueryExpired, SetSwapExpired, LockupFailed, ZeroConfRejected, ln, chain
    <2>8. ASSUME NEW s \in Swaps, OnLockup(s) PROVE Same
      BY <2>8 DEF OnLockup, ln, chain
    <2>9. Same
      BY <1>7, <2>1, <2>2, <2>5, <2>6, <2>7, <2>8 DEF Handler
    <2>. QED  BY <2>9, Stutters
  <1>8. ASSUME NEW s \in Swaps, NEW w \in Workers,
               \/ SetInvoicePending(s, w) \/ SentBefore(s, w) \/ PaidBefore(s, w)
               \/ InvoiceIsExpired(s, w) \/ Abandon(s, w) \/ SetInvoicePaid(s, w)
               \/ SetMinerFee(s, w) \/ RaceTimeout(s, w) \/ BroadcastFails(s, w)
        PROVE  UNCHANGED Bargain!vars
    <2>1. CASE \/ SetInvoicePending(s, w) \/ SentBefore(s, w) \/ PaidBefore(s, w)
               \/ InvoiceIsExpired(s, w) \/ Abandon(s, w)
      BY <2>1, Stutters
      DEF SetInvoicePending, SentBefore, PaidBefore, InvoiceIsExpired, Abandon, ln, chain
    <2>2. CASE \/ SetInvoicePaid(s, w) \/ SetMinerFee(s, w) \/ RaceTimeout(s, w)
               \/ BroadcastFails(s, w)
      BY <2>2, Stutters
      DEF SetInvoicePaid, SetMinerFee, RaceTimeout, BroadcastFails, ln, chain
    <2>. QED  BY <1>8, <2>1, <2>2
  <1>. QED  BY <1>1, <1>2, <1>3, <1>4, <1>5, <1>6, <1>7, <1>8
            DEF Next, Environment, Claim, Bargain!Next

(* Normal swaps implement Purchase: whichever worker pays or claims, the   *)
(* API or the holder of the lock, before or after a crash.                 *)
THEOREM ImplementsBargain == Spec => KeepsBargain
  BY InitKept, NextKept, Inductive, PTL DEF Spec, KeepsBargain, Bargain!Spec
=============================================================================
