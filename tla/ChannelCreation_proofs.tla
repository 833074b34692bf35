----------------------- MODULE ChannelCreation_proofs -----------------------
(***************************************************************************)
(* Theorems of ChannelCreation for any number of channels, retries and     *)
(* crashes.                                                                *)
(***************************************************************************)
EXTENDS ChannelCreation, Integers, TLAPS

-----------------------------------------------------------------------------
(* Types *)

(* What ends or repeats a settlement is well typed.                        *)
LEMMA FailType ==
  ASSUME ChannelTypeOK, NEW h \in Handlers
  PROVE  /\ Idle \in Jobs
         /\ Done(h) => job' \in [Handlers -> Jobs]
         /\ \A place \in Places : Goto(h, place) => job' \in [Handlers -> Jobs]
         /\ NotSettled => job' \in [Handlers -> Jobs]
         /\ Fail(h) => job' \in [Handlers -> Jobs]
  <1>1. Idle \in Jobs
    BY ChannelAssumption DEF Idle, Jobs, Places, SwapStates, Creations, CreationStates
  <1>2. \A k \in Handlers : Done(k) => job' \in [Handlers -> Jobs]
    BY <1>1 DEF Done, ChannelTypeOK
  <1>3. \A place \in Places : Goto(h, place) => job' \in [Handlers -> Jobs]
    BY DEF Goto, ChannelTypeOK, Jobs
  <1>4. NotSettled => job' \in [Handlers -> Jobs]
    <2>1. "settle" \in Handlers /\ "timer" \in Places
      BY DEF Handlers, Places
    <2>2. Done("settle") => job' \in [Handlers -> Jobs]
      BY <1>2, <2>1
    <2>3. job["settle"].tries # MaxRetry => job["settle"].tries + 1 \in 0..MaxRetry
      BY <2>1, ChannelAssumption DEF ChannelTypeOK, Jobs
    <2>. QED  BY <2>1, <2>2, <2>3 DEF NotSettled, ChannelTypeOK, Jobs
  <1>. QED  BY <1>1, <1>2, <1>3, <1>4 DEF Fail

(* A handler that is started has its types.                                *)
LEMMA StartType ==
  ASSUME row \in SwapStates, creation \in Creations, Idle \in Jobs
  PROVE  /\ [Idle EXCEPT !.at = "load", !.row = row] \in Jobs
         /\ [Idle EXCEPT !.at = "swap", !.read = creation] \in Jobs
         /\ [Idle EXCEPT !.at = "swap", !.read = creation, !.from = "startup"] \in Jobs
  <1>1. {"load", "swap"} \subseteq Places
    BY DEF Places
  <1>. QED  BY <1>1 DEF Jobs

(* A handler that takes a step has its types.                              *)
LEMMA JobType ==
  ASSUME ChannelTypeOK, NEW h \in Handlers, NEW j \in Jobs, job' = [job EXCEPT ![h] = j]
  PROVE  job' \in [Handlers -> Jobs]
  BY DEF ChannelTypeOK

(* Paying keeps the types.                                                 *)
LEMMA PaysType ==
  ASSUME ChannelTypeOK, NEW h \in {"claim", "settle"}, Pays(h),
         start' = start, saw' \in [raced : BOOLEAN, late : SUBSET {"event", "startup"}]
  PROVE  ChannelTypeOK'
  <1>. USE FailType DEF ChannelTypeOK
  <1>0. h \in Handlers
    BY DEF Handlers
  <1>1. CASE LoadCreation(h)
    <2>. DEFINE j == [job[h] EXCEPT !.at = "pay", !.read = IF h = "claim" THEN creation ELSE @]
    <2>1. job[h] \in Jobs /\ "pay" \in Places
      BY <1>0 DEF Places
    <2>2. j \in Jobs
      BY <2>1 DEF Jobs
    <2>3. job' = [job EXCEPT ![h] = j]
      BY <1>0, <1>1 DEF LoadCreation
    <2>. HIDE DEF j
    <2>4. job' \in [Handlers -> Jobs]
      BY <1>0, <2>2, <2>3, JobType
    <2>. QED  BY <1>1, <2>4 DEF LoadCreation
  <1>2. CASE SetInvoicePending(h)
    BY <1>0, <1>2 DEF SetInvoicePending, SwapStates, Places
  <1>3. CASE SendPayment(h)
    <2>1. job' \in [Handlers -> Jobs]
      BY <1>0, <1>3 DEF SendPayment, Places
    <2>2. payment' \in {"none", "inflight", "paid"}
      BY <1>3 DEF SendPayment
    <2>. QED  BY <1>3, <2>1, <2>2 DEF SendPayment
  <1>4. CASE Preimage(h) \/ RaceTimeout(h)
    <2>1. job' \in [Handlers -> Jobs]
      BY <1>0, <1>4 DEF Preimage, RaceTimeout, Places
    <2>. QED  BY <1>4, <2>1 DEF Preimage, RaceTimeout
  <1>5. CASE PaymentRejected(h)
    <2>1. job' \in [Handlers -> Jobs]
      BY <1>0, <1>5 DEF PaymentRejected
    <2>. QED  BY <1>5, <2>1 DEF PaymentRejected, SwapStates
  <1>6. CASE NoRoute(h)
    <2>1. job' \in [Handlers -> Jobs]
      BY <1>0, <1>6 DEF NoRoute, Places
    <2>. QED  BY <1>6, <2>1 DEF NoRoute
  <1>7. CASE SetInvoicePaid(h)
    BY <1>0, <1>7 DEF SetInvoicePaid, SwapStates, Places
  <1>8. CASE BroadcastClaim(h)
    <2>1. job' \in [Handlers -> Jobs]
      BY <1>0, <1>8 DEF BroadcastClaim, Places
    <2>. QED  BY <1>8, <2>1 DEF BroadcastClaim
  <1>9. CASE SetMinerFee(h)
    <2>1. job' \in [Handlers -> Jobs]
      BY <1>0, <1>9 DEF SetMinerFee, Places
    <2>. QED  BY <1>9, <2>1 DEF SetMinerFee, SwapStates
  <1>. QED  BY <1>1, <1>2, <1>3, <1>4, <1>5, <1>6, <1>7, <1>8, <1>9 DEF Pays

(* Opening a channel keeps the types.                                      *)
LEMMA OpensType ==
  ASSUME ChannelTypeOK, NEW h \in {"claim", "online"}, Opens(h),
         start' = start, saw' \in [raced : BOOLEAN, late : SUBSET {"event", "startup"}]
  PROVE  ChannelTypeOK'
  <1>. USE FailType DEF ChannelTypeOK
  <1>0. h \in Handlers
    BY DEF Handlers
  <1>1. CASE SetAttempted(h)
    <2>. DEFINE j == [job[h] EXCEPT !.at = "open", !.read.status = "Attempted"]
    <2>1. job[h] \in Jobs /\ "open" \in Places /\ "Attempted" \in CreationStates
      BY <1>0 DEF Places, CreationStates
    <2>2. j \in Jobs /\ creation' \in Creations
      BY <1>1, <2>1 DEF Jobs, Creations, SetAttempted
    <2>3. job' = [job EXCEPT ![h] = j]
      BY <1>0, <1>1 DEF SetAttempted
    <2>. HIDE DEF j
    <2>4. job' \in [Handlers -> Jobs]
      BY <1>0, <2>2, <2>3, JobType
    <2>. QED  BY <1>1, <2>2, <2>4 DEF SetAttempted
  <1>2. CASE OpenChannel(h)
    <2>1. channels + 1 \in 0..MaxChannels
      BY <1>2, ChannelAssumption DEF OpenChannel
    <2>. DEFINE j == [job[h] EXCEPT !.at = "opened", !.read.funding = channels + 1]
    <2>2. job[h] \in Jobs /\ "opened" \in Places
      BY <1>0 DEF Places
    <2>3. j \in Jobs
      BY <2>1, <2>2 DEF Jobs, Creations
    <2>4. job' = [job EXCEPT ![h] = j]
      BY <1>0, <1>2 DEF OpenChannel
    <2>. HIDE DEF j
    <2>5. job' \in [Handlers -> Jobs]
      BY <1>0, <2>3, <2>4, JobType
    <2>. QED  BY <1>2, <2>1, <2>5 DEF OpenChannel
  <1>3. CASE OpenFails(h)
    BY <1>0, <1>3 DEF OpenFails
  <1>4. CASE SetChannelCreated(h)
    BY <1>0, <1>4 DEF SetChannelCreated, SwapStates, Places
  <1>5. CASE SetFundingTransaction(h)
    <2>1. creation' \in Creations
      BY <1>0, <1>5 DEF SetFundingTransaction, Jobs, Creations, CreationStates
    <2>. QED  BY <1>0, <1>5, <2>1 DEF SetFundingTransaction
  <1>. QED  BY <1>1, <1>2, <1>3, <1>4, <1>5 DEF Opens

(* The other steps.                                                        *)
Others ==
  \/ RetryQuery \/ PaymentSucceeds \/ PaymentDies
  \/ PeerOnline \/ OnlineSwap \/ PeerNotListed
  \/ ChannelActive \/ SettleSwap \/ ListChannels \/ SettleTimer \/ SetSettled
  \/ Timeout \/ CheckExpired \/ ExpireSwap

(* They keep the types.                                                    *)
LEMMA OthersType ==
  ASSUME ChannelTypeOK, Others,
         start' = start, saw' \in [raced : BOOLEAN, late : SUBSET {"event", "startup"}]
  PROVE  ChannelTypeOK'
  <1>. USE FailType, StartType DEF ChannelTypeOK
  <1>0. {"claim", "online", "settle"} \subseteq Handlers
    BY DEF Handlers
  <1>1. CASE RetryQuery
    BY <1>0, <1>1 DEF RetryQuery
  <1>2. CASE PaymentSucceeds \/ PaymentDies
    BY <1>2 DEF PaymentSucceeds, PaymentDies
  <1>3. CASE PeerOnline
    BY <1>0, <1>3 DEF PeerOnline
  <1>4. CASE OnlineSwap \/ PeerNotListed
    BY <1>0, <1>4 DEF OnlineSwap, PeerNotListed, Places
  <1>5. CASE ChannelActive
    BY <1>0, <1>5 DEF ChannelActive
  <1>6. CASE SettleSwap
    <2>1. job' \in [Handlers -> Jobs]
      BY <1>0, <1>6 DEF SettleSwap, Jobs, Places
    <2>2. creation' \in Creations
      BY <1>6 DEF SettleSwap, Creations, CreationStates
    <2>. QED  BY <1>6, <2>1, <2>2 DEF SettleSwap
  <1>7. CASE ListChannels \/ SettleTimer
    BY <1>0, <1>7 DEF ListChannels, SettleTimer, Places
  <1>8. CASE SetSettled
    <2>1. creation' \in Creations
      BY <1>8 DEF SetSettled, Creations, CreationStates
    <2>. QED  BY <1>0, <1>8, <2>1 DEF SetSettled
  <1>9. CASE Timeout \/ CheckExpired
    BY <1>9 DEF Timeout, CheckExpired
  <1>10. CASE ExpireSwap
    BY <1>10 DEF ExpireSwap, SwapStates
  <1>. QED  BY <1>1, <1>2, <1>3, <1>4, <1>5, <1>6, <1>7, <1>8, <1>9, <1>10 DEF Others

(* A restart keeps the types.                                              *)
LEMMA RestartType ==
  ASSUME ChannelTypeOK, Restart
  PROVE  ChannelTypeOK'
  <1>1. job' \in [Handlers -> Jobs]
    <2>. DEFINE begun == [Idle EXCEPT !.at = "swap", !.read = creation, !.from = "startup"]
    <2>1. Idle \in Jobs /\ begun \in Jobs
      BY FailType, StartType DEF ChannelTypeOK, Handlers
    <2>2. \A h \in Handlers : job'[h] \in {Idle, begun}
      BY DEF Restart
    <2>3. job' = [h \in Handlers |-> job'[h]]
      BY DEF Restart
    <2>. HIDE DEF begun
    <2>. QED  BY <2>1, <2>2, <2>3
  <1>2. start' \in [crashes : 0..MaxCrash, failed : BOOLEAN]
    <2>1. start.crashes + 1 \in 0..MaxCrash
      BY ChannelAssumption DEF ChannelTypeOK, Restart
    <2>. QED  BY <2>1 DEF Restart
  <1>3. saw' \in [raced : BOOLEAN, late : SUBSET {"event", "startup"}]
    BY DEF ChannelTypeOK, Restart
  <1>. QED  BY <1>1, <1>2, <1>3 DEF ChannelTypeOK, Restart

(* What is seen is well typed.                                             *)
LEMMA SawType ==
  ASSUME ChannelTypeOK, saw' = [raced |-> saw.raced \/ Racing', late |-> saw.late \union Revives]
  PROVE  saw' \in [raced : BOOLEAN, late : SUBSET {"event", "startup"}]
  <1>1. Revives \subseteq {"event", "startup"}
    BY DEF Revives, ChannelTypeOK, Jobs
  <1>2. saw.late \subseteq {"event", "startup"}
    BY DEF ChannelTypeOK
  <1>. QED  BY <1>1, <1>2 DEF Racing

(* Every variable of the channel creation model has its type, for any      *)
(* number of channels, retries and crashes.                                *)
THEOREM ChannelTypeCorrect == ChannelSpec => []ChannelTypeOK
  <1>1. ASSUME ChannelInit PROVE ChannelTypeOK
    <2>1. row \in SwapStates /\ creation \in Creations
      BY <1>1, ChannelAssumption DEF ChannelInit, SwapStates, Creations, CreationStates
    <2>2. Idle \in Jobs
      BY ChannelAssumption DEF Idle, Jobs, Places, SwapStates, Creations, CreationStates
    <2>3. job \in [Handlers -> Jobs]
      <3>. DEFINE j == [Idle EXCEPT !.at = "load", !.row = row]
      <3>1. j \in Jobs
        BY <2>1, <2>2, StartType
      <3>2. job = [h \in Handlers |-> IF h = "claim" THEN j ELSE Idle]
        BY <1>1 DEF ChannelInit
      <3>. HIDE DEF j
      <3>. QED  BY <2>2, <3>1, <3>2
    <2>4. channels \in 0..MaxChannels
      BY <1>1, ChannelAssumption DEF ChannelInit
    <2>5. start \in [crashes : 0..MaxCrash, failed : BOOLEAN]
      BY <1>1, ChannelAssumption DEF ChannelInit
    <2>6. saw \in [raced : BOOLEAN, late : SUBSET {"event", "startup"}]
      BY <1>1 DEF ChannelInit
    <2>. QED  BY <1>1, <2>1, <2>3, <2>4, <2>5, <2>6 DEF ChannelInit, ChannelTypeOK
  <1>2. ASSUME ChannelTypeOK, ChannelNext PROVE ChannelTypeOK'
    <2>1. CASE Restart
      BY <1>2, <2>1, RestartType
    <2>2. CASE ~Restart
      <3>1. ChannelStep /\ start' = start
            /\ saw' \in [raced : BOOLEAN, late : SUBSET {"event", "startup"}]
        BY <1>2, <2>2, SawType DEF ChannelNext
      <3>. QED  BY <1>2, <3>1, PaysType, OpensType, OthersType DEF ChannelStep, Others
    <2>. QED  BY <2>1, <2>2
  <1>3. ASSUME ChannelTypeOK, UNCHANGED channelVars PROVE ChannelTypeOK'
    BY <1>3 DEF ChannelTypeOK, channelVars
  <1>. QED  BY <1>1, <1>2, <1>3, PTL DEF ChannelSpec

-----------------------------------------------------------------------------
(* What a step does to the handlers *)

Still(h) == job'[h] = job[h]
OthersStill(h) == \A k \in Handlers : k # h => Still(k)
Moves(h, place) == /\ job'[h].at = place /\ job'[h].row = job[h].row
                   /\ job'[h].from = job[h].from /\ OthersStill(h)
Ends(h) == job'[h] = Idle /\ OthersStill(h)
Repeats(h) == Ends(h) \/ (h = "settle" /\ Moves(h, "timer"))

(* Handlers go on to the next await, end, or wait to try again.            *)
LEMMA Steps ==
  ASSUME ChannelTypeOK, NEW h \in Handlers
  PROVE  /\ \A place \in Places : Goto(h, place) => Moves(h, place)
         /\ Done(h) => Ends(h)
         /\ h = "settle" /\ NotSettled => Repeats(h)
         /\ Fail(h) => Repeats(h)
         /\ Idle.at = "idle" /\ Idle.from = "event" /\ Idle.row = "SwapExpired"
  <1>1. \A place \in Places : Goto(h, place) => Moves(h, place)
    BY DEF ChannelTypeOK, Jobs, Goto, Moves, OthersStill, Still
  <1>2. Done(h) => Ends(h)
    BY DEF ChannelTypeOK, Done, Ends, OthersStill, Still
  <1>3. h = "settle" /\ NotSettled => Repeats(h)
    BY <1>2 DEF ChannelTypeOK, Jobs, NotSettled, Repeats, Moves, OthersStill, Still
  <1>4. Fail(h) => Repeats(h)
    BY <1>2, <1>3 DEF Fail, Repeats
  <1>. QED  BY <1>1, <1>2, <1>3, <1>4 DEF Idle

(* The steps of a handler that pays, and what they find and leave.         *)
PayStep(h) ==
  \/ At(h, {"load"}) /\ Moves(h, "pay") /\ UNCHANGED <<row, payment, claimed>>
  \/ /\ At(h, {"pay"}) /\ Moves(h, "send") /\ UNCHANGED <<payment, claimed>>
     /\ row' = IF job[h].row \in {"InvoicePending", "ChannelCreated"} THEN row
               ELSE "InvoicePending"
  \/ /\ At(h, {"send"}) /\ UNCHANGED <<row, claimed>>
     /\ \/ payment = "none" /\ payment' = "inflight" /\ Moves(h, "answer")
        \/ payment # "none" /\ UNCHANGED payment /\ Repeats(h)
        \/ payment = "paid" /\ UNCHANGED payment /\ h = "claim" /\ Moves(h, "paid")
  \/ /\ At(h, {"answer"}) /\ UNCHANGED claimed
     /\ \/ payment = "paid" /\ Moves(h, "paid") /\ UNCHANGED <<row, payment>>
        \/ h = "settle" /\ Moves(h, "settled") /\ UNCHANGED <<row, payment>>
        \/ h = "claim" /\ Ends(h) /\ UNCHANGED <<row, payment>>
        \/ /\ payment = "inflight" /\ payment' = "none" /\ Repeats(h)
           /\ row' = row \/ (h = "claim" /\ row' = "InvoiceFailedToPay")
        \/ payment = "inflight" /\ payment' = "none" /\ h = "claim" /\ Moves(h, "attempt")
           /\ UNCHANGED row
  \/ /\ At(h, {"paid"}) /\ row' = "InvoicePaid" /\ Moves(h, "claim")
     /\ UNCHANGED <<payment, claimed>>
  \/ /\ At(h, {"claim"}) /\ claimed' /\ UNCHANGED <<row, payment>>
     /\ \/ claimed /\ Repeats(h)
        \/ Moves(h, "fee")
  \/ /\ At(h, {"fee"}) /\ row' = "TransactionClaimed" /\ UNCHANGED <<payment, claimed>>
     /\ \/ h = "settle" /\ Moves(h, "settled")
        \/ h = "claim" /\ Ends(h)

(* Every step of Pays is one of them.                                      *)
LEMMA PaysSteps ==
  ASSUME ChannelTypeOK, NEW h \in {"claim", "settle"}, Pays(h)
  PROVE  PayStep(h) /\ UNCHANGED <<creation, channels, due>>
  <1>0. h \in Handlers
    BY DEF Handlers
  <1>. USE Steps
  <1>1. CASE LoadCreation(h)
    <2>1. Moves(h, "pay")
      BY <1>0, <1>1 DEF LoadCreation, ChannelTypeOK, Jobs, Moves, OthersStill, Still
    <2>. QED  BY <1>1, <2>1 DEF LoadCreation, PayStep
  <1>2. CASE SetInvoicePending(h)
    BY <1>0, <1>2 DEF SetInvoicePending, PayStep, Places
  <1>3. CASE SendPayment(h)
    BY <1>0, <1>3 DEF SendPayment, PayStep, Places, ChannelTypeOK
  <1>4. CASE Preimage(h)
    BY <1>0, <1>4 DEF Preimage, PayStep, Places
  <1>5. CASE RaceTimeout(h)
    BY <1>0, <1>5 DEF RaceTimeout, PayStep, Places
  <1>6. CASE PaymentRejected(h)
    BY <1>0, <1>6 DEF PaymentRejected, PayStep
  <1>7. CASE NoRoute(h)
    BY <1>0, <1>7 DEF NoRoute, PayStep, Places
  <1>8. CASE SetInvoicePaid(h)
    BY <1>0, <1>8 DEF SetInvoicePaid, PayStep, Places
  <1>9. CASE BroadcastClaim(h)
    BY <1>0, <1>9 DEF BroadcastClaim, PayStep, Places
  <1>10. CASE SetMinerFee(h)
    BY <1>0, <1>10 DEF SetMinerFee, PayStep, Places
  <1>. QED
    BY <1>1, <1>2, <1>3, <1>4, <1>5, <1>6, <1>7, <1>8, <1>9, <1>10
    DEF Pays, LoadCreation, SetInvoicePending, SendPayment, Preimage, RaceTimeout,
        PaymentRejected, NoRoute, SetInvoicePaid, BroadcastClaim, SetMinerFee

(* The steps of a handler that opens a channel.                            *)
OpenStep(h) ==
  \/ /\ At(h, {"attempt"}) /\ Moves(h, "open") /\ UNCHANGED <<row, channels>>
     /\ UNCHANGED creation \/ creation'.status = "Attempted"
  \/ /\ At(h, {"open"}) /\ UNCHANGED <<row, creation>>
     /\ \/ channels' = channels + 1 /\ Moves(h, "opened")
        \/ UNCHANGED channels /\ Ends(h)
  \/ /\ At(h, {"opened"}) /\ row' = "ChannelCreated" /\ Moves(h, "fund")
     /\ UNCHANGED <<creation, channels>>
  \/ /\ At(h, {"fund"}) /\ creation'.status = "Created" /\ Ends(h)
     /\ UNCHANGED <<row, channels>>

(* Every step of Opens is one of them.                                     *)
LEMMA OpensSteps ==
  ASSUME ChannelTypeOK, NEW h \in {"claim", "online"}, Opens(h)
  PROVE  OpenStep(h) /\ UNCHANGED <<payment, claimed, due>>
  <1>0. h \in Handlers
    BY DEF Handlers
  <1>. USE Steps
  <1>1. CASE SetAttempted(h)
    <2>1. Moves(h, "open")
      BY <1>0, <1>1 DEF SetAttempted, ChannelTypeOK, Jobs, Moves, OthersStill, Still
    <2>2. UNCHANGED creation \/ creation'.status = "Attempted"
      BY <1>1 DEF SetAttempted, ChannelTypeOK, Creations
    <2>. QED  BY <1>1, <2>1, <2>2 DEF SetAttempted, OpenStep
  <1>2. CASE OpenChannel(h)
    <2>1. Moves(h, "opened")
      BY <1>0, <1>2 DEF OpenChannel, ChannelTypeOK, Jobs, Moves, OthersStill, Still
    <2>. QED  BY <1>2, <2>1 DEF OpenChannel, OpenStep
  <1>3. CASE OpenFails(h)
    BY <1>0, <1>3 DEF OpenFails, OpenStep
  <1>4. CASE SetChannelCreated(h)
    BY <1>0, <1>4 DEF SetChannelCreated, OpenStep, Places
  <1>5. CASE SetFundingTransaction(h)
    BY <1>0, <1>5 DEF SetFundingTransaction, OpenStep
  <1>. QED
    BY <1>1, <1>2, <1>3, <1>4, <1>5
    DEF Opens, SetAttempted, OpenChannel, OpenFails, SetChannelCreated, SetFundingTransaction

(* The steps that begin, end or repeat a handler, and those of nobody.     *)
OtherStep ==
  \/ /\ At("claim", {"idle"}) /\ row = "InvoicePending" /\ OthersStill("claim")
     /\ job'["claim"].at = "load" /\ job'["claim"].row = row /\ job'["claim"].from = "event"
     /\ UNCHANGED <<row, creation, payment, claimed>>
  \/ /\ creation.status = "Attempted" /\ At("online", {"idle"}) /\ OthersStill("online")
     /\ job'["online"].at = "swap" /\ job'["online"].from = "event"
     /\ UNCHANGED <<row, creation, payment, claimed>>
  \/ /\ At("online", {"swap"}) /\ (Ends("online") \/ Moves("online", "attempt"))
     /\ UNCHANGED <<row, creation, payment, claimed>>
  \/ /\ creation.status = "Created" /\ At("settle", {"idle"}) /\ OthersStill("settle")
     /\ job'["settle"].at = "swap" /\ job'["settle"].from = "event"
     /\ UNCHANGED <<row, creation, payment, claimed>>
  \/ /\ At("settle", {"swap"}) /\ UNCHANGED <<row, payment, claimed>>
     /\ \/ Ends("settle") /\ UNCHANGED creation
        \/ Ends("settle") /\ creation'.status = "Abandoned"
        \/ /\ (row # "TransactionClaimed" /\ row # "SwapExpired") \/ job["settle"].from = "startup"
           /\ OthersStill("settle") /\ UNCHANGED creation
           /\ job'["settle"].at = "list" /\ job'["settle"].row = row
           /\ job'["settle"].from = job["settle"].from
  \/ /\ At("settle", {"list"}) /\ (Moves("settle", "load") \/ Repeats("settle"))
     /\ UNCHANGED <<row, creation, payment, claimed>>
  \/ /\ At("settle", {"timer"}) /\ Moves("settle", "list")
     /\ UNCHANGED <<row, creation, payment, claimed>>
  \/ /\ At("settle", {"settled"}) /\ Ends("settle") /\ creation'.status = "Settled"
     /\ UNCHANGED <<row, payment, claimed>>
  \/ UNCHANGED <<job, row, creation, claimed>> /\ payment # "paid"
  \/ /\ At("claim", {"idle"}) /\ row' = "SwapExpired"
     /\ UNCHANGED <<job, creation, payment, claimed>>
  \/ UNCHANGED <<job, row, creation, payment, claimed>>

(* Every step of Others is one of them.                                    *)
LEMMA OthersSteps ==
  ASSUME ChannelTypeOK, Others
  PROVE  OtherStep /\ UNCHANGED channels
  <1>0. "claim" \in Handlers /\ "online" \in Handlers /\ "settle" \in Handlers
    BY DEF Handlers
  <1>. USE Steps
  <1>1. CASE RetryQuery
    <2>1. OthersStill("claim")
      BY <1>0, <1>1 DEF RetryQuery, ChannelTypeOK, OthersStill, Still
    <2>. QED  BY <1>0, <1>1, <2>1 DEF RetryQuery, ChannelTypeOK, OtherStep, Idle
  <1>2. CASE PaymentSucceeds
    BY <1>2 DEF PaymentSucceeds, OtherStep
  <1>3. CASE PaymentDies
    BY <1>3 DEF PaymentDies, OtherStep
  <1>4. CASE PeerOnline
    <2>1. OthersStill("online")
      BY <1>0, <1>4 DEF PeerOnline, ChannelTypeOK, OthersStill, Still
    <2>. QED  BY <1>0, <1>4, <2>1 DEF PeerOnline, WantsChannel, ChannelTypeOK, OtherStep, Idle
  <1>5. CASE OnlineSwap
    BY <1>0, <1>5 DEF OnlineSwap, OtherStep, Places
  <1>6. CASE PeerNotListed
    BY <1>0, <1>6 DEF PeerNotListed, OtherStep
  <1>7. CASE ChannelActive
    <2>1. OthersStill("settle")
      BY <1>0, <1>7 DEF ChannelActive, ChannelTypeOK, OthersStill, Still
    <2>. QED  BY <1>0, <1>7, <2>1 DEF ChannelActive, ChannelTypeOK, OtherStep, Idle
  <1>8. CASE SettleSwap
    <2>1. CASE row = "TransactionClaimed"
      BY <1>0, <1>8, <2>1 DEF SettleSwap, OtherStep
    <2>2. CASE row # "TransactionClaimed" /\ job["settle"].from # "startup" /\ Abandons(row)
      BY <1>0, <1>8, <2>2 DEF SettleSwap, ChannelTypeOK, Creations, OtherStep
    <2>3. CASE row # "TransactionClaimed" /\ (job["settle"].from = "startup" \/ ~Abandons(row))
      <3>1. job' = [job EXCEPT !["settle"].at = "list", !["settle"].row = row]
            /\ UNCHANGED <<creation, row, payment, claimed, channels>> /\ At("settle", {"swap"})
        BY <1>8, <2>3 DEF SettleSwap
      <3>2. /\ OthersStill("settle") /\ job'["settle"].at = "list" /\ job'["settle"].row = row
            /\ job'["settle"].from = job["settle"].from
        BY <1>0, <3>1 DEF ChannelTypeOK, Jobs, OthersStill, Still
      <3>. QED  BY <2>3, <3>1, <3>2 DEF Abandons, OtherStep
    <2>. QED  BY <2>1, <2>2, <2>3
  <1>9. CASE ListChannels
    BY <1>0, <1>9 DEF ListChannels, OtherStep, Places
  <1>10. CASE SettleTimer
    BY <1>0, <1>10 DEF SettleTimer, OtherStep, Places
  <1>11. CASE SetSettled
    BY <1>0, <1>11 DEF SetSettled, ChannelTypeOK, Creations, OtherStep
  <1>12. CASE Timeout \/ CheckExpired
    BY <1>12 DEF Timeout, CheckExpired, OtherStep
  <1>13. CASE ExpireSwap
    BY <1>13 DEF ExpireSwap, OtherStep
  <1>. QED
    BY <1>1, <1>2, <1>3, <1>4, <1>5, <1>6, <1>7, <1>8, <1>9, <1>10, <1>11, <1>12, <1>13
    DEF Others, RetryQuery, PaymentSucceeds, PaymentDies, PeerOnline, OnlineSwap,
        PeerNotListed, ChannelActive, SettleSwap, ListChannels, SettleTimer, SetSettled,
        Timeout, CheckExpired, ExpireSwap

-----------------------------------------------------------------------------
(* Places and payments *)

(* Each handler stays where its own steps are.                             *)
LEMMA PlaceKept ==
  ASSUME ChannelTypeOK, PlaceInv,
         \/ \E h \in {"claim", "settle"} : PayStep(h)
         \/ \E h \in {"claim", "online"} : OpenStep(h)
         \/ OtherStep
  PROVE  PlaceInv'
  <1>. USE Steps DEF PlaceInv, At, Moves, Ends, Repeats, OthersStill, Still, Handlers,
                     Paying, Opening
  <1>1. ASSUME NEW h \in {"claim", "settle"}, PayStep(h) PROVE PlaceInv'
    <2>1. CASE h = "claim"
      BY <1>1, <2>1, SMTT(30) DEF PayStep
    <2>2. CASE h = "settle"
      BY <1>1, <2>2 DEF PayStep
    <2>. QED  BY <2>1, <2>2, SMTT(30)
  <1>2. ASSUME NEW h \in {"claim", "online"}, OpenStep(h) PROVE PlaceInv'
    <2>1. CASE h = "claim"
      BY <1>2, <2>1 DEF OpenStep
    <2>2. CASE h = "online"
      BY <1>2, <2>2 DEF OpenStep
    <2>. QED  BY <2>1, <2>2
  <1>3. CASE OtherStep
    BY <1>3 DEF OtherStep
  <1>. QED  BY <1>1, <1>2, <1>3

(* A payment that was made stays made.                                     *)
LEMMA PaidKept ==
  ASSUME ChannelTypeOK, PlaceInv, PaidInv,
         \/ \E h \in {"claim", "settle"} : PayStep(h)
         \/ (\E h \in {"claim", "online"} : OpenStep(h)) /\ UNCHANGED <<payment, claimed>>
         \/ OtherStep
  PROVE  PaidInv'
  <1>. USE Steps DEF PlaceInv, PaidInv, At, Moves, Ends, Repeats, OthersStill, Still,
                     Handlers, Paying, Opening
  <1>1. ASSUME NEW h \in {"claim", "settle"}, PayStep(h) PROVE PaidInv'
    <2>1. CASE At(h, {"load", "pay", "send"}) /\ h = "claim"
      BY <1>1, <2>1, SMTT(30) DEF PayStep
    <2>2. CASE At(h, {"load", "pay", "send"}) /\ h = "settle"
      BY <1>1, <2>2, SMTT(30) DEF PayStep
    <2>3. CASE At(h, {"answer", "paid"}) /\ h = "claim"
      BY <1>1, <2>3, SMTT(30) DEF PayStep
    <2>4. CASE At(h, {"answer", "paid"}) /\ h = "settle"
      BY <1>1, <2>4, SMTT(30) DEF PayStep
    <2>5. CASE At(h, {"claim", "fee"}) /\ h = "claim"
      BY <1>1, <2>5, SMTT(30) DEF PayStep
    <2>6. CASE At(h, {"claim", "fee"}) /\ h = "settle"
      BY <1>1, <2>6 DEF PayStep
    <2>7. \/ At(h, {"load", "pay", "send"}) \/ At(h, {"answer", "paid"})
          \/ At(h, {"claim", "fee"})
      BY ONLY <1>1 DEF PayStep, At
    <2>. QED  BY ONLY <2>1, <2>2, <2>3, <2>4, <2>5, <2>6, <2>7, h \in {"claim", "settle"}
  <1>2. ASSUME NEW h \in {"claim", "online"}, OpenStep(h), UNCHANGED <<payment, claimed>>
        PROVE  PaidInv'
    <2>1. CASE h = "claim"
      BY <1>2, <2>1 DEF OpenStep
    <2>2. CASE h = "online"
      BY <1>2, <2>2 DEF OpenStep
    <2>. QED  BY <2>1, <2>2
  <1>3. CASE OtherStep
    BY <1>3 DEF OtherStep
  <1>. QED  BY <1>1, <1>2, <1>3, SMTT(30)

(* What is seen of expired swaps that are revived.                         *)
SeesLate == saw'.late = saw.late \union Revives

(* Who goes on to pay for an expired swap does so from the start-up.       *)
LEMMA ExpiredKept ==
  ASSUME ChannelTypeOK, PlaceInv, ExpiredInv, SeesLate,
         \/ \E h \in {"claim", "settle"} : PayStep(h)
         \/ \E h \in {"claim", "online"} : OpenStep(h)
         \/ OtherStep
  PROVE  ExpiredInv'
  <1>0. ExpiredPaidOnlyAtStart'
    BY SMTT(30) DEF ExpiredInv, ExpiredPaidOnlyAtStart, SeesLate, Revives, At, Paying
  <1>. USE <1>0, Steps DEF PlaceInv, ExpiredInv, At, Moves, Ends, Repeats, OthersStill, Still,
                     Handlers, Paying, Opening
  <1>1. ASSUME NEW h \in {"claim", "settle"}, PayStep(h) PROVE ExpiredInv'
    <2>1. CASE At(h, {"load", "pay", "send"}) /\ h = "claim"
      BY <1>1, <2>1, SMTT(30) DEF PayStep
    <2>2. CASE At(h, {"load", "pay", "send"}) /\ h = "settle"
      BY <1>1, <2>2, SMTT(30) DEF PayStep
    <2>3. CASE At(h, {"answer", "paid"}) /\ h = "claim"
      BY <1>1, <2>3, SMTT(30) DEF PayStep
    <2>4. CASE At(h, {"answer", "paid"}) /\ h = "settle"
      BY <1>1, <2>4, SMTT(30) DEF PayStep
    <2>5. CASE At(h, {"claim", "fee"}) /\ h = "claim"
      BY <1>1, <2>5, SMTT(30) DEF PayStep
    <2>6. CASE At(h, {"claim", "fee"}) /\ h = "settle"
      BY <1>1, <2>6 DEF PayStep
    <2>7. \/ At(h, {"load", "pay", "send"}) \/ At(h, {"answer", "paid"})
          \/ At(h, {"claim", "fee"})
      BY ONLY <1>1 DEF PayStep, At
    <2>. QED  BY ONLY <2>1, <2>2, <2>3, <2>4, <2>5, <2>6, <2>7, h \in {"claim", "settle"}
  <1>2. ASSUME NEW h \in {"claim", "online"}, OpenStep(h) PROVE ExpiredInv'
    <2>1. CASE h = "claim"
      BY <1>2, <2>1 DEF OpenStep
    <2>2. CASE h = "online"
      BY <1>2, <2>2 DEF OpenStep
    <2>. QED  BY <2>1, <2>2
  <1>3. CASE OtherStep
    BY <1>3 DEF OtherStep
  <1>. QED  BY <1>1, <1>2, <1>3

-----------------------------------------------------------------------------
(* Opening and settling *)

(* What the history adds at a step: races, and expired swaps paid for.     *)
Sees == saw'.raced = (saw.raced \/ Racing') /\ SeesLate

(* A quiet step comes after quiet ones, and nobody revives a swap.         *)
LEMMA QuietBefore ==
  ASSUME Sees, Quiet'
  PROVE  /\ Quiet /\ ~Racing'
         /\ \A h \in Handlers : ~(At(h, {"pay"}) /\ job[h].row = "SwapExpired")
  BY DEF Sees, SeesLate, Quiet, Revives

(* While no two handlers race, the first channel is the last.              *)
LEMMA OpenKeptByPay ==
  ASSUME ChannelTypeOK, PlaceInv, PaidInv, OpenInv, Sees, NEW h \in {"claim", "settle"},
         PayStep(h), UNCHANGED <<creation, channels>>
  PROVE  OpenInv'
  <1>. SUFFICES ASSUME Quiet' PROVE OpenInv'
    BY DEF OpenInv
  <1>. USE QuietBefore, Steps
       DEF PlaceInv, PaidInv, OpenInv, NoOpening, HasChannel, At, Moves, Ends, Repeats,
           OthersStill, Still, Handlers, Paying, Opening, Racing
  <1>1. CASE h = "claim"
    BY <1>1 DEF PayStep
  <1>2. CASE h = "settle"
    BY <1>2 DEF PayStep
  <1>. QED  BY <1>1, <1>2

LEMMA OpenKeptByOpen ==
  ASSUME ChannelTypeOK, PlaceInv, PaidInv, OpenInv, Sees, NEW h \in {"claim", "online"},
         OpenStep(h), UNCHANGED <<payment, claimed>>
  PROVE  OpenInv'
  <1>. SUFFICES ASSUME Quiet' PROVE OpenInv'
    BY DEF OpenInv
  <1>. USE QuietBefore, Steps
       DEF PlaceInv, PaidInv, OpenInv, NoOpening, HasChannel, At, Moves, Ends, Repeats,
           OthersStill, Still, Handlers, Paying, Opening, Racing
  <1>1. CASE h = "claim"
    BY <1>1 DEF OpenStep, ChannelTypeOK
  <1>2. CASE h = "online"
    BY <1>2 DEF OpenStep, ChannelTypeOK
  <1>. QED  BY <1>1, <1>2

LEMMA OpenKeptByOthers ==
  ASSUME ChannelTypeOK, PlaceInv, PaidInv, OpenInv, Sees, OtherStep, UNCHANGED channels
  PROVE  OpenInv'
  <1>. SUFFICES ASSUME Quiet' PROVE OpenInv'
    BY DEF OpenInv
  <1>. USE QuietBefore, Steps
       DEF PlaceInv, PaidInv, OpenInv, NoOpening, HasChannel, At, Moves, Ends, Repeats,
           OthersStill, Still, Handlers, Paying, Opening, Racing
  <1>. QED  BY DEF OtherStep

(* Before the first crash a calm history is quiet, and stays so.           *)
Calm == ~saw.raced /\ start.crashes = 0

LEMMA CalmBefore ==
  ASSUME ChannelTypeOK, ExpiredInv, CalmInv, Sees, UNCHANGED start, Calm'
  PROVE  /\ Calm /\ Quiet /\ Quiet' /\ ~Racing' /\ saw'.late = {}
         /\ \A h \in Handlers : job[h].from = "event"
         /\ creation.status = "Created" => SettleAlone
  <1>1. Calm /\ ~Racing'
    BY DEF Calm, Sees
  <1>2. /\ saw.late = {} /\ \A h \in Handlers : job[h].from = "event"
        /\ creation.status = "Created" => SettleAlone
    BY <1>1 DEF CalmInv, Calm
  <1>3. Revives = {}
    BY <1>2 DEF Revives, ExpiredInv, At, Paying
  <1>4. saw'.late = {}
    BY <1>2, <1>3 DEF Sees, SeesLate
  <1>. QED  BY <1>1, <1>2, <1>4 DEF Quiet, Calm

(* Then the settlement is alone with its swap: the row says claimed only   *)
(* for the moment before the channel's does.                               *)
LEMMA CalmKeptByPay ==
  ASSUME ChannelTypeOK, PlaceInv, PaidInv, ExpiredInv, OpenInv, CalmInv, Sees,
         UNCHANGED start, NEW h \in {"claim", "settle"}, PayStep(h),
         UNCHANGED <<creation, channels>>
  PROVE  CalmInv'
  <1>. SUFFICES ASSUME Calm' PROVE CalmInv'
    BY DEF CalmInv, Calm
  <1>. USE CalmBefore, Steps
       DEF PlaceInv, PaidInv, ExpiredInv, OpenInv, CalmInv, SettleAlone, HasChannel, At,
           Moves, Ends, Repeats, OthersStill, Still, Handlers, Paying, Opening, Racing
  <1>1. CASE h = "claim"
    BY <1>1 DEF PayStep
  <1>2. CASE h = "settle"
    BY <1>2 DEF PayStep
  <1>. QED  BY <1>1, <1>2

LEMMA CalmKeptByOpen ==
  ASSUME ChannelTypeOK, PlaceInv, PaidInv, ExpiredInv, OpenInv, CalmInv, Sees,
         UNCHANGED start, NEW h \in {"claim", "online"}, OpenStep(h),
         UNCHANGED <<payment, claimed>>
  PROVE  CalmInv'
  <1>. SUFFICES ASSUME Calm' PROVE CalmInv'
    BY DEF CalmInv, Calm
  <1>. USE CalmBefore, Steps
       DEF PlaceInv, PaidInv, ExpiredInv, OpenInv, CalmInv, SettleAlone, HasChannel, At,
           Moves, Ends, Repeats, OthersStill, Still, Handlers, Paying, Opening, Racing
  <1>1. CASE h = "claim"
    BY <1>1 DEF OpenStep
  <1>2. CASE h = "online"
    BY <1>2 DEF OpenStep
  <1>. QED  BY <1>1, <1>2

LEMMA CalmKeptByOthers ==
  ASSUME ChannelTypeOK, PlaceInv, PaidInv, ExpiredInv, OpenInv, CalmInv, Sees,
         UNCHANGED start, OtherStep, UNCHANGED channels
  PROVE  CalmInv'
  <1>. SUFFICES ASSUME Calm' PROVE CalmInv'
    BY DEF CalmInv, Calm
  <1>. USE CalmBefore, Steps
       DEF PlaceInv, PaidInv, ExpiredInv, OpenInv, CalmInv, SettleAlone, HasChannel, At,
           Moves, Ends, Repeats, OthersStill, Still, Handlers, Paying, Opening, Racing
  <1>. QED  BY DEF OtherStep

-----------------------------------------------------------------------------
(* Restarts, and the theorems *)

(* A restart leaves idle handlers and those that start-up runs.            *)
LEMMA RestartKept ==
  ASSUME ChannelTypeOK, OpeningInv, Restart
  PROVE  OpeningInv'
  <1>1. /\ UNCHANGED <<row, creation, channels, payment, claimed>>
        /\ start'.crashes # 0 /\ saw'.late = saw.late
        /\ saw'.raced = (saw.raced \/ \E h \in Handlers : At(h, {"opened", "fund"}))
    BY ChannelAssumption DEF ChannelTypeOK, Restart
  <1>2. /\ job'["claim"].at = "idle"
        /\ job'["online"].at = "idle"
           \/ (job'["online"].at = "swap" /\ creation.status = "Attempted")
        /\ job'["settle"].at = "idle"
           \/ (job'["settle"].at = "swap" /\ creation.status = "Created")
    BY DEF Restart, Idle, Handlers, WantsChannel
  <1>3. PlaceInv' /\ PaidInv' /\ ExpiredInv'
    BY <1>1, <1>2
    DEF OpeningInv, PlaceInv, PaidInv, ExpiredInv, ExpiredPaidOnlyAtStart, At, Handlers,
        Paying, Opening
  <1>4. OpenInv'
    BY <1>1, <1>2
    DEF OpeningInv, OpenInv, NoOpening, HasChannel, Quiet, Racing, At, Handlers, Paying,
        Opening
  <1>5. CalmInv'
    BY <1>1 DEF CalmInv
  <1>. QED  BY <1>3, <1>4, <1>5 DEF OpeningInv

(* Whatever is opened, paid and settled, in whatever order, OpeningInv     *)
(* holds.                                                                  *)
THEOREM ChannelInductive == ChannelSpec => []OpeningInv
  <1>1. ASSUME ChannelInit PROVE OpeningInv
    <2>1. /\ job["claim"].at = "load" /\ job["claim"].row = "TransactionConfirmed"
          /\ \A h \in Handlers : job[h].from = "event"
          /\ job["online"].at = "idle" /\ job["settle"].at = "idle"
      BY <1>1 DEF ChannelInit, Idle, Handlers
    <2>. QED
      BY <1>1, <2>1
      DEF ChannelInit, OpeningInv, PlaceInv, PaidInv, ExpiredInv, ExpiredPaidOnlyAtStart,
          OpenInv, CalmInv, HasChannel, Racing, At, Handlers, Paying, Opening
  <1>2. ASSUME ChannelTypeOK, OpeningInv, ChannelNext PROVE OpeningInv'
    <2>1. CASE Restart
      BY <1>2, <2>1, RestartKept
    <2>2. CASE ~Restart
      <3>1. ChannelStep /\ UNCHANGED start /\ Sees
        BY <1>2, <2>2 DEF ChannelNext, Sees, SeesLate
      <3>2. \/ \E h \in {"claim", "settle"} : PayStep(h) /\ UNCHANGED <<creation, channels>>
            \/ \E h \in {"claim", "online"} : OpenStep(h) /\ UNCHANGED <<payment, claimed>>
            \/ OtherStep /\ UNCHANGED channels
        BY <1>2, <3>1, PaysSteps, OpensSteps, OthersSteps DEF ChannelStep, Others
      <3>3. PlaceInv' /\ PaidInv' /\ ExpiredInv'
        BY <1>2, <3>1, <3>2, PlaceKept, PaidKept, ExpiredKept DEF OpeningInv, Sees
      <3>4. OpenInv'
        BY <1>2, <3>1, <3>2, OpenKeptByPay, OpenKeptByOpen, OpenKeptByOthers DEF OpeningInv
      <3>5. CalmInv'
        BY <1>2, <3>1, <3>2, CalmKeptByPay, CalmKeptByOpen, CalmKeptByOthers DEF OpeningInv
      <3>. QED  BY <3>3, <3>4, <3>5 DEF OpeningInv
    <2>. QED  BY <2>1, <2>2
  <1>3. ASSUME OpeningInv, UNCHANGED channelVars PROVE OpeningInv'
    BY <1>3
    DEF OpeningInv, PlaceInv, PaidInv, ExpiredInv, ExpiredPaidOnlyAtStart, OpenInv, CalmInv,
        NoOpening, SettleAlone, HasChannel, Quiet, Racing, At, channelVars
  <1>. QED  BY <1>1, <1>2, <1>3, ChannelTypeCorrect, PTL DEF ChannelSpec

(* A swap gets one channel, unless handlers raced or an expired swap was   *)
(* revived.                                                                *)
THEOREM OneChannel == ChannelSpec => []SecondChannelOnlyByRace
  <1>1. ChannelTypeOK /\ OpeningInv => SecondChannelOnlyByRace
    BY ChannelAssumption
    DEF ChannelTypeOK, OpeningInv, OpenInv, Quiet, SecondChannelOnlyByRace
  <1>. QED  BY <1>1, ChannelTypeCorrect, ChannelInductive, PTL

(* An expired swap is paid for at start-up only.                           *)
THEOREM ExpiredPaidAtStart == ChannelSpec => []ExpiredPaidOnlyAtStart
  <1>1. OpeningInv => ExpiredPaidOnlyAtStart
    BY DEF OpeningInv, ExpiredInv
  <1>. QED  BY <1>1, ChannelInductive, PTL

(* Start-up finds a claimed swap with an unsettled channel only after a    *)
(* race or an earlier crash, or in the moment before SetSettled.           *)
THEOREM StartFailsByRace == ChannelSpec => []StartFailsOnlyByRace
  <1>1. ChannelTypeOK /\ OpeningInv => StartFailsOnlyByRace
    BY ChannelAssumption
    DEF ChannelTypeOK, OpeningInv, CalmInv, SettleAlone, StartFailsOnlyByRace
  <1>. QED  BY <1>1, ChannelTypeCorrect, ChannelInductive, PTL

=============================================================================
