---------------------------- MODULE ChannelCreation ----------------------------
(***************************************************************************)
(* A normal swap whose invoice may be paid through a channel the backend   *)
(* opens: ChannelNursery next to the part of SwapNursery that pays.        *)
(* Three handlers run side by side, each under a lock of its own: "claim"  *)
(* (swapLock: pays, and opens a channel when there is no route), "online"  *)
(* (channelCreationLock: opens when the peer comes online and at start)    *)
(* and "settle" (no lock or channelSettleLock: pays through the channel).  *)
(* A step is what a handler does between two awaits; what it read before   *)
(* stays in its record while the rows change.                              *)
(***************************************************************************)
EXTENDS Naturals, FiniteSets

CONSTANTS
  MaxChannels,   \* bound: channels LND opens for the swap
  MaxRetry,      \* bound: retries of a settlement (three in the code)
  MaxCrash       \* bound: crashes of the backend

ASSUME ChannelAssumption ==
  MaxChannels \in Nat \ {0} /\ MaxRetry \in Nat /\ MaxCrash \in Nat

VARIABLES
  row,           \* the swap's status in the database
  creation,      \* the channel creation's row: status and funding channel (0: none)
  channels,      \* LND: how many channels it has opened to the payee
  payment,       \* LND: the payment of the invoice
  claimed,       \* the lockup was claimed on the chain
  due,           \* expiry: "no", "late" (height reached), "found" (expiry is queued)
  job,           \* [Handlers -> what the handler is at, with what it has read]
  start,         \* crashes so far, and whether start-up failed
  saw            \* history: openings that raced, expired swaps revived

channelVars == <<row, creation, channels, payment, claimed, due, job, start, saw>>

Handlers == {"claim", "online", "settle"}
SwapStates == {"TransactionConfirmed", "InvoicePending", "ChannelCreated", "InvoicePaid",
               "TransactionClaimed", "InvoiceFailedToPay", "SwapExpired"}
CreationStates == {"None", "Attempted", "Created", "Settled", "Abandoned"}
Creations == [status : CreationStates, funding : 0..MaxChannels]

Places == {"idle", "load", "pay", "send", "answer", "paid", "claim", "fee", "attempt",
           "open", "opened", "fund", "swap", "list", "timer", "settled"}
Jobs == [at : Places, row : SwapStates, read : Creations, from : {"event", "startup"},
         tries : 0..MaxRetry]
Idle == [at |-> "idle", row |-> "SwapExpired", read |-> [status |-> "None", funding |-> 0],
         from |-> "event", tries |-> 0]

At(h, places) == job[h].at \in places
Starting == \E h \in {"online", "settle"} : job[h].from = "startup"
Goto(h, place) == job' = [job EXCEPT ![h].at = place]
Done(h) == job' = [job EXCEPT ![h] = Idle]

(* The handler of the confirmed lockup is about to pay for the first time. *)
ChannelInit ==
  /\ row = "TransactionConfirmed" /\ creation = [status |-> "None", funding |-> 0]
  /\ channels = 0 /\ payment = "none" /\ claimed = FALSE /\ due = "no"
  /\ job = [h \in Handlers |->
              IF h = "claim" THEN [Idle EXCEPT !.at = "load", !.row = row] ELSE Idle]
  /\ start = [crashes |-> 0, failed |-> FALSE]
  /\ saw = [raced |-> FALSE, late |-> {}]

-----------------------------------------------------------------------------
(* A settlement that did not go through is tried again after a while with  *)
(* the same copies of the rows, a few times; at start-up it is not.        *)
\* faulty variant: one retry more
NotSettledOnceMore ==
  IF job["settle"].from = "startup" \/ job["settle"].tries > MaxRetry
  THEN Done("settle")
  ELSE job' = [job EXCEPT !["settle"].at = "timer", !["settle"].tries = @ + 1]
NotSettled ==
  IF job["settle"].from = "startup" \/ job["settle"].tries = MaxRetry
  THEN Done("settle")
  ELSE job' = [job EXCEPT !["settle"].at = "timer", !["settle"].tries = @ + 1]

(* An error ends the handler, or the attempt to settle.                    *)
Fail(h) == IF h = "settle" THEN NotSettled ELSE Done(h)

-----------------------------------------------------------------------------
(* attemptSettleSwap, claimUtxo and paySwapInvoice.                        *)
RetryQuery ==
  /\ At("claim", {"idle"}) /\ ~Starting /\ row = "InvoicePending"
  /\ job' = [job EXCEPT !["claim"] = [Idle EXCEPT !.at = "load", !.row = row]]
  /\ UNCHANGED <<row, creation, channels, payment, claimed, due>>

LoadCreation(h) ==
  /\ At(h, {"load"})
  /\ job' = [job EXCEPT ![h].at = "pay", ![h].read =
               IF h = "claim" THEN creation ELSE @]
  /\ UNCHANGED <<row, creation, channels, payment, claimed, due>>

SetInvoicePending(h) ==
  /\ At(h, {"pay"}) /\ Goto(h, "send")
  /\ row' = IF job[h].row \in {"InvoicePending", "ChannelCreated"} THEN row
            ELSE "InvoicePending"
  /\ UNCHANGED <<creation, channels, payment, claimed, due>>

(* LND refuses what is in flight.  What is paid already is looked up by    *)
(* the claim handler; with an outgoing channel the error is thrown, and    *)
(* its text is not the one settleChannel looks for.                        *)
SendPayment(h) ==
  /\ At(h, {"send"})
  /\ \/ payment = "none" /\ payment' = "inflight" /\ Goto(h, "answer")
     \/ payment = "inflight" /\ Fail(h) /\ UNCHANGED payment
     \/ /\ payment = "paid" /\ UNCHANGED payment
        /\ IF h = "claim" THEN Goto(h, "paid") ELSE Fail(h)
  /\ UNCHANGED <<row, creation, channels, claimed, due>>

PaymentSucceeds ==
  /\ payment = "inflight" /\ payment' = "paid"
  /\ UNCHANGED <<row, creation, channels, claimed, due, job>>

PaymentDies ==
  /\ payment = "inflight" /\ payment' = "none"
  /\ \A h \in Handlers : ~At(h, {"answer"})
  /\ UNCHANGED <<row, creation, channels, claimed, due, job>>

Preimage(h) ==
  /\ At(h, {"answer"}) /\ payment = "paid" /\ Goto(h, "paid")
  /\ UNCHANGED <<row, creation, channels, payment, claimed, due>>

(* The race ends first: no preimage, and no error either, so that for the  *)
(* channel nursery the swap is settled.                                    *)
RaceTimeout(h) ==
  /\ At(h, {"answer"})
  /\ IF h = "settle" THEN Goto(h, "settled") ELSE Done(h)
  /\ UNCHANGED <<row, creation, channels, payment, claimed, due>>

PaymentRejected(h) ==
  /\ At(h, {"answer"}) /\ payment = "inflight" /\ payment' = "none" /\ Fail(h)
  /\ row' = IF h = "claim" THEN "InvoiceFailedToPay" ELSE row
  /\ UNCHANGED <<creation, channels, claimed, due>>

MayOpen(read) == read.status # "Created"

NoRoute(h) ==
  /\ At(h, {"answer"}) /\ payment = "inflight" /\ payment' = "none"
  /\ IF h = "claim" /\ MayOpen(job[h].read) THEN Goto(h, "attempt") ELSE Fail(h)
  /\ UNCHANGED <<row, creation, channels, claimed, due>>

SetInvoicePaid(h) ==
  /\ At(h, {"paid"}) /\ row' = "InvoicePaid" /\ Goto(h, "claim")
  /\ UNCHANGED <<creation, channels, payment, claimed, due>>

(* The second claim transaction spends what is spent.                      *)
BroadcastClaim(h) ==
  /\ At(h, {"claim"}) /\ claimed' = TRUE
  /\ IF claimed THEN Fail(h) ELSE Goto(h, "fee")
  /\ UNCHANGED <<row, creation, channels, payment, due>>

\* faulty variant: the settlement ends when the lockup is claimed
SetMinerFeeEnds(h) ==
  /\ At(h, {"fee"}) /\ row' = "TransactionClaimed" /\ Done(h)
  /\ UNCHANGED <<creation, channels, payment, claimed, due>>
SetMinerFee(h) ==
  /\ At(h, {"fee"}) /\ row' = "TransactionClaimed"
  /\ IF h = "settle" THEN Goto(h, "settled") ELSE Done(h)
  /\ UNCHANGED <<creation, channels, payment, claimed, due>>

-----------------------------------------------------------------------------
(* openChannel, for the claim and the online handler.                      *)
SetAttempted(h) ==
  /\ At(h, {"attempt"})
  /\ job' = [job EXCEPT ![h] = [@ EXCEPT !.at = "open", !.read.status = "Attempted"]]
  /\ creation' = IF job[h].read.status = "Attempted" THEN creation
                 ELSE [creation EXCEPT !.status = "Attempted"]
  /\ UNCHANGED <<row, channels, payment, claimed, due>>

OpenChannel(h) ==
  /\ At(h, {"open"}) /\ channels < MaxChannels /\ channels' = channels + 1
  /\ job' = [job EXCEPT ![h] = [@ EXCEPT !.at = "opened", !.read.funding = channels + 1]]
  /\ UNCHANGED <<row, creation, payment, claimed, due>>

(* Any error but that a node is not synced, which is waited out.           *)
OpenFails(h) ==
  /\ At(h, {"open"}) /\ Done(h)
  /\ UNCHANGED <<row, creation, channels, payment, claimed, due>>

SetChannelCreated(h) ==
  /\ At(h, {"opened"}) /\ row' = "ChannelCreated" /\ Goto(h, "fund")
  /\ UNCHANGED <<creation, channels, payment, claimed, due>>

SetFundingTransaction(h) ==
  /\ At(h, {"fund"}) /\ Done(h)
  /\ creation' = [status |-> "Created", funding |-> job[h].read.funding]
  /\ UNCHANGED <<row, channels, payment, claimed, due>>

-----------------------------------------------------------------------------
(* peer.online, and retryOpeningChannels at start-up with its swap query.  *)
\* faulty variant: a swap that has its channel gets another one
WantsChannelTwice(c) == c.status \in {"Attempted", "Created"}
WantsChannel(c) == c.status = "Attempted"

PeerOnline ==
  /\ At("online", {"idle"}) /\ ~Starting /\ WantsChannel(creation)
  /\ job' = [job EXCEPT !["online"] = [Idle EXCEPT !.at = "swap", !.read = creation]]
  /\ UNCHANGED <<row, creation, channels, payment, claimed, due>>

OnlineSwap ==
  /\ At("online", {"swap"})
  /\ IF row = "SwapExpired" THEN Done("online") ELSE Goto("online", "attempt")
  /\ UNCHANGED <<row, creation, channels, payment, claimed, due>>

(* At start-up the peer may not be connected.                              *)
PeerNotListed ==
  /\ At("online", {"swap"}) /\ job["online"].from = "startup" /\ Done("online")
  /\ UNCHANGED <<row, creation, channels, payment, claimed, due>>

-----------------------------------------------------------------------------
(* channel.active, its retries, and settleCreatedChannels at start-up.     *)
ChannelActive ==
  /\ At("settle", {"idle"}) /\ ~Starting /\ creation.status = "Created"
  /\ job' = [job EXCEPT !["settle"] = [Idle EXCEPT !.at = "swap", !.read = creation]]
  /\ UNCHANGED <<row, creation, channels, payment, claimed, due>>

\* faulty variant: the listener settles whatever became of the swap
AbandonsNothing(status) == FALSE
Abandons(status) == status = "SwapExpired"

(* The query leaves claimed swaps out.  The listener then throws; start-up *)
(* throws too, and the backend does not come up.                           *)
SettleSwap ==
  LET startup == job["settle"].from = "startup" IN
  /\ At("settle", {"swap"})
  /\ \/ row = "TransactionClaimed" /\ Done("settle") /\ UNCHANGED creation
     \/ /\ row # "TransactionClaimed" /\ ~startup /\ Abandons(row) /\ Done("settle")
        /\ creation' = [creation EXCEPT !.status = "Abandoned"]
     \/ /\ row # "TransactionClaimed" /\ (startup \/ ~Abandons(row))
        /\ job' = [job EXCEPT !["settle"].at = "list", !["settle"].row = row]
        /\ UNCHANGED creation
  /\ UNCHANGED <<row, channels, payment, claimed, due>>

(* LND lists the channel as active, or not yet.                            *)
ListChannels ==
  /\ At("settle", {"list"}) /\ (Goto("settle", "load") \/ NotSettled)
  /\ UNCHANGED <<row, creation, channels, payment, claimed, due>>

SettleTimer ==
  /\ At("settle", {"timer"}) /\ Goto("settle", "list")
  /\ UNCHANGED <<row, creation, channels, payment, claimed, due>>

SetSettled ==
  /\ At("settle", {"settled"}) /\ Done("settle")
  /\ creation' = [creation EXCEPT !.status = "Settled"]
  /\ UNCHANGED <<row, channels, payment, claimed, due>>

-----------------------------------------------------------------------------
(* The chain reaches the swap's timeout; a block finds it, then the lock   *)
(* is waited for and only expired swaps are left alone.                    *)
Timeout ==
  /\ due = "no" /\ due' = "late"
  /\ UNCHANGED <<row, creation, channels, payment, claimed, job>>

CheckExpired ==
  /\ due = "late" /\ due' = "found"
  /\ row \notin {"SwapExpired", "InvoiceFailedToPay", "TransactionClaimed"}
  /\ UNCHANGED <<row, creation, channels, payment, claimed, job>>

ExpireSwap ==
  /\ due = "found" /\ due' = "late" /\ At("claim", {"idle"})
  /\ row' = "SwapExpired"
  /\ UNCHANGED <<creation, channels, payment, claimed, job>>

-----------------------------------------------------------------------------
(* Two handlers that may open a channel, each with rows it read while the  *)
(* other was not done.                                                     *)
Racing == ~At("online", {"idle"}) /\ ~At("claim", {"idle"})

(* A handler that read that the swap is expired goes on to pay: its first  *)
(* write makes the swap pending again.                                     *)
Revives == {job[h].from : h \in {i \in Handlers :
              At(i, {"pay"}) /\ job[i].row = "SwapExpired"}}

(* A crash while LND opens a channel loses its funding transaction.        *)
Restart ==
  /\ start.crashes < MaxCrash /\ ~start.failed
  /\ start' = [crashes |-> start.crashes + 1,
               failed |-> creation.status = "Created" /\ row = "TransactionClaimed"]
  /\ LET starts(h, place) == [Idle EXCEPT !.at = place, !.read = creation, !.from = "startup"]
     IN job' = [h \in Handlers |->
          CASE start'.failed -> Idle
            [] h = "online" /\ WantsChannel(creation) -> starts(h, "swap")
            [] h = "settle" /\ creation.status = "Created" -> starts(h, "swap")
            [] OTHER -> Idle]
  /\ saw' = [saw EXCEPT !.raced = @ \/ \E h \in Handlers : At(h, {"opened", "fund"})]
  /\ due' = IF due = "found" THEN "late" ELSE due
  /\ UNCHANGED <<row, creation, channels, payment, claimed>>

Pays(h) ==
  \/ LoadCreation(h) \/ SetInvoicePending(h) \/ SendPayment(h) \/ Preimage(h)
  \/ RaceTimeout(h) \/ PaymentRejected(h) \/ NoRoute(h) \/ SetInvoicePaid(h)
  \/ BroadcastClaim(h) \/ SetMinerFee(h)

Opens(h) ==
  \/ SetAttempted(h) \/ OpenChannel(h) \/ OpenFails(h)
  \/ SetChannelCreated(h) \/ SetFundingTransaction(h)

ChannelStep ==
  \/ RetryQuery \/ PaymentSucceeds \/ PaymentDies
  \/ \E h \in {"claim", "settle"} : Pays(h)
  \/ \E h \in {"claim", "online"} : Opens(h)
  \/ PeerOnline \/ OnlineSwap \/ PeerNotListed
  \/ ChannelActive \/ SettleSwap \/ ListChannels \/ SettleTimer \/ SetSettled
  \/ Timeout \/ CheckExpired \/ ExpireSwap

ChannelNext ==
  \/ /\ ~start.failed /\ ChannelStep /\ UNCHANGED start
     /\ saw' = [raced |-> saw.raced \/ Racing', late |-> saw.late \union Revives]
  \/ Restart

ChannelSpec == ChannelInit /\ [][ChannelNext]_channelVars

-----------------------------------------------------------------------------
ChannelTypeOK ==
  /\ row \in SwapStates /\ creation \in Creations /\ channels \in 0..MaxChannels
  /\ payment \in {"none", "inflight", "paid"} /\ claimed \in BOOLEAN
  /\ due \in {"no", "late", "found"}
  /\ start \in [crashes : 0..MaxCrash, failed : BOOLEAN]
  /\ saw \in [raced : BOOLEAN, late : SUBSET {"event", "startup"}]
  /\ job \in [Handlers -> Jobs]

(* A swap gets a second channel only if both handlers that open channels   *)
(* were at it together, the backend died with one half recorded, or        *)
(* start-up had gone on to pay for an expired swap.                        *)
SecondChannelOnlyByRace == channels > 1 => saw.raced \/ saw.late # {}

(* The invoice of a swap that the handler itself read to be expired is     *)
(* paid only at start-up, where nothing looks at the status.               *)
ExpiredPaidOnlyAtStart == saw.late \subseteq {"startup"}

(* While the backend is up and no two handlers race, a claimed swap keeps  *)
(* its channel in status Created, over which start-up fails for good, only *)
(* for the moment before SetSettled.                                       *)
StartFailsOnlyByRace ==
  creation.status = "Created" /\ row = "TransactionClaimed" =>
    saw.raced \/ At("settle", {"settled"}) \/ start.crashes > 0

-----------------------------------------------------------------------------
(***************************************************************************)
(* Why: coins are claimed and rows say paid only after the payment, which  *)
(* is never undone; a handler that goes on to pay read a swap that was not *)
(* expired, except at start-up; and once the channel is on record nobody   *)
(* is about to open one, and who still pays finds the invoice paid.        *)
(***************************************************************************)
Paying == {"list", "timer", "load", "pay", "send", "answer", "paid", "claim", "fee"}
Opening == {"attempt", "open", "opened", "fund"}
Quiet == ~saw.raced /\ saw.late = {}
HasChannel == creation.status \in {"Created", "Settled", "Abandoned"}

PlaceInv ==
  /\ job["online"].at \in Opening \union {"idle", "swap"}
  /\ job["claim"].at \notin {"swap", "list", "timer", "settled"}
  /\ job["settle"].at \notin Opening

PaidInv ==
  /\ \A h \in Handlers : At(h, {"paid", "claim", "fee"}) => payment = "paid"
  /\ claimed \/ row \in {"InvoicePaid", "TransactionClaimed"} => payment = "paid"

ExpiredInv ==
  /\ ExpiredPaidOnlyAtStart
  /\ \A h \in Handlers :
       At(h, Paying) /\ job[h].row = "SwapExpired" => job[h].from = "startup"

NoOpening ==
  /\ At("claim", {"idle"}) \/ payment = "paid"
  /\ row \in {"ChannelCreated", "SwapExpired"} \/ payment = "paid"
  /\ At("settle", Paying) =>
       job["settle"].row \in {"ChannelCreated", "SwapExpired"} \/ payment = "paid"

OpenInv ==
  Quiet =>
    /\ ~Racing /\ channels <= 1
    /\ channels > 0 => HasChannel \/ \E h \in Handlers : At(h, {"opened", "fund"})
    /\ HasChannel => NoOpening
    /\ \A h \in {"claim", "online"} :
         /\ At(h, Opening) => ~HasChannel
         /\ At(h, {"fund"}) => row \in {"ChannelCreated", "SwapExpired"}
    /\ At("online", {"idle"}) \/ ~HasChannel
    /\ At("settle", {"idle"}) \/ HasChannel

SettleAlone ==
  /\ At("claim", {"idle"})
  /\ \/ row \in {"ChannelCreated", "SwapExpired"}
     \/ row = "InvoicePaid" /\ At("settle", {"claim", "fee"})
     \/ row = "TransactionClaimed" /\ At("settle", {"settled"})
  /\ At("settle", {"answer", "paid", "claim"}) => ~claimed
  /\ At("settle", Paying) => job["settle"].row = "ChannelCreated"

CalmInv ==
  ~saw.raced /\ start.crashes = 0 =>
    /\ saw.late = {} /\ \A h \in Handlers : job[h].from = "event"
    /\ creation.status = "Created" => SettleAlone

OpeningInv == PlaceInv /\ PaidInv /\ ExpiredInv /\ OpenInv /\ CalmInv
=============================================================================
