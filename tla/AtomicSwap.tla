------------------------------- MODULE AtomicSwap -------------------------------
(***************************************************************************)
(* A chain-to-chain swap after the user has locked on his chain: the       *)
(* backend locks the same hash on the other chain ("ours"), the user       *)
(* claims that with the preimage, and the backend takes the preimage to    *)
(* claim what the user locked ("theirs").  side is the chain of ours:      *)
(* "stx" (lockupStxSwap, asClaimUtxo, refundStxAS) or "utxo"               *)
(* (lockupUtxoSwap, claimStx with a detected preimage, refundUtxoAS).      *)
(* Handlers queue at swapLock; refunds and the listener of a broadcast run *)
(* beside them, because nobody awaits them.                                *)
(***************************************************************************)
EXTENDS Naturals, FiniteSets

CONSTANTS
  Timely,        \* the user's lock does not time out while a claim is being handled
  MaxFail        \* bound: calls that fail or whose answer is lost

ASSUME AtomicAssumption == Timely \in BOOLEAN /\ MaxFail \in Nat

VARIABLES
  side,
  theirs,        \* the user's lock: "locked", "claimed" by the backend, "refunded"
  ours,          \* the backend's: "none", "sent", "locked", "claimed", "refunded"
  asRow,         \* the swap's status
  asId,          \* asLockupTransactionId is set
  late,          \* the timeouts reached: subset of {"theirs", "ours"}
  notes,         \* chain events not yet handled
  asJobs,        \* handlers that wait for swapLock
  at,            \* the handler that holds it
  listener,      \* listenStacksContractTransactionSwap: its answer, until written
  refund,        \* the refund nobody awaits: "none", "ask", "call" (broadcast), "write"
  asFails,
  excuse         \* history: why the backend may have lost something

atomicVars == <<side, theirs, ours, asRow, asId, late, notes, asJobs, at, listener,
                refund, asFails, excuse>>

Chains == <<theirs, ours, late>>
AsStates == {"TransactionMempool", "TransactionConfirmed", "TransactionZeroConfRejected",
             "TransactionFailed", "ASTransactionMempool", "ASTransactionConfirmed",
             "TransactionClaimed", "SwapExpired", "TransactionRefunded"}
Notes == {"seen", "confirmed", "claim", "claimConfirmed"}
ClaimNotes == {"claim", "claimConfirmed"}
ExpiryKinds == {"expire", "expireLocked"}   \* the copy has no, or has, a lockup id
AsJobKinds == {"lock", "reject", "claim"} \union ExpiryKinds

AtomicInit ==
  /\ side \in {"stx", "utxo"} /\ theirs = "locked" /\ ours = "none"
  /\ asRow = "TransactionConfirmed" /\ asId = FALSE /\ late = {} /\ notes = {}
  /\ asJobs = {"lock"} /\ at = "idle" /\ listener = "none" /\ refund = "none"
  /\ asFails = 0 /\ excuse = {}

CallFails(why) ==
  /\ asFails < MaxFail /\ asFails' = asFails + 1 /\ excuse' = excuse \union {why}

-----------------------------------------------------------------------------
Begin(kind) ==
  /\ at = "idle" /\ kind \in asJobs /\ asJobs' = asJobs \ {kind} /\ at' = kind
  /\ UNCHANGED <<Chains, side, asRow, asId, notes, listener, refund, asFails, excuse>>

(* lockupStxSwap and lockupUtxoSwap: the coins go out before any row says  *)
(* so.  A refused Stacks call is an answer like any other; an exception,   *)
(* also one after the coins went out, ends in handleSwapSendFailed.        *)
SendLockup ==
  /\ at = "lock" /\ ours = "none" /\ ours' = "sent"
  /\ listener' = IF side = "stx" THEN "ok" ELSE "none"
  /\ at' = "locked"
  /\ notes' = IF side = "utxo" THEN notes \union {"seen"} ELSE notes
  /\ UNCHANGED <<side, theirs, late, asRow, asId, asJobs, refund, asFails, excuse>>

LockupRefused ==
  /\ at = "lock" /\ side = "stx" /\ listener' = "refused" /\ at' = "refused"
  /\ UNCHANGED <<Chains, side, asRow, asId, notes, asJobs, refund, asFails, excuse>>

LockupThrows ==
  /\ at = "lock" /\ at' = "failed" /\ CallFails("unrecorded")
  /\ ours' \in {ours, "sent"}
  /\ UNCHANGED <<side, theirs, late, asRow, asId, notes, asJobs, listener, refund>>

(* The rows of an accepted and of a refused Stacks lockup are the same but *)
(* for the transaction id; for UTXOs it goes to lockupTransactionId.       *)
SetLockup ==
  /\ at \in {"locked", "refused"} /\ at' = "idle"
  /\ asRow' = IF side = "stx" THEN "ASTransactionMempool" ELSE "TransactionMempool"
  /\ asId' = (asId \/ (side = "stx" /\ at = "locked"))
  /\ UNCHANGED <<Chains, side, notes, asJobs, listener, refund, asFails, excuse>>

HandleSwapSendFailed ==
  /\ at = "failed" /\ at' = "idle" /\ asRow' = "TransactionFailed"
  /\ UNCHANGED <<Chains, side, asId, notes, asJobs, listener, refund, asFails, excuse>>

(* The listener was started first, its write may still come second.        *)
WriteListener ==
  /\ listener # "none" /\ listener' = "none"
  /\ asRow' = IF listener = "ok" THEN "TransactionConfirmed" ELSE "TransactionFailed"
  /\ UNCHANGED <<Chains, side, asId, notes, asJobs, at, refund, asFails, excuse>>

-----------------------------------------------------------------------------
OursConfirms ==
  /\ ours = "sent" /\ ours' = "locked" /\ notes' = notes \union {"confirmed"}
  /\ UNCHANGED <<side, theirs, late, asRow, asId, asJobs, at, listener, refund, asFails, excuse>>

(* eth.lockup, for the backend's own lockup.                               *)
SeeOwnStx(n) ==
  /\ side = "stx"
  /\ asRow' = IF asRow \in {"ASTransactionMempool", "ASTransactionConfirmed"}
              THEN "ASTransactionConfirmed" ELSE asRow
  /\ UNCHANGED <<asId, asJobs>>

(* checkAtomicSwapOutputs, the outputs: the backend's own unconfirmed      *)
(* lockup is judged by the rules for a user's.                             *)
SeeOwnUtxo(n) ==
  /\ side = "utxo"
  /\ \/ /\ asRow \in {"TransactionMempool", "TransactionZeroConfRejected",
                      "ASTransactionMempool"}
        /\ asId' = TRUE
        /\ asRow' = IF n = "seen" THEN "ASTransactionMempool" ELSE "ASTransactionConfirmed"
        /\ asJobs' \in IF n = "seen" THEN {asJobs, asJobs \union {"reject"}} ELSE {asJobs}
     \/ /\ asRow \notin {"TransactionMempool", "TransactionZeroConfRejected",
                         "ASTransactionMempool"}
        /\ UNCHANGED <<asRow, asId, asJobs>>

SeeOwn(n) ==
  /\ n \in notes /\ notes' = notes \ {n} /\ (SeeOwnStx(n) \/ SeeOwnUtxo(n))
  /\ UNCHANGED <<Chains, side, at, listener, refund, asFails, excuse>>

SetZeroConfRejected ==
  /\ at = "reject" /\ at' = "idle" /\ asRow' = "TransactionZeroConfRejected"
  /\ UNCHANGED <<Chains, side, asId, notes, asJobs, listener, refund, asFails, excuse>>

-----------------------------------------------------------------------------
(* The user claims: a UTXO from the mempool too, and seen twice there.     *)
UserClaimsOurs ==
  /\ ours \in IF side = "utxo" THEN {"sent", "locked"} ELSE {"locked"}
  /\ ours' = "claimed"
  /\ notes' = notes \union IF side = "utxo" THEN ClaimNotes ELSE {"claim"}
  /\ excuse' = excuse \union (IF "theirs" \in late THEN {"late"} ELSE {})
  /\ UNCHANGED <<side, theirs, late, asRow, asId, asJobs, at, listener, refund, asFails>>

\* faulty variant: a claim counts only when the lockup was seen to confirm
FindsClaimConfirmed == asRow = "ASTransactionConfirmed"
(* eth.claim finds whatever is not claimed.  An input is looked for by the *)
(* recorded lockup and in four states, one of which (TransactionConfirmed) *)
(* is the state before the backend's own lockup is recorded.               *)
FindsClaim ==
  IF side = "stx" THEN asRow # "TransactionClaimed"
  ELSE asRow \in {"TransactionMempool", "ASTransactionMempool", "ASTransactionConfirmed"}

SeeClaim(n) ==
  /\ n \in notes
  /\ \/ FindsClaim /\ notes' = notes \ ClaimNotes /\ asJobs' = asJobs \union {"claim"}
        /\ UNCHANGED excuse
     \/ /\ ~FindsClaim /\ notes' = notes \ {n} /\ UNCHANGED asJobs
        /\ excuse' = excuse \union (IF side = "utxo" THEN {asRow} ELSE {})
  /\ UNCHANGED <<Chains, side, asRow, asId, at, listener, refund, asFails>>

(* claimStx looks at the timeout first, and takes any answer for a claim;  *)
(* asClaimUtxo catches what goes wrong, and nothing comes back to it.      *)
ClaimTheirs ==
  /\ at = "claim"
  /\ IF side = "stx" THEN theirs = "locked" ELSE "theirs" \notin late
  /\ theirs' = IF theirs = "locked" THEN "claimed" ELSE theirs
  /\ at' = "fee"
  /\ UNCHANGED <<side, ours, late, asRow, asId, notes, asJobs, listener, refund, asFails, excuse>>

ClaimGivenUp ==
  /\ at = "claim" /\ at' = "idle"
  /\ IF side = "stx" THEN theirs # "locked" ELSE "theirs" \in late
  /\ UNCHANGED <<Chains, side, asRow, asId, notes, asJobs, listener, refund, asFails, excuse>>

ClaimFails ==
  /\ at = "claim" /\ CallFails("claim")
  /\ at' = IF side = "stx" THEN "idle" ELSE "fee"
  /\ UNCHANGED <<Chains, side, asRow, asId, notes, asJobs, listener, refund>>

SetClaimed ==
  /\ at = "fee" /\ at' = "idle" /\ asRow' = "TransactionClaimed"
  /\ UNCHANGED <<Chains, side, asId, notes, asJobs, listener, refund, asFails, excuse>>

-----------------------------------------------------------------------------
(* Every block of the user's chain emits the row as it is then; bound: one *)
(* event of a kind at a time waits for the lock.                           *)
FindExpired ==
  /\ "theirs" \in late
  /\ asRow \notin {"SwapExpired", "TransactionClaimed"}
  /\ asJobs' = asJobs \union {IF asId THEN "expireLocked" ELSE "expire"}
  /\ UNCHANGED <<Chains, side, asRow, asId, notes, at, listener, refund, asFails, excuse>>

\* faulty variant: the refund is started only once the lockup is confirmed
StartsRefundConfirmed ==
  IF at = "expireLocked" /\ asRow = "ASTransactionConfirmed" THEN "ask" ELSE refund
StartsRefund == IF at = "expireLocked" THEN "ask" ELSE refund

(* The status is queried again; whether there is something to refund is    *)
(* read in the event's copy, which may be older than the lockup's record.  *)
ExpireAtomicSwap ==
  /\ at \in ExpiryKinds
  /\ \/ /\ asRow \in {"SwapExpired", "TransactionRefunded"} /\ at' = "idle"
        /\ UNCHANGED <<refund, excuse>>
     \/ /\ asRow \notin {"SwapExpired", "TransactionRefunded"} /\ at' = "expired"
        /\ refund' = StartsRefund
        /\ excuse' = excuse \union (IF at = "expireLocked" THEN {}
                                   ELSE IF asId THEN {"stale"} ELSE {"unrecorded"})
  /\ UNCHANGED <<Chains, side, asRow, asId, notes, asJobs, listener, asFails>>

SetAsExpired ==
  /\ at = "expired" /\ at' = "idle" /\ asRow' = "SwapExpired"
  /\ UNCHANGED <<Chains, side, asId, notes, asJobs, listener, refund, asFails, excuse>>

(* A Stacks call is broadcast whatever it will do; a UTXO refund is        *)
(* refused when it is early or when there is nothing to spend.             *)
AskRefund ==
  /\ refund = "ask" /\ (side = "utxo" => ours = "locked" /\ "ours" \in late)
  /\ IF side = "utxo" THEN refund' = "write" /\ ours' = "refunded"
     ELSE refund' = "call" /\ UNCHANGED ours
  /\ UNCHANGED <<side, theirs, late, asRow, asId, notes, asJobs, at, listener, asFails, excuse>>

RefundThrows ==
  /\ refund = "ask" /\ refund' = "none"
  /\ \/ side = "utxo" /\ ~(ours = "locked" /\ "ours" \in late)
        /\ excuse' = excuse \union {"early"} /\ UNCHANGED asFails
     \/ CallFails("refund")
  /\ UNCHANGED <<Chains, side, asRow, asId, notes, asJobs, at, listener>>

(* The block that has the call decides; a block with an early call aborts  *)
(* it, and so does one the lockup has not come before.                     *)
ExecuteRefund ==
  /\ refund = "call" /\ refund' = "write"
  /\ IF ours = "locked" /\ "ours" \in late THEN ours' = "refunded" /\ UNCHANGED excuse
     ELSE UNCHANGED ours /\ excuse' = excuse \union {"early"}
  /\ UNCHANGED <<side, theirs, late, asRow, asId, notes, asJobs, at, listener, asFails>>

SetAsRefunded ==
  /\ refund = "write" /\ refund' = "none" /\ asRow' = "TransactionRefunded"
  /\ UNCHANGED <<Chains, side, asId, notes, asJobs, at, listener, asFails, excuse>>

-----------------------------------------------------------------------------
Handling == notes \intersect ClaimNotes # {} \/ "claim" \in asJobs \/ at = "claim"

TheirTimeout ==
  /\ "theirs" \notin late /\ (Timely => ~Handling) /\ late' = late \union {"theirs"}
  /\ UNCHANGED <<side, theirs, ours, asRow, asId, notes, asJobs, at, listener, refund,
                 asFails, excuse>>

OurTimeout ==
  /\ "ours" \notin late /\ late' = late \union {"ours"}
  /\ UNCHANGED <<side, theirs, ours, asRow, asId, notes, asJobs, at, listener, refund,
                 asFails, excuse>>

UserRefundsTheirs ==
  /\ theirs = "locked" /\ "theirs" \in late /\ theirs' = "refunded"
  /\ UNCHANGED <<side, ours, late, asRow, asId, notes, asJobs, at, listener, refund,
                 asFails, excuse>>

AtomicNext ==
  \/ \E kind \in AsJobKinds : Begin(kind)
  \/ SendLockup \/ LockupRefused \/ LockupThrows \/ SetLockup
  \/ HandleSwapSendFailed \/ WriteListener
  \/ OursConfirms \/ SetZeroConfRejected \/ UserClaimsOurs
  \/ \E n \in {"seen", "confirmed"} : SeeOwn(n)
  \/ \E n \in ClaimNotes : SeeClaim(n)
  \/ ClaimTheirs \/ ClaimGivenUp \/ ClaimFails \/ SetClaimed
  \/ FindExpired \/ ExpireAtomicSwap \/ SetAsExpired
  \/ AskRefund \/ RefundThrows \/ ExecuteRefund \/ SetAsRefunded
  \/ TheirTimeout \/ OurTimeout \/ UserRefundsTheirs

AtomicSpec == AtomicInit /\ [][AtomicNext]_atomicVars

-----------------------------------------------------------------------------
AtomicTypeOK ==
  /\ side \in {"stx", "utxo"} /\ theirs \in {"locked", "claimed", "refunded"}
  /\ ours \in {"none", "sent", "locked", "claimed", "refunded"}
  /\ asRow \in AsStates /\ asId \in BOOLEAN /\ late \subseteq {"theirs", "ours"}
  /\ notes \subseteq Notes /\ asJobs \subseteq AsJobKinds
  /\ at \in AsJobKinds \union {"idle", "locked", "refused", "failed", "fee", "expired"}
  /\ listener \in {"none", "ok", "refused"} /\ refund \in {"none", "ask", "call", "write"}
  /\ asFails \in 0..MaxFail
  /\ excuse \subseteq AsStates \union {"unrecorded", "stale", "claim", "late", "early", "refund"}

(* A user who claims before his own lock times out does not get both sides *)
(* when the claim is handled in time, unless the claim call failed, the    *)
(* lockup's answer was lost, or the claim of a UTXO met a row that hides   *)
(* it: not recorded yet, or rejected as unconfirmed.                       *)
ClaimedInTimePaid ==
  Timely /\ ours = "claimed" /\ theirs = "refunded" =>
    excuse \intersect ({"late", "claim"} \union
      IF side = "utxo" THEN {"unrecorded", "TransactionConfirmed", "TransactionZeroConfRejected"}
      ELSE {}) # {}

(* Once the swap is expired and nothing is under way, coins are still in   *)
(* the backend's lock only if the expiry decided before the lockup was     *)
(* recorded, or from a copy that was read before, or if the one refund     *)
(* failed or was early.                                                    *)
Settled == at = "idle" /\ asJobs = {} /\ refund = "none" /\ notes = {} /\ listener = "none"
OursComesBack ==
  Settled /\ ours \in {"sent", "locked"} /\ asRow \in {"SwapExpired", "TransactionRefunded"} =>
    excuse \intersect {"unrecorded", "stale", "early", "refund"} # {}

-----------------------------------------------------------------------------
(***************************************************************************)
(* Why: expiry handling means that the user's timeout was reached; a row   *)
(* says claimed only when the claim was made or failed; and from the claim *)
(* of the backend's coins on something is on its way to claim the user's.  *)
(***************************************************************************)
Hidden == IF side = "utxo"
          THEN {"unrecorded", "TransactionConfirmed", "TransactionZeroConfRejected"} ELSE {}
Excused == excuse \intersect ({"late", "claim"} \union Hidden) # {}

ExpiryInv ==
  /\ theirs = "refunded" => "theirs" \in late
  /\ \/ asJobs \intersect ExpiryKinds # {} \/ at \in ExpiryKinds \union {"expired"}
     \/ refund # "none"
     \/ asRow \in {"SwapExpired", "TransactionRefunded"}
     => "theirs" \in late

FailedInv ==
  /\ side = "utxo" => listener = "none" /\ at # "refused"
  /\ at = "failed" \/ (side = "utxo" /\ asRow = "TransactionFailed") => "unrecorded" \in excuse

ClaimInv ==
  /\ at = "fee" \/ asRow = "TransactionClaimed" => theirs = "claimed" \/ "claim" \in excuse
  /\ Timely /\ ours = "claimed" =>
       \/ Excused \/ theirs = "claimed"
       \/ Handling /\ theirs = "locked" /\ "theirs" \notin late

TheirsInv == ExpiryInv /\ FailedInv /\ ClaimInv

(* Coins go out once, and an expiry that is handled leaves a refund under  *)
(* way until the coins are gone or the history says why not.               *)
RefundExcused == excuse \intersect {"unrecorded", "stale", "early", "refund"} # {}
Gone == ours \in {"claimed", "refunded"}

OursInv ==
  /\ "lock" \in asJobs => at # "lock"
  /\ "lock" \in asJobs \/ at = "lock" => ours = "none"
  /\ refund = "write" => Gone \/ RefundExcused
  /\ at = "expired" \/ asRow \in {"SwapExpired", "TransactionRefunded"} =>
       refund \in {"ask", "call"} \/ Gone \/ RefundExcused
=============================================================================
