------------------------------- MODULE Payout -------------------------------
(***************************************************************************)
(* What a reverse swap promises, whatever process, lock or nursery carries *)
(* it out: a user pays over Lightning, is paid out on the chain, and the   *)
(* payment is either taken against a claimed payout or given back.  A      *)
(* payment that is held is given back only after the swap has expired or   *)
(* when paying out has failed.                                             *)
(***************************************************************************)
EXTENDS Naturals

CONSTANTS Swaps, Outs   \* the swaps, and the names of their payouts

VARIABLES
  payment,   \* "open", "held", "settled" or "returned"
  coins,     \* of each payout: "none", "locked", "claimed" or "refunded"
  expired,   \* the time lock of the swap has been reached
  failed     \* the last attempt to pay out has failed

vars == <<payment, coins, expired, failed>>

Init ==
  /\ payment = [s \in Swaps |-> "open"]
  /\ coins = [s \in Swaps |-> [n \in Outs |-> "none"]]
  /\ expired \in [Swaps -> BOOLEAN]
  /\ failed = [s \in Swaps |-> FALSE]

Pay(s) ==
  /\ payment[s] = "open"
  /\ payment' = [payment EXCEPT ![s] = "held"]
  /\ UNCHANGED <<coins, expired, failed>>

Lock(s, n) ==
  /\ payment[s] # "open" /\ coins[s][n] = "none"
  /\ coins' = [coins EXCEPT ![s][n] = "locked"]
  /\ UNCHANGED <<payment, expired, failed>>

Claim(s, n) ==
  /\ coins[s][n] = "locked"
  /\ coins' = [coins EXCEPT ![s][n] = "claimed"]
  /\ UNCHANGED <<payment, expired, failed>>

Refund(s, n) ==
  /\ coins[s][n] = "locked" /\ expired[s]
  /\ coins' = [coins EXCEPT ![s][n] = "refunded"]
  /\ UNCHANGED <<payment, expired, failed>>

Settle(s) ==
  /\ payment[s] = "held" /\ \E n \in Outs : coins[s][n] = "claimed"
  /\ payment' = [payment EXCEPT ![s] = "settled"]
  /\ UNCHANGED <<coins, expired, failed>>

Return(s) ==
  /\ payment[s] = "open" \/ (payment[s] = "held" /\ (expired[s] \/ failed[s]))
  /\ payment' = [payment EXCEPT ![s] = "returned"]
  /\ failed' = [failed EXCEPT ![s] = FALSE]
  /\ UNCHANGED <<coins, expired>>

(* Time passes for all swaps at once; an expired swap stays expired.       *)
Expire ==
  /\ expired' \in [Swaps -> BOOLEAN]
  /\ \A s \in Swaps : expired[s] => expired'[s]
  /\ UNCHANGED <<payment, coins, failed>>

Fail(s) ==
  /\ failed' = [failed EXCEPT ![s] = TRUE]
  /\ UNCHANGED <<payment, coins, expired>>

(* A failure that was not acted upon gives no right to anything later.     *)
Forget == failed' = [s \in Swaps |-> FALSE] /\ UNCHANGED <<payment, coins, expired>>

Next ==
  \/ \E s \in Swaps : Pay(s) \/ Settle(s) \/ Return(s) \/ Fail(s)
  \/ \E s \in Swaps, n \in Outs : Lock(s, n) \/ Claim(s, n) \/ Refund(s, n)
  \/ Expire \/ Forget

Spec == Init /\ [][Next]_vars
=============================================================================
