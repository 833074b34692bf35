------------------------------ MODULE Purchase ------------------------------
(***************************************************************************)
(* What a normal swap promises to the operator, whatever process, lock or  *)
(* nursery carries it out: the invoice is paid only against coins that     *)
(* were locked and are enough, the coins are claimed only once it is paid, *)
(* and the user gets them back only after the swap has expired.            *)
(***************************************************************************)
EXTENDS Naturals

CONSTANT Swaps

VARIABLES
  coins,     \* "none", "locked", "claimed" or "refunded"
  enough,    \* they cover the invoice
  invoice,   \* "due", "inflight" or "paid"
  expired    \* the time lock of the swap has been reached

vars == <<coins, enough, invoice, expired>>

Init ==
  /\ coins = [s \in Swaps |-> "none"]
  /\ enough \in [Swaps -> BOOLEAN]
  /\ invoice = [s \in Swaps |-> "due"]
  /\ expired \in [Swaps -> BOOLEAN]

Lock(s) ==
  /\ coins[s] = "none"
  /\ coins' = [coins EXCEPT ![s] = "locked"]
  /\ \E b \in BOOLEAN : enough' = [enough EXCEPT ![s] = b]
  /\ UNCHANGED <<invoice, expired>>

Pay(s) ==
  /\ invoice[s] = "due" /\ coins[s] # "none" /\ enough[s]
  /\ invoice' = [invoice EXCEPT ![s] = "inflight"]
  /\ UNCHANGED <<coins, enough, expired>>

Answer(s, result) ==
  /\ invoice[s] = "inflight"
  /\ invoice' = [invoice EXCEPT ![s] = result]
  /\ UNCHANGED <<coins, enough, expired>>

Claim(s) ==
  /\ coins[s] = "locked" /\ invoice[s] = "paid"
  /\ coins' = [coins EXCEPT ![s] = "claimed"]
  /\ UNCHANGED <<enough, invoice, expired>>

Refund(s) ==
  /\ coins[s] = "locked" /\ expired[s]
  /\ coins' = [coins EXCEPT ![s] = "refunded"]
  /\ UNCHANGED <<enough, invoice, expired>>

(* Time passes for all swaps at once; an expired swap stays expired.       *)
Expire ==
  /\ expired' \in [Swaps -> BOOLEAN]
  /\ \A s \in Swaps : expired[s] => expired'[s]
  /\ UNCHANGED <<coins, enough, invoice>>

Next ==
  \/ \E s \in Swaps : Lock(s) \/ Pay(s) \/ Claim(s) \/ Refund(s)
  \/ \E s \in Swaps : Answer(s, "paid") \/ Answer(s, "due")
  \/ Expire

Spec == Init /\ [][Next]_vars
=============================================================================
