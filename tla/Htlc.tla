-------------------------------- MODULE Htlc ---------------------------------
(***************************************************************************)
(* What a hash time lock contract promises: for every hash, coins are      *)
(* locked under terms nobody can change, and they leave once, claimed by   *)
(* the one they are for, who knows the preimage, or refunded after the     *)
(* time lock to the one who locked them.                                   *)
(***************************************************************************)
EXTENDS Naturals

CONSTANTS
  Hashes,
  Terms,       \* amount, timelock, initiator, claimPrincipal and token of a lock
  Nothing      \* no coins are locked

VARIABLES
  offer,       \* [Hashes -> the terms of the coins that are locked, or Nothing]
  caller,      \* who sent the call that is executed
  knows,       \* [Hashes -> the principals who know the preimage]
  clock        \* the block height

HtlcInit == offer = [h \in Hashes |-> Nothing]

Lock(h) ==
  /\ offer[h] = Nothing
  /\ \E t \in Terms : t.initiator = caller' /\ offer' = [offer EXCEPT ![h] = t]

Claim(h) ==
  /\ offer[h] # Nothing /\ offer' = [offer EXCEPT ![h] = Nothing]
  /\ caller' = offer[h].claimPrincipal /\ caller' \in knows[h]

Refund(h) ==
  /\ offer[h] # Nothing /\ offer' = [offer EXCEPT ![h] = Nothing]
  /\ caller' = offer[h].initiator /\ clock > offer[h].timelock

HtlcNext == \E h \in Hashes : Lock(h) \/ Claim(h) \/ Refund(h)

HtlcSpec == HtlcInit /\ [][HtlcNext]_offer
=============================================================================
