----------------------------- MODULE SwapContract -----------------------------
(***************************************************************************)
(* The swap contracts on Stacks: stxswap, whose only token is STX, and     *)
(* sip10swap, whose calls name a token that must be the one of the entry;  *)
(* and the trigger contract, which claims and uses the coins in one        *)
(* transaction.  A call that fails anywhere changes nothing: an action is  *)
(* a call that succeeds.  Calls reveal their arguments.                    *)
(***************************************************************************)
EXTENDS Naturals, FiniteSets, Sums

CONSTANTS
  Hashes,        \* preimage hashes
  Users,         \* principals that call the contract
  Maker,         \* [Hashes -> Users]: who knows the preimage at first
  Tokens,        \* {"STX"} for stxswap
  NoSwap,        \* no entry in the map
  MaxAmount,     \* bound: amounts, and what a user owns of a token at first
  MaxClock       \* bound: block heights and time locks

Contract == "contract"
Entries == [amount : 1..MaxAmount, timelock : 0..MaxClock, initiator : Users,
            claimPrincipal : Users, token : Tokens]
ASSUME ContractAssumption ==
  /\ Contract \notin Users
  /\ Maker \in [Hashes -> Users]
  /\ MaxAmount \in Nat /\ MaxClock \in Nat
  /\ NoSwap \notin Entries

VARIABLES
  swaps,         \* the contract's map, as a function with NoSwap for no entry
  funds,         \* [token -> [principal -> amount]]
  revealed,      \* hashes whose preimage is public
  txSender,      \* tx-sender of the last call
  blockHeight

contractVars == <<swaps, funds, revealed, txSender, blockHeight>>

ContractInit ==
  /\ swaps = [h \in Hashes |-> NoSwap]
  /\ funds = [t \in Tokens |-> [p \in Users \union {Contract} |->
                IF p = Contract THEN 0 ELSE MaxAmount]]
  /\ revealed = {}
  /\ txSender = Contract
  /\ blockHeight = 0

-----------------------------------------------------------------------------
(* A transfer within the contract's call: it fails without the funds, to   *)
(* the sender, and of nothing.                                             *)
CanTransfer(t, amount, from, to) == amount > 0 /\ funds[t][from] >= amount /\ from # to
Moved(f, t, amount, from, to) ==
  [f EXCEPT ![t][from] = @ - amount, ![t][to] = @ + amount]

(* lockStx, lockToken *)
LockToken(p, h, amount, timelock, claimPrincipal, t) ==
  /\ amount > 0
  /\ swaps[h] = NoSwap
  /\ CanTransfer(t, amount, p, Contract)
  /\ funds' = Moved(funds, t, amount, p, Contract)
  /\ swaps' = [swaps EXCEPT ![h] =
       [amount |-> amount, timelock |-> timelock, initiator |-> p,
        claimPrincipal |-> claimPrincipal, token |-> t]]
  /\ txSender' = p
  /\ UNCHANGED <<revealed, blockHeight>>

Knows(p, h) == h \in revealed \/ p = Maker[h]

(* The asserts of claimStx and claimToken; the preimage is an argument.    *)
\* faulty variant: anybody with the preimage may claim
MayClaimAnybody(p, h, amount, t) ==
  /\ Knows(p, h) /\ swaps[h] # NoSwap
  /\ amount = swaps[h].amount /\ t = swaps[h].token
MayClaim(p, h, amount, t) ==
  /\ Knows(p, h)
  /\ swaps[h] # NoSwap
  /\ p = swaps[h].claimPrincipal
  /\ amount = swaps[h].amount
  /\ t = swaps[h].token

(* claimStx, claimToken: no time limit.                                    *)
ClaimToken(p, h, amount, t) ==
  /\ MayClaim(p, h, amount, t)
  /\ CanTransfer(t, amount, Contract, p)
  /\ swaps' = [swaps EXCEPT ![h] = NoSwap]
  /\ funds' = Moved(funds, t, amount, Contract, p)
  /\ revealed' = revealed \union {h}
  /\ txSender' = p
  /\ UNCHANGED blockHeight

(* refundStx, refundToken: the amount is the entry's.                      *)
\* faulty variant: the refund leaves the entry
RefundKeepsEntry(p, h, t) ==
  /\ swaps[h] # NoSwap /\ t = swaps[h].token
  /\ blockHeight > swaps[h].timelock /\ p = swaps[h].initiator
  /\ CanTransfer(t, swaps[h].amount, Contract, p)
  /\ funds' = Moved(funds, t, swaps[h].amount, Contract, p)
  /\ txSender' = p
  /\ UNCHANGED <<swaps, revealed, blockHeight>>
\* faulty variant: the time lock is not checked
RefundAnytime(p, h, t) ==
  /\ swaps[h] # NoSwap /\ t = swaps[h].token /\ p = swaps[h].initiator
  /\ CanTransfer(t, swaps[h].amount, Contract, p)
  /\ swaps' = [swaps EXCEPT ![h] = NoSwap]
  /\ funds' = Moved(funds, t, swaps[h].amount, Contract, p)
  /\ txSender' = p
  /\ UNCHANGED <<revealed, blockHeight>>
RefundToken(p, h, t) ==
  /\ swaps[h] # NoSwap
  /\ blockHeight > swaps[h].timelock
  /\ p = swaps[h].initiator
  /\ t = swaps[h].token
  /\ CanTransfer(t, swaps[h].amount, Contract, p)
  /\ swaps' = [swaps EXCEPT ![h] = NoSwap]
  /\ funds' = Moved(funds, t, swaps[h].amount, Contract, p)
  /\ txSender' = p
  /\ UNCHANGED <<revealed, blockHeight>>

(* triggerTransferStx: the claim, then a transfer by the claimer of the    *)
(* same amount, in one transaction.                                        *)
TriggerTransfer(p, h, amount, t, receiver) ==
  /\ MayClaim(p, h, amount, t)
  /\ CanTransfer(t, amount, Contract, p)
  /\ receiver # p
  /\ swaps' = [swaps EXCEPT ![h] = NoSwap]
  /\ funds' = Moved(Moved(funds, t, amount, Contract, p), t, amount, p, receiver)
  /\ revealed' = revealed \union {h}
  /\ txSender' = p
  /\ UNCHANGED blockHeight

(* A trigger whose second call fails undoes the claim, and yet reveals the *)
(* preimage: the failed transaction is on the chain with its arguments.    *)
TriggerFails(p, h, amount, t) ==
  /\ MayClaim(p, h, amount, t)
  /\ revealed' = revealed \union {h}
  /\ txSender' = p
  /\ UNCHANGED <<swaps, funds, blockHeight>>

Tick ==
  /\ blockHeight < MaxClock + 1
  /\ blockHeight' = blockHeight + 1
  /\ UNCHANGED <<swaps, funds, revealed, txSender>>

ContractNext ==
  \/ Tick
  \/ \E p \in Users, h \in Hashes, amount \in 1..MaxAmount, t \in Tokens :
       \/ \E timelock \in 0..MaxClock, q \in Users : LockToken(p, h, amount, timelock, q, t)
       \/ ClaimToken(p, h, amount, t)
       \/ \E receiver \in Users : TriggerTransfer(p, h, amount, t, receiver)
       \/ TriggerFails(p, h, amount, t)
  \/ \E p \in Users, h \in Hashes, t \in Tokens : RefundToken(p, h, t)

ContractSpec == ContractInit /\ [][ContractNext]_contractVars

-----------------------------------------------------------------------------
ContractTypeOK ==
  /\ swaps \in [Hashes -> Entries \union {NoSwap}]
  /\ funds \in [Tokens -> [Users \union {Contract} -> Nat]]
  /\ revealed \subseteq Hashes
  /\ txSender \in Users \union {Contract}
  /\ blockHeight \in 0..(MaxClock + 1)

(* The amounts of the entries of a token.                                  *)
Promised(t) ==
  [h \in {h \in Hashes : swaps[h] # NoSwap /\ swaps[h].token = t} |-> swaps[h].amount]

(* The contract always holds exactly what its entries promise, token by    *)
(* token: no call pays out an entry twice, or from the coins of another.   *)
Solvent == \A t \in Tokens : funds[t][Contract] = Total(Promised(t))

(* Coins leave the contract only for an entry that goes with them: to its  *)
(* claimer, or to whom he passes them on, or to its initiator after the    *)
(* time lock, and in full.                                                 *)
Settles(h, t) ==
  /\ swaps[h] # NoSwap /\ swaps'[h] = NoSwap
  /\ swaps[h].token = t
  /\ funds'[t][Contract] + swaps[h].amount = funds[t][Contract]
  /\ \/ txSender' = swaps[h].claimPrincipal /\ Knows(txSender', h)
     \/ txSender' = swaps[h].initiator /\ blockHeight > swaps[h].timelock

PaysOutEntries ==
  [][\A t \in Tokens : funds'[t][Contract] < funds[t][Contract]
       => \E h \in Hashes : Settles(h, t)]_contractVars

(* The contracts implement the promise of a hash time lock.                *)
Promise == INSTANCE Htlc WITH
  Terms <- Entries, Nothing <- NoSwap, offer <- swaps, caller <- txSender,
  knows <- [h \in Hashes |-> {p \in Users : Knows(p, h)}], clock <- blockHeight

KeepsHashLock == Promise!HtlcSpec
=============================================================================
