------------------------------- MODULE Rewards -------------------------------
(***************************************************************************)
(* The trustless-rewards contract: lobbies that anybody creates and joins  *)
(* for a price, results the owner publishes, and payouts he triggers.  All *)
(* lobbies share the contract's one balance; the balance column of a lobby *)
(* counts what was paid in.  A call that fails changes nothing: an action  *)
(* is a call that succeeds.  Scores, ranks and token transfers of the      *)
(* owner are left out.                                                     *)
(***************************************************************************)
EXTENDS Naturals, FiniteSets, Sums

CONSTANTS
  Players,       \* principals that create and join lobbies
  Prices,        \* bound: entry prices
  MaxLobbies,    \* bound: lobbies
  Purse,         \* bound: what a player owns at first
  MaxPaid        \* bound: what the owner pays out in all

ASSUME RewardsAssumption ==
  /\ Prices \subseteq Nat /\ MaxLobbies \in Nat /\ Purse \in Nat /\ MaxPaid \in Nat

VARIABLES
  lobbies,       \* [1..lobby-count -> price, balance, active]
  scoreboard,    \* <<lobby, player>> on the scoreboard, with the rewards paid (rac)
  purse,         \* what each player owns
  pot,           \* what the contract owns
  paidOut        \* history: what has left the contract

rewardsVars == <<lobbies, scoreboard, purse, pot, paidOut>>

Lobbies == DOMAIN lobbies
Joined(id) == {p \in Players : \E e \in scoreboard : e.lobby = id /\ e.player = p}

RewardsInit ==
  /\ lobbies = << >> /\ scoreboard = {}
  /\ purse = [p \in Players |-> Purse]
  /\ pot = 0 /\ paidOut = 0

-----------------------------------------------------------------------------
(* add-balance panics when the player cannot pay, or has to pay nothing;   *)
(* map-insert in join refuses a second entry.                              *)
\* faulty variant: the entry on the scoreboard is written with map-set
MayJoinTwice(p, table, id) ==
  /\ id \in DOMAIN table /\ table[id].active
  /\ table[id].price > 0 /\ purse[p] >= table[id].price
MayJoin(p, table, id) ==
  /\ id \in DOMAIN table /\ table[id].active
  /\ p \notin Joined(id)
  /\ table[id].price > 0 /\ purse[p] >= table[id].price

JoinTable(p, table, id) ==
  /\ MayJoin(p, table, id)
  /\ scoreboard' = scoreboard \union {[lobby |-> id, player |-> p, rac |-> 0]}
  /\ purse' = [purse EXCEPT ![p] = @ - table[id].price]
  /\ pot' = pot + table[id].price
  /\ lobbies' = [table EXCEPT ![id].balance = @ + table[id].price]
  /\ UNCHANGED paidOut

(* create-lobby joins its creator, or fails with it.                       *)
CreateLobby(p, price) ==
  /\ Cardinality(Lobbies) < MaxLobbies
  /\ LET id == Cardinality(Lobbies) + 1
         table == [i \in Lobbies \union {id} |-> IF i \in Lobbies THEN lobbies[i]
                     ELSE [price |-> price, balance |-> 0, active |-> TRUE]]
     IN JoinTable(p, table, id)

JoinLobby(p, id) == JoinTable(p, lobbies, id)

(* Only the owner calls the rest.                                          *)
DisableLobby(id) ==
  /\ id \in Lobbies
  /\ lobbies' = [lobbies EXCEPT ![id].active = FALSE]
  /\ UNCHANGED <<scoreboard, purse, pot, paidOut>>

PublishResult(e, rac) ==
  /\ lobbies[e.lobby].active
  /\ scoreboard' = (scoreboard \ {e}) \union {[e EXCEPT !.rac = rac]}
  /\ UNCHANGED <<lobbies, purse, pot, paidOut>>

(* finish-result-many: all results of the list or none, paid from the pot  *)
(* whatever the lobby has; the balance of the lobby stays.                 *)
FinishResults(entries, rac) ==
  LET total == Total(rac) IN
  /\ \A e \in entries : lobbies[e.lobby].active /\ rac[e] > 0
  /\ pot >= total /\ paidOut + total <= MaxPaid
  /\ scoreboard' = (scoreboard \ entries) \union {[e EXCEPT !.rac = rac[e]] : e \in entries}
  /\ purse' = [p \in Players |->
       purse[p] + Total([e \in {e \in entries : e.player = p} |-> rac[e]])]
  /\ pot' = pot - total /\ paidOut' = paidOut + total
  /\ UNCHANGED lobbies

(* transfer-stx: the owner sends coins of the pot to anybody.              *)
TransferStx(p, amount) ==
  /\ amount > 0 /\ pot >= amount /\ paidOut + amount <= MaxPaid
  /\ purse' = [purse EXCEPT ![p] = @ + amount]
  /\ pot' = pot - amount /\ paidOut' = paidOut + amount
  /\ UNCHANGED <<lobbies, scoreboard>>

RewardsNext ==
  \/ \E p \in Players, price \in Prices : CreateLobby(p, price)
  \/ \E p \in Players, id \in Lobbies : JoinLobby(p, id)
  \/ \E id \in Lobbies : DisableLobby(id)
  \/ \E e \in scoreboard, rac \in 1..MaxPaid : PublishResult(e, rac)
  \/ \E entries \in (SUBSET scoreboard) \ {{}} :
       \E rac \in [entries -> 1..MaxPaid] : FinishResults(entries, rac)
  \/ \E p \in Players, amount \in 1..MaxPaid : TransferStx(p, amount)

RewardsSpec == RewardsInit /\ [][RewardsNext]_rewardsVars

-----------------------------------------------------------------------------
RewardsTypeOK ==
  /\ \A id \in Lobbies : lobbies[id] \in [price : Prices, balance : Nat, active : BOOLEAN]
  /\ scoreboard \subseteq [lobby : Lobbies, player : Players, rac : 0..MaxPaid]
  /\ purse \in [Players -> Nat] /\ pot \in Nat /\ paidOut \in 0..MaxPaid

(* Nobody pays for a lobby twice and nobody is in one for free: what was   *)
(* paid in is one price for each player, and what is not paid out is there.*)
EntriesPaidFor ==
  /\ \A id \in Lobbies : lobbies[id].balance = lobbies[id].price * Cardinality(Joined(id))
  /\ pot + paidOut = Total([id \in Lobbies |-> lobbies[id].balance])
=============================================================================
