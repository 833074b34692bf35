---------------------------- MODULE Parts_proofs -----------------------------
(***************************************************************************)
(* Theorems about the parts that have no proofs of their own: the          *)
(* trustless rewards and the client of a Bitcoin-like chain; and what they *)
(* and the other parts give for the parts side by side.                    *)
(***************************************************************************)
EXTENDS MCParts, SwapContract_proofs, ChannelCreation_proofs, AtomicSwap_proofs,
        SequenceTheorems

-----------------------------------------------------------------------------
(* Rewards: types and what was paid in *)

LobbyRecords == [price : Prices, balance : Nat, active : BOOLEAN]
Balances == [id \in Lobbies |-> lobbies[id].balance]

(* EntriesPaidFor, with the players of each lobby and the coins finite;    *)
(* lobbies are numbered from one, so that a new one has a new number, and  *)
(* the scoreboard has nobody in a lobby that does not exist.               *)
RewardsInv ==
  /\ RewardsTypeOK
  /\ EntriesPaidFor
  /\ \E n \in Nat : Lobbies = 1..n
  /\ IsFiniteSet(scoreboard)
  /\ \A id \in Lobbies : IsFiniteSet(Joined(id))
  /\ IsFiniteSet(CoinsOf(Balances))

(* A sum of finitely many bounded amounts is a number.                     *)
LEMMA BoundedTotal ==
  ASSUME NEW f, IsFiniteSet(DOMAIN f), \A x \in DOMAIN f : f[x] \in 0..MaxPaid
  PROVE  Total(f) \in Nat
  <1>1. IsFiniteSet(1..MaxPaid)
    BY RewardsAssumption, FS_Interval
  <1>2. IsFiniteSet((DOMAIN f) \X (1..MaxPaid))
    BY <1>1, FS_Product
  <1>3. CoinsOf(f) \subseteq (DOMAIN f) \X (1..MaxPaid)
    BY RewardsAssumption DEF CoinsOf
  <1>4. IsFiniteSet(CoinsOf(f))
    BY <1>2, <1>3, FS_Subset
  <1>. QED  BY <1>4, FS_CardinalityType DEF Total

LEMMA InitRewards == RewardsInit => RewardsInv
  <1>. SUFFICES ASSUME RewardsInit PROVE RewardsInv
    OBVIOUS
  <1>1. Lobbies = {} /\ Lobbies = 1..0
    BY DEF RewardsInit, Lobbies
  <1>2. RewardsTypeOK
    BY <1>1, RewardsAssumption DEF RewardsInit, RewardsTypeOK, Lobbies
  <1>3. DOMAIN Balances = {}
    BY <1>1 DEF Balances
  <1>4. IsFiniteSet(CoinsOf(Balances)) /\ Total(Balances) = 0
    BY <1>3, TotalOfNothing
  <1>5. EntriesPaidFor
    BY <1>1, <1>4 DEF RewardsInit, EntriesPaidFor, Balances
  <1>6. IsFiniteSet(scoreboard)
    BY FS_EmptySet DEF RewardsInit
  <1>. QED  BY <1>1, <1>2, <1>4, <1>5, <1>6 DEF RewardsInv

(* Joining a lobby, an old one or the one that is being created.           *)
LEMMA StepJoin ==
  ASSUME RewardsInv, NEW p \in Players, NEW table, NEW id, NEW n \in Nat,
         DOMAIN table = 1..n, DOMAIN table = Lobbies \union {id},
         \A i \in DOMAIN table : table[i] \in LobbyRecords,
         \A i \in Lobbies : table[i] = lobbies[i],
         id \notin Lobbies => table[id].balance = 0,
         JoinTable(p, table, id)
  PROVE  RewardsInv'
  <1>. DEFINE price == table[id].price
              m == table[id].balance
              entry == [lobby |-> id, player |-> p, rac |-> 0]
              k == Cardinality(Joined(id))
  <1>1. /\ price \in Nat /\ price \in Prices /\ m \in Nat /\ id \in DOMAIN table
        /\ p \notin Joined(id) /\ purse[p] >= price /\ purse \in [Players -> Nat]
        /\ pot \in Nat /\ paidOut \in 0..MaxPaid
    BY RewardsAssumption DEF JoinTable, MayJoin, LobbyRecords, RewardsInv, RewardsTypeOK
  <1>2. /\ lobbies' = [table EXCEPT ![id].balance = m + price]
        /\ scoreboard' = scoreboard \union {entry} /\ pot' = pot + price /\ paidOut' = paidOut
        /\ purse' = [purse EXCEPT ![p] = purse[p] - price]
    BY DEF JoinTable
  <1>3. Lobbies' = DOMAIN table /\ Lobbies' = 1..n
    BY <1>2 DEF Lobbies
  <1>4. /\ lobbies'[id] = [table[id] EXCEPT !.balance = m + price]
        /\ \A i \in DOMAIN table : i # id => lobbies'[i] = table[i]
    BY <1>1, <1>2
  <1>4a. /\ lobbies'[id].balance = m + price /\ lobbies'[id].price = price
         /\ lobbies'[id] \in LobbyRecords
    BY <1>1, <1>4, SMTT(30) DEF LobbyRecords
  <1>5. RewardsTypeOK'
    <2>1. \A i \in Lobbies' : lobbies'[i] \in LobbyRecords
      BY <1>3, <1>4, <1>4a
    <2>2. scoreboard \subseteq [lobby : Lobbies, player : Players, rac : 0..MaxPaid]
      BY DEF RewardsInv, RewardsTypeOK
    <2>3. entry \in [lobby : Lobbies', player : Players, rac : 0..MaxPaid]
      BY <1>1, <1>3, RewardsAssumption
    <2>4. scoreboard' \subseteq [lobby : Lobbies', player : Players, rac : 0..MaxPaid]
      <3>1. ASSUME NEW e \in scoreboard PROVE e \in [lobby : Lobbies', player : Players, rac : 0..MaxPaid]
        BY <1>3, <2>2, <3>1
      <3>. QED  BY <1>2, <2>3, <3>1
    <2>5. purse' \in [Players -> Nat] /\ pot' \in Nat /\ paidOut' \in 0..MaxPaid
      BY <1>1, <1>2, SMTT(30)
    <2>. QED  BY <2>1, <2>4, <2>5 DEF RewardsTypeOK, LobbyRecords
  <1>6. Joined(id)' = Joined(id) \union {p} /\ \A i \in Lobbies : i # id => Joined(i)' = Joined(i)
    <2>1. entry.lobby = id /\ entry.player = p
      OBVIOUS
    <2>. HIDE DEF entry
    <2>2. \A e : e \in scoreboard' <=> e \in scoreboard \/ e = entry
      BY <1>2
    <2>. QED  BY <2>1, <2>2 DEF Joined
  <1>7. IsFiniteSet(Joined(id))
    <2>1. CASE id \in Lobbies
      BY <2>1 DEF RewardsInv
    <2>2. CASE id \notin Lobbies
      <3>1. Joined(id) = {}
        BY <2>2 DEF RewardsInv, RewardsTypeOK, Joined
      <3>. QED  BY <3>1, FS_EmptySet
    <2>. QED  BY <2>1, <2>2
  <1>8. m = price * k /\ k \in Nat
    <2>1. CASE id \in Lobbies
      BY <1>7, <2>1, FS_CardinalityType DEF RewardsInv, EntriesPaidFor
    <2>2. CASE id \notin Lobbies
      <3>1. Joined(id) = {}
        BY <2>2 DEF RewardsInv, RewardsTypeOK, Joined
      <3>2. m = 0 /\ k = 0
        BY <2>2, <3>1, FS_EmptySet
      <3>. QED  BY <1>1, <3>2
    <2>. QED  BY <2>1, <2>2
  <1>9. IsFiniteSet(Joined(id)') /\ Cardinality(Joined(id)') = k + 1
    BY <1>1, <1>6, <1>7, FS_AddElement
  <1>10. IsFiniteSet(scoreboard')
    <2>1. IsFiniteSet(scoreboard)
      BY DEF RewardsInv
    <2>. HIDE DEF entry
    <2>. QED  BY <1>2, <2>1, FS_AddElement
  <1>11. /\ IsFiniteSet(CoinsOf(Balances')) /\ Total(Balances) \in Nat
         /\ Total(Balances') = Total(Balances) + price
    <2>1. DOMAIN Balances' = DOMAIN Balances \union {id} /\ Balances'[id] = m + price
      BY <1>1, <1>3, <1>4a DEF Balances
    <2>2. \A y \in DOMAIN Balances : y # id => Balances'[y] = Balances[y]
      BY <1>3, <1>4 DEF Balances
    <2>3. \/ id \in DOMAIN Balances /\ Balances[id] = m
          \/ id \notin DOMAIN Balances /\ m = 0
      BY DEF Balances
    <2>4. IsFiniteSet(CoinsOf(Balances))
      BY DEF RewardsInv
    <2>. DEFINE old == Balances
                new == Balances'
    <2>5. /\ DOMAIN new = DOMAIN old \union {id} /\ new[id] = m + price
          /\ \A y \in DOMAIN old : y # id => new[y] = old[y]
          /\ (id \in DOMAIN old /\ old[id] = m) \/ (id \notin DOMAIN old /\ m = 0)
          /\ IsFiniteSet(CoinsOf(old)) /\ m \in Nat /\ price \in Nat
      BY <1>1, <2>1, <2>2, <2>3, <2>4
    <2>. HIDE DEF m, price, old, new
    <2>6. /\ IsFiniteSet(CoinsOf(new)) /\ Total(old) \in Nat /\ Total(new) = Total(old) + price
      BY ONLY <2>5, TotalGrows, Z3
    <2>. QED  BY <2>6 DEF old, new, price
  <1>12. EntriesPaidFor'
    <2>1. pot' + paidOut' = Total(Balances')
      BY <1>1, <1>2, <1>11 DEF RewardsInv, EntriesPaidFor, Balances
    <2>2. (m + price) = price * (k + 1)
      <3>. HIDE DEF m, price, k
      <3>. QED  BY <1>1, <1>8
    <2>3. lobbies'[id].balance = lobbies'[id].price * Cardinality(Joined(id)')
      BY <1>4a, <1>9, <2>2
    <2>4. ASSUME NEW i \in Lobbies', i # id
          PROVE  lobbies'[i].balance = lobbies'[i].price * Cardinality(Joined(i)')
      <3>1. i \in Lobbies /\ lobbies'[i] = lobbies[i] /\ Joined(i)' = Joined(i)
        BY <1>3, <1>4, <1>6, <2>4
      <3>. QED  BY <3>1 DEF RewardsInv, EntriesPaidFor
    <2>. QED  BY <2>1, <2>3, <2>4 DEF EntriesPaidFor, Balances
  <1>13. \A i \in Lobbies' : IsFiniteSet(Joined(i)')
    BY <1>3, <1>6, <1>9 DEF RewardsInv
  <1>. QED  BY <1>3, <1>5, <1>10, <1>11, <1>12, <1>13 DEF RewardsInv

(* New results: the players stay who they are.                             *)
LEMMA StepResults ==
  ASSUME RewardsInv, NEW entries \in SUBSET scoreboard, NEW rac \in [entries -> 0..MaxPaid],
         scoreboard' = (scoreboard \ entries) \union {[e EXCEPT !.rac = rac[e]] : e \in entries},
         UNCHANGED lobbies
  PROVE  /\ IsFiniteSet(entries) /\ IsFiniteSet(scoreboard')
         /\ scoreboard' \subseteq [lobby : Lobbies, player : Players, rac : 0..MaxPaid]
         /\ \A id : Joined(id)' = Joined(id)
  <1>. DEFINE image == [e \in entries |-> [e EXCEPT !.rac = rac[e]]]
              rows == {image[e] : e \in entries}
              kept == scoreboard \ entries
  <1>1. scoreboard \subseteq [lobby : Lobbies, player : Players, rac : 0..MaxPaid]
    BY DEF RewardsInv, RewardsTypeOK
  <1>2. IsFiniteSet(entries) /\ IsFiniteSet(kept)
    BY FS_Subset DEF RewardsInv
  <1>3. image \in Surjection(entries, rows)
    BY DEF Surjection
  <1>4. scoreboard' = kept \union rows
    OBVIOUS
  <1>5. ASSUME NEW e \in entries
        PROVE  /\ image[e] \in [lobby : Lobbies, player : Players, rac : 0..MaxPaid]
               /\ image[e].lobby = e.lobby /\ image[e].player = e.player
    <2>1. e \in [lobby : Lobbies, player : Players, rac : 0..MaxPaid] /\ rac[e] \in 0..MaxPaid
      BY <1>1, <1>5
    <2>. QED  BY <2>1
  <1>6. IsFiniteSet(scoreboard')
    <2>1. IsFiniteSet(rows)
      <3>. HIDE DEF image, rows
      <3>. QED  BY <1>2, <1>3, FS_Surjection
    <2>. HIDE DEF rows, kept
    <2>2. IsFiniteSet(kept \union rows)
      BY <1>2, <2>1, FS_Union, Zenon
    <2>. QED  BY <1>4, <2>2
  <1>7. scoreboard' \subseteq [lobby : Lobbies, player : Players, rac : 0..MaxPaid]
    BY <1>1, <1>4, <1>5
  <1>8. ASSUME NEW id PROVE Joined(id)' = Joined(id)
    <2>1. ASSUME NEW q \in Players
          PROVE  (\E e \in scoreboard' : e.lobby = id /\ e.player = q)
                   <=> (\E e \in scoreboard : e.lobby = id /\ e.player = q)
      <3>1. ASSUME NEW e \in scoreboard, e.lobby = id, e.player = q
            PROVE  \E d \in scoreboard' : d.lobby = id /\ d.player = q
        <4>1. CASE e \in entries
          <5>1. image[e] \in scoreboard' /\ image[e].lobby = id /\ image[e].player = q
            BY <1>4, <1>5, <3>1, <4>1
          <5>. HIDE DEF image
          <5>. QED  BY <5>1
        <4>2. CASE e \notin entries
          BY <1>4, <3>1, <4>2
        <4>. QED  BY <4>1, <4>2
      <3>2. ASSUME NEW d \in scoreboard', d.lobby = id, d.player = q
            PROVE  \E e \in scoreboard : e.lobby = id /\ e.player = q
        BY <1>4, <1>5, <3>2
      <3>. QED  BY <3>1, <3>2
    <2>. QED  BY <2>1 DEF Joined
  <1>. QED  BY <1>2, <1>6, <1>7, <1>8

(* Whatever leaves the number of lobbies, their prices and balances, the   *)
(* players and the sum of the pot and of what was paid out as they are.    *)
LEMMA StepOther ==
  ASSUME RewardsInv, RewardsTypeOK', IsFiniteSet(scoreboard'),
         Lobbies' = Lobbies,
         \A id \in Lobbies : /\ lobbies'[id].price = lobbies[id].price
                             /\ lobbies'[id].balance = lobbies[id].balance
                             /\ Joined(id)' = Joined(id),
         pot' + paidOut' = pot + paidOut
  PROVE  RewardsInv'
  <1>1. Balances' = Balances
    BY DEF Balances
  <1>2. pot' + paidOut' = Total(Balances')
    BY <1>1 DEF RewardsInv, EntriesPaidFor, Balances
  <1>3. \A id \in Lobbies' : lobbies'[id].balance = lobbies'[id].price * Cardinality(Joined(id)')
    BY DEF RewardsInv, EntriesPaidFor
  <1>4. EntriesPaidFor'
    BY <1>2, <1>3 DEF EntriesPaidFor, Balances
  <1>5. IsFiniteSet(CoinsOf(Balances'))
    BY <1>1 DEF RewardsInv
  <1>. QED  BY <1>4, <1>5 DEF RewardsInv

LEMMA StepRewards == RewardsInv /\ [RewardsNext]_rewardsVars => RewardsInv'
  <1>. SUFFICES ASSUME RewardsInv, [RewardsNext]_rewardsVars PROVE RewardsInv'
    OBVIOUS
  <1>0. /\ RewardsTypeOK /\ IsFiniteSet(scoreboard)
        /\ scoreboard \subseteq [lobby : Lobbies, player : Players, rac : 0..MaxPaid]
        /\ purse \in [Players -> Nat] /\ pot \in Nat /\ paidOut \in 0..MaxPaid /\ MaxPaid \in Nat
        /\ \A i \in Lobbies : lobbies[i] \in LobbyRecords
    BY RewardsAssumption DEF RewardsInv, RewardsTypeOK, LobbyRecords
  <1>n. PICK n \in Nat : Lobbies = 1..n
    BY DEF RewardsInv
  <1>1. CASE UNCHANGED rewardsVars
    BY <1>1 DEF rewardsVars, RewardsInv, RewardsTypeOK, EntriesPaidFor, Balances, Lobbies, Joined
  <1>2. ASSUME NEW p \in Players, NEW price \in Prices, CreateLobby(p, price) PROVE RewardsInv'
    <2>. DEFINE id == n + 1
                table == [i \in Lobbies \union {id} |-> IF i \in Lobbies THEN lobbies[i]
                            ELSE [price |-> price, balance |-> 0, active |-> TRUE]]
    <2>1. Cardinality(Lobbies) = n
      BY <1>n, FS_Interval
    <2>2. JoinTable(p, table, id)
      BY <1>2, <2>1 DEF CreateLobby
    <2>3. DOMAIN table = Lobbies \union {id} /\ DOMAIN table = 1..(n + 1) /\ id \notin Lobbies
      BY <1>n
    <2>4. /\ \A i \in DOMAIN table : table[i] \in LobbyRecords
          /\ \A i \in Lobbies : table[i] = lobbies[i]
          /\ table[id].balance = 0
      BY <1>0, <2>3 DEF LobbyRecords
    <2>5. n + 1 \in Nat
      BY <1>n
    <2>. HIDE DEF table, id
    <2>. QED  BY <1>2, <2>2, <2>3, <2>4, <2>5, StepJoin
  <1>3. ASSUME NEW p \in Players, NEW id \in Lobbies, JoinLobby(p, id) PROVE RewardsInv'
    <2>1. DOMAIN lobbies = 1..n /\ DOMAIN lobbies = Lobbies \union {id}
      BY <1>n, <1>3 DEF Lobbies
    <2>2. JoinTable(p, lobbies, id)
      BY <1>3 DEF JoinLobby
    <2>. QED  BY <1>0, <1>3, <2>1, <2>2, StepJoin
  <1>4. ASSUME NEW id \in Lobbies, DisableLobby(id) PROVE RewardsInv'
    <2>1. /\ lobbies' = [lobbies EXCEPT ![id].active = FALSE]
          /\ UNCHANGED <<scoreboard, purse, pot, paidOut>>
      BY <1>4 DEF DisableLobby
    <2>2. Lobbies' = Lobbies
      BY <2>1 DEF Lobbies
    <2>3. \A i \in Lobbies : /\ lobbies'[i].price = lobbies[i].price
                             /\ lobbies'[i].balance = lobbies[i].balance
                             /\ lobbies'[i] \in LobbyRecords
                             /\ Joined(i)' = Joined(i)
      BY <1>0, <2>1 DEF LobbyRecords, Lobbies, Joined
    <2>4. RewardsTypeOK'
      BY <1>0, <2>1, <2>2, <2>3 DEF RewardsTypeOK, LobbyRecords
    <2>. QED  BY <1>0, <2>1, <2>2, <2>3, <2>4, StepOther
  <1>5. ASSUME NEW entries \in SUBSET scoreboard, NEW rac \in [entries -> 0..MaxPaid],
               scoreboard' = (scoreboard \ entries) \union {[e EXCEPT !.rac = rac[e]] : e \in entries},
               UNCHANGED lobbies, purse' \in [Players -> Nat], pot' \in Nat,
               paidOut' \in 0..MaxPaid, pot' + paidOut' = pot + paidOut
        PROVE  RewardsInv'
    <2>1. /\ IsFiniteSet(scoreboard')
          /\ scoreboard' \subseteq [lobby : Lobbies, player : Players, rac : 0..MaxPaid]
          /\ \A id : Joined(id)' = Joined(id)
      BY <1>5, StepResults
    <2>2. Lobbies' = Lobbies /\ \A i \in Lobbies : lobbies'[i] = lobbies[i]
      BY <1>5 DEF Lobbies
    <2>3. RewardsTypeOK'
      BY <1>0, <1>5, <2>1, <2>2 DEF RewardsTypeOK, LobbyRecords
    <2>. QED  BY <1>5, <2>1, <2>2, <2>3, StepOther
  <1>6. ASSUME NEW e \in scoreboard, NEW amount \in 1..MaxPaid, PublishResult(e, amount)
        PROVE  RewardsInv'
    <2>. DEFINE rac == [d \in {e} |-> amount]
    <2>1. /\ scoreboard' = (scoreboard \ {e}) \union {[e EXCEPT !.rac = amount]}
          /\ UNCHANGED <<lobbies, purse, pot, paidOut>>
      BY <1>6 DEF PublishResult
    <2>2. rac \in [{e} -> 0..MaxPaid] /\ {e} \in SUBSET scoreboard
      BY <1>0, <1>6
    <2>3. {[d EXCEPT !.rac = rac[d]] : d \in {e}} = {[e EXCEPT !.rac = amount]}
      OBVIOUS
    <2>4. scoreboard' = (scoreboard \ {e}) \union {[d EXCEPT !.rac = rac[d]] : d \in {e}}
      BY <2>1, <2>3
    <2>. HIDE DEF rac
    <2>. QED  BY <1>0, <1>5, <2>1, <2>2, <2>4
  <1>7. ASSUME NEW entries \in SUBSET scoreboard, NEW rac \in [entries -> 1..MaxPaid],
               FinishResults(entries, rac)
        PROVE  RewardsInv'
    <2>. DEFINE total == Total(rac)
                share(p) == [e \in {e \in entries : e.player = p} |-> rac[e]]
    <2>1. rac \in [entries -> 0..MaxPaid] /\ IsFiniteSet(entries)
      BY <1>0, <1>7, FS_Subset
    <2>2. total \in Nat
      BY <2>1, BoundedTotal
    <2>3. ASSUME NEW p \in Players PROVE Total(share(p)) \in Nat
      <3>1. DOMAIN share(p) \subseteq entries /\ \A e \in DOMAIN share(p) : share(p)[e] \in 0..MaxPaid
        BY <2>1
      <3>2. IsFiniteSet(DOMAIN share(p))
        <4>. HIDE DEF share
        <4>. QED  BY <2>1, <3>1, FS_Subset
      <3>. HIDE DEF share
      <3>. QED  BY <3>1, <3>2, BoundedTotal
    <2>4. /\ pot >= total /\ paidOut + total <= MaxPaid
          /\ pot' = pot - total /\ paidOut' = paidOut + total
          /\ scoreboard' = (scoreboard \ entries) \union {[e EXCEPT !.rac = rac[e]] : e \in entries}
          /\ purse' = [p \in Players |-> purse[p] + Total(share(p))] /\ UNCHANGED lobbies
      BY <1>7 DEF FinishResults
    <2>. HIDE DEF total, share
    <2>5. pot' \in Nat /\ paidOut' \in 0..MaxPaid /\ pot' + paidOut' = pot + paidOut
      BY <1>0, <2>2, <2>4
    <2>6. purse' \in [Players -> Nat]
      BY <1>0, <2>3, <2>4
    <2>. QED  BY <1>5, <1>7, <2>1, <2>4, <2>5, <2>6
  <1>8. ASSUME NEW p \in Players, NEW amount \in 1..MaxPaid, TransferStx(p, amount)
        PROVE  RewardsInv'
    <2>1. /\ pot' \in Nat /\ paidOut' \in 0..MaxPaid /\ pot' + paidOut' = pot + paidOut
          /\ purse' \in [Players -> Nat] /\ UNCHANGED <<lobbies, scoreboard>>
      BY <1>0, <1>8 DEF TransferStx
    <2>2. /\ Lobbies' = Lobbies /\ \A i \in Lobbies : Joined(i)' = Joined(i)
          /\ IsFiniteSet(scoreboard') /\ \A i \in Lobbies : lobbies'[i] = lobbies[i]
      BY <1>0, <2>1 DEF Lobbies, Joined
    <2>3. RewardsTypeOK'
      BY <1>0, <2>1, <2>2 DEF RewardsTypeOK, LobbyRecords
    <2>. QED  BY <2>1, <2>2, <2>3, StepOther
  <1>. QED  BY <1>1, <1>2, <1>3, <1>4, <1>6, <1>7, <1>8 DEF RewardsNext

LEMMA RewardsInductive == RewardsSpec => []RewardsInv
  BY InitRewards, StepRewards, PTL DEF RewardsSpec

THEOREM RewardsTypeCorrect == RewardsSpec => []RewardsTypeOK
  <1>1. RewardsInv => RewardsTypeOK
    BY DEF RewardsInv
  <1>. QED  BY <1>1, RewardsInductive, PTL

(* Every entry is paid for once, and the coins are where they belong.      *)
THEOREM EntriesArePaidFor == RewardsSpec => []EntriesPaidFor
  <1>1. RewardsInv => EntriesPaidFor
    BY DEF RewardsInv
  <1>. QED  BY <1>1, RewardsInductive, PTL

-----------------------------------------------------------------------------
(* The client of the chain: types and heights *)

(* The tree of blocks: a chain goes up to its block, and a child is one    *)
(* higher than its parent.                                                 *)
BlockRecords == [parent : Nat, height : Nat, chain : SUBSET Nat]
TreeInv ==
  /\ blocks \in Seq(BlockRecords)
  /\ \A b \in Blocks : /\ b \in Chain(b) /\ Chain(b) \subseteq Blocks
                       /\ \A c \in Chain(b) : Height(c) <= Height(b)
  /\ \A b \in Blocks \ {0} : Height(b) = Height(blocks[b].parent) + 1

(* Nothing is received before the client has subscribed; block 0 is never  *)
(* announced; and there is room for what is under way.                     *)
MailInv ==
  /\ txMail + queries.asked <= MaxMail
  /\ 0 \notin blockMail.sent \union blockMail.asked
  /\ ~Subscribed => /\ blockMail.sent = {} /\ blockMail.asked = {} /\ txMail = 0
                    /\ queries.asked = 0 /\ queries.answers = {}

(* The news of a confirmation that is on its way, or that the rescan will  *)
(* still find.                                                             *)
OnTheWay == txMail > 0 \/ queries.asked > 0 \/ TRUE \in queries.answers
InRescan(b) == rescanAt <= Height(b) /\ Height(b) <= client.height

(* Why a transaction in the node's chain that was not reported will be:    *)
(* where the client is in starting up says how.                            *)
Awaits(b) ==
  /\ client.at = "down" => dbTip <= Height(b)
  /\ client.at = "connect" => dbTip <= Height(b) /\ InRescan(b)
  /\ client.at = "rescan" => InRescan(b) \/ OnTheWay
  /\ client.at = "up" => OnTheWay
WillBeSeen ==
  "confirmed" \notin emitted.tx /\ ~trouble.missed =>
    \A b \in Chain(tip) \intersect mined : Awaits(b)

(* Types and heights, which are known only together: the height after a    *)
(* child of the best block is that of the child.                           *)
BaseInv ==
  /\ ZmqTypeOK /\ TreeInv /\ MailInv
  /\ emitted.from <= client.height /\ EveryHeightOnce

(* Blocks are known by number, and no block is higher than its number.     *)
LEMMA BlockFacts ==
  ASSUME ZmqTypeOK, TreeInv, NEW b \in Blocks
  PROVE  /\ b \in Nat /\ b <= MaxBlocks /\ Height(b) \in Nat /\ Height(b) <= b
         /\ b # 0 => /\ b \in DOMAIN blocks /\ blocks[b].parent \in Blocks /\ blocks[b].parent < b
                     /\ Height(b) = blocks[b].height /\ Height(b) >= 1
                     /\ Height(b) = Height(blocks[b].parent) + 1
  <1>1. Len(blocks) \in Nat /\ DOMAIN blocks = 1..Len(blocks) /\ b \in 0..Len(blocks)
    BY DEF TreeInv, Blocks
  <1>2. b \in Nat /\ b <= MaxBlocks
    BY <1>1, ZmqAssumption DEF ZmqTypeOK
  <1>3. CASE b = 0
    BY <1>2, <1>3 DEF Height
  <1>4. CASE b # 0
    <2>1. b \in DOMAIN blocks /\ blocks[b] \in [parent : 0..(b - 1), height : 1..b, chain : SUBSET (0..b)]
      BY <1>1, <1>4 DEF ZmqTypeOK
    <2>2. blocks[b].parent \in 0..(b - 1) /\ blocks[b].height \in 1..b
      BY <2>1
    <2>3. blocks[b].parent \in Blocks /\ blocks[b].parent < b
      BY <1>1, <1>2, <2>2 DEF Blocks
    <2>4. Height(b) = blocks[b].height /\ Height(b) = Height(blocks[b].parent) + 1
      BY <1>4 DEF Height, TreeInv
    <2>. QED  BY <1>2, <2>1, <2>2, <2>3, <2>4
  <1>. QED  BY <1>3, <1>4

LEMMA SameTree ==
  ASSUME TreeInv, UNCHANGED blocks
  PROVE  TreeInv' /\ Blocks' = Blocks /\ \A b : Height(b)' = Height(b) /\ Chain(b)' = Chain(b)
  BY DEF TreeInv, Blocks, Height, Chain

(* A new block changes no other.                                           *)
LEMMA GrownTree ==
  ASSUME ZmqTypeOK, TreeInv, NEW p \in Blocks, NEW n, n = Len(blocks) + 1,
         blocks' = Append(blocks, Child(p))
  PROVE  /\ n \in Nat /\ n \notin Blocks /\ Blocks' = Blocks \union {n} /\ Len(blocks') = n
         /\ \A b \in Blocks : Height(b)' = Height(b) /\ Chain(b)' = Chain(b)
         /\ Height(n)' = Height(p) + 1 /\ Chain(n)' = Chain(p) \union {n}
         /\ \A b \in DOMAIN blocks' :
              blocks'[b] \in [parent : 0..(b - 1), height : 1..b, chain : SUBSET (0..b)]
         /\ TreeInv'
  <1>1. /\ Len(blocks) \in Nat /\ DOMAIN blocks = 1..Len(blocks) /\ blocks \in Seq(BlockRecords)
        /\ n \in Nat /\ n # 0 /\ n \notin DOMAIN blocks
    BY DEF TreeInv
  <1>2. p \in Nat /\ p < n /\ Height(p) \in Nat /\ Height(p) <= p
    BY <1>1, BlockFacts DEF Blocks
  <1>3. Chain(p) \subseteq Blocks /\ p \in Chain(p) /\ \A c \in Chain(p) : Height(c) <= Height(p)
    BY DEF TreeInv
  <1>4. /\ Child(p).parent = p /\ Child(p).height = Height(p) + 1
        /\ Child(p).chain = Chain(p) \union {n}
    BY DEF Child
  <1>5. Chain(p) \union {n} \subseteq 0..n
    BY <1>1, <1>3 DEF Blocks
  <1>6. Child(p) \in BlockRecords
    BY <1>1, <1>2, <1>5 DEF Child, BlockRecords
  <1>7. /\ blocks' \in Seq(BlockRecords) /\ Len(blocks') = n /\ DOMAIN blocks' = 1..n
        /\ blocks'[n] = Child(p) /\ \A b \in DOMAIN blocks : blocks'[b] = blocks[b]
    BY <1>1, <1>6
  <1>8. Blocks' = Blocks \union {n} /\ n \notin Blocks
    BY <1>1, <1>7 DEF Blocks
  <1>9. Height(n)' = Height(p) + 1 /\ Chain(n)' = Chain(p) \union {n}
    BY <1>1, <1>4, <1>7 DEF Height, Chain
  <1>10. ASSUME NEW b \in Blocks PROVE Height(b)' = Height(b) /\ Chain(b)' = Chain(b)
    BY <1>1, <1>7, <1>10 DEF Blocks, Height, Chain
  <1>11. ASSUME NEW b \in DOMAIN blocks'
         PROVE  blocks'[b] \in [parent : 0..(b - 1), height : 1..b, chain : SUBSET (0..b)]
    <2>1. CASE b = n
      <3>1. p \in 0..(n - 1) /\ Height(p) + 1 \in 1..n
        BY <1>1, <1>2
      <3>. QED  BY <1>5, <1>7, <2>1, <3>1 DEF Child
    <2>2. CASE b # n
      <3>1. b \in DOMAIN blocks /\ blocks'[b] = blocks[b]
        BY <1>1, <1>7, <1>11, <2>2
      <3>. QED  BY <3>1 DEF ZmqTypeOK
    <2>. QED  BY <2>1, <2>2
  <1>12. ASSUME NEW b \in Blocks'
         PROVE  /\ b \in Chain(b)' /\ Chain(b)' \subseteq Blocks'
                /\ \A c \in Chain(b)' : Height(c)' <= Height(b)'
    <2>1. CASE b = n
      <3>1. \A c \in Chain(p) : Height(c)' <= Height(p) + 1
        <4>1. ASSUME NEW c \in Chain(p) PROVE Height(c)' <= Height(p) + 1
          <5>1. c \in Blocks /\ Height(c) <= Height(p) /\ Height(c)' = Height(c)
            BY <1>3, <1>10, <4>1
          <5>2. Height(c) \in Nat
            BY <5>1, BlockFacts
          <5>. QED  BY <1>2, <5>1, <5>2
        <4>. QED  BY <4>1
      <3>. QED  BY <1>2, <1>3, <1>8, <1>9, <2>1, <3>1
    <2>2. CASE b # n
      <3>1. b \in Blocks
        BY <1>8, <1>12, <2>2
      <3>2. b \in Chain(b) /\ Chain(b) \subseteq Blocks /\ \A c \in Chain(b) : Height(c) <= Height(b)
        BY <3>1 DEF TreeInv
      <3>. QED  BY <1>8, <1>10, <3>1, <3>2
    <2>. QED  BY <2>1, <2>2
  <1>13. ASSUME NEW b \in Blocks' \ {0} PROVE Height(b)' = (Height(blocks[b].parent))' + 1
    <2>1. CASE b = n
      BY <1>4, <1>7, <1>9, <1>10, <2>1
    <2>2. CASE b # n
      <3>1. b \in Blocks /\ b # 0
        BY <1>8, <1>13, <2>2
      <3>2. /\ blocks[b].parent \in Blocks /\ Height(b) = Height(blocks[b].parent) + 1
            /\ blocks'[b] = blocks[b]
        BY <1>7, <3>1, BlockFacts
      <3>. QED  BY <1>10, <3>1, <3>2
    <2>. QED  BY <2>1, <2>2
  <1>14. TreeInv'
    BY <1>7, <1>12, <1>13 DEF TreeInv
  <1>. QED  BY <1>1, <1>7, <1>8, <1>9, <1>10, <1>11, <1>14

LEMMA IsSeq ==
  ASSUME NEW S, NEW n \in Nat, NEW f \in [1..n -> S]
  PROVE  f \in Seq(S) /\ Len(f) = n
  <1>1. f \in UNION {[1..k -> S] : k \in Nat}
    OBVIOUS
  <1>2. f \in Seq(S)
    BY <1>1, SeqDef, Zenon
  <1>. QED  BY <1>2, LenProperties

(* The heights that are made up for follow the last one.                   *)
LEMMA HeightsFollow ==
  ASSUME NEW from \in Nat, NEW top \in Nat, NEW h \in Nat, from <= top, top <= h
  PROVE  [i \in 1..(top - from) |-> from + i] \o [i \in 1..(h - top) |-> top + i]
           = [i \in 1..(h - from) |-> from + i]
  <1>. DEFINE old == [i \in 1..(top - from) |-> from + i]
              new == [i \in 1..(h - top) |-> top + i]
  <1>1. top - from \in Nat /\ h - top \in Nat
    OBVIOUS
  <1>2. old \in [1..(top - from) -> Nat] /\ new \in [1..(h - top) -> Nat]
    BY <1>1
  <1>3. \A i \in 1..(top - from) : old[i] = from + i
    OBVIOUS
  <1>4. \A i \in 1..(h - top) : new[i] = top + i
    OBVIOUS
  <1>. HIDE DEF old, new
  <1>5. old \in Seq(Nat) /\ new \in Seq(Nat) /\ Len(old) = top - from /\ Len(new) = h - top
    BY <1>1, <1>2, IsSeq
  <1>6. /\ old \o new \in Seq(Nat) /\ Len(old \o new) = Len(old) + Len(new)
        /\ \A i \in 1..(Len(old) + Len(new)) :
             (old \o new)[i] = IF i <= Len(old) THEN old[i] ELSE new[i - Len(old)]
    BY <1>5, ConcatProperties
  <1>7. Len(old) + Len(new) = h - from
    BY <1>5
  <1>8. ASSUME NEW i \in 1..(h - from) PROVE (old \o new)[i] = from + i
    <2>1. (old \o new)[i] = IF i <= Len(old) THEN old[i] ELSE new[i - Len(old)]
      BY <1>6, <1>7, <1>8
    <2>2. CASE i <= top - from
      BY <1>3, <1>5, <2>1, <2>2
    <2>3. CASE i > top - from
      <3>1. i - (top - from) \in 1..(h - top)
        BY <1>1, <1>8, <2>3
      <3>. QED  BY <1>4, <1>5, <2>1, <2>3, <3>1
    <2>4. i <= top - from \/ i > top - from
      BY <1>1, <1>8
    <2>. QED  BY <2>2, <2>3, <2>4, Zenon
  <1>9. old \o new \in [1..(h - from) -> Nat]
    BY <1>6, <1>7, <1>8, LenProperties
  <1>10. old \o new = [i \in 1..(h - from) |-> from + i]
    BY <1>8, <1>9
  <1>. QED  BY <1>10 DEF old, new

Events == {"mempool", "confirmed"}
ClientRecords == [height : 0..MaxBlocks, best : Blocks, at : {"down", "connect", "rescan", "up"}]
EmittedRecords == [from : 0..MaxBlocks, heights : Seq(Nat), tx : SUBSET Events]
MailRecords == [sent : SUBSET Blocks, asked : SUBSET Blocks]
QueryRecords == [asked : 0..MaxMail, answers : SUBSET BOOLEAN]
TroubleRecords == [lost : 0..MaxLost, restarts : 0..MaxRestart, missed : BOOLEAN]

LEMMA InitBase == ZmqInit => BaseInv
  <1>. SUFFICES ASSUME ZmqInit PROVE BaseInv
    OBVIOUS
  <1>1. blocks = << >> /\ Len(blocks) = 0 /\ DOMAIN blocks = {} /\ Blocks = {0}
    BY DEF ZmqInit, Blocks
  <1>2. Chain(0) = {0} /\ Height(0) = 0
    BY DEF Chain, Height
  <1>3. TreeInv
    BY <1>1, <1>2 DEF TreeInv
  <1>4. emitted \in EmittedRecords
    BY ZmqAssumption, EmptySeq DEF ZmqInit, EmittedRecords
  <1>5. ZmqTypeOK
    <2>1. /\ 0 \in 0..MaxBlocks /\ 0 \in 0..MaxLost /\ 0 \in 0..MaxRestart /\ 0 \in 0..MaxMail
          /\ 1 \in 0..(MaxBlocks + 1) /\ 0 <= MaxBlocks
      BY ZmqAssumption DEF MaxMail
    <2>2. mined \subseteq Blocks /\ tip \in Blocks /\ client \in ClientRecords
      BY <1>1, <2>1 DEF ZmqInit, ClientRecords
    <2>3. /\ blockMail \in [sent : SUBSET Blocks, asked : SUBSET Blocks]
          /\ queries \in [asked : 0..MaxMail, answers : SUBSET BOOLEAN]
          /\ trouble \in [lost : 0..MaxLost, restarts : 0..MaxRestart, missed : BOOLEAN]
      BY <2>1 DEF ZmqInit
    <2>4. txMail \in 0..MaxMail /\ utxo \in BOOLEAN /\ dbTip \in 0..MaxBlocks
          /\ rescanAt \in 0..(MaxBlocks + 1)
      BY <2>1 DEF ZmqInit
    <2>. QED  BY <1>1, <1>4, <2>1, <2>2, <2>3, <2>4 DEF ZmqTypeOK, ClientRecords, EmittedRecords, Events
  <1>6. MailInv
    BY DEF ZmqInit, MailInv, Subscribed, MaxMail
  <1>7. EveryHeightOnce /\ emitted.from <= client.height
    BY <1>2 DEF ZmqInit, EveryHeightOnce
  <1>. QED  BY <1>3, <1>5, <1>6, <1>7 DEF BaseInv

(* A higher block becomes the best one.                                    *)
LEMMA NewTipKeeps ==
  ASSUME BaseInv, NEW b \in Blocks, client.height < Height(b), NewTip(Height(b), b),
         UNCHANGED <<Node, txMail, queries, utxo, rescanAt, trouble>>,
         blockMail' \in MailRecords, MailInv'
  PROVE  BaseInv' /\ emitted'.tx = emitted.tx /\ client'.at = client.at
         /\ client'.height = Height(b) /\ dbTip' = Height(b)
  <1>1. /\ TreeInv /\ ZmqTypeOK /\ client \in ClientRecords /\ emitted \in EmittedRecords
        /\ emitted.from <= client.height /\ emitted.from \in Nat /\ client.height \in Nat
    BY DEF BaseInv, ZmqTypeOK, ClientRecords, EmittedRecords, Events
  <1>2. TreeInv' /\ Blocks' = Blocks /\ \A c : Height(c)' = Height(c)
    BY <1>1, SameTree DEF Node
  <1>3. Height(b) \in Nat /\ Height(b) <= MaxBlocks /\ Height(b) \in 0..MaxBlocks
    BY <1>1, BlockFacts, ZmqAssumption
  <1>4. /\ client' = [client EXCEPT !.height = Height(b), !.best = b] /\ dbTip' = Height(b)
        /\ emitted' = [emitted EXCEPT !.heights = emitted.heights \o HeightsTo(Height(b))]
    BY DEF NewTip
  <1>5. /\ client' \in ClientRecords /\ client'.height = Height(b) /\ client'.best = b
        /\ client'.at = client.at
    BY <1>1, <1>3, <1>4 DEF ClientRecords
  <1>6. /\ emitted'.from = emitted.from /\ emitted'.tx = emitted.tx
        /\ emitted'.heights = emitted.heights \o HeightsTo(Height(b))
        /\ emitted' = [from |-> emitted.from, heights |-> emitted'.heights, tx |-> emitted.tx]
    BY <1>1, <1>4 DEF EmittedRecords
  <1>7. emitted'.heights = [i \in 1..(Height(b) - emitted.from) |-> emitted.from + i]
    <2>. DEFINE from == emitted.from
                top == client.height
                h == Height(b)
    <2>1. emitted.heights = [i \in 1..(top - from) |-> from + i]
      BY DEF BaseInv, EveryHeightOnce
    <2>2. HeightsTo(h) = [i \in 1..(h - top) |-> top + i]
      BY DEF HeightsTo
    <2>3. from \in Nat /\ top \in Nat /\ h \in Nat /\ from <= top /\ top <= h
      BY <1>1, <1>3
    <2>4. emitted'.heights = emitted.heights \o HeightsTo(h)
      BY <1>6
    <2>. HIDE DEF from, top, h
    <2>5. [i \in 1..(top - from) |-> from + i] \o [i \in 1..(h - top) |-> top + i]
            = [i \in 1..(h - from) |-> from + i]
      BY <2>3, HeightsFollow
    <2>6. emitted'.heights = [i \in 1..(h - from) |-> from + i]
      BY <2>1, <2>2, <2>4, <2>5, Zenon
    <2>. QED  BY <2>6 DEF from, h
  <1>8. emitted'.heights \in Seq(Nat)
    <2>1. Height(b) - emitted.from \in Nat
      BY <1>1, <1>3
    <2>2. emitted'.heights \in [1..(Height(b) - emitted.from) -> Nat]
      BY <1>1, <1>7
    <2>. QED  BY <2>1, <2>2, IsSeq
  <1>9. emitted' \in EmittedRecords
    BY <1>1, <1>6, <1>8 DEF EmittedRecords
  <1>10. ZmqTypeOK'
    BY <1>1, <1>2, <1>3, <1>4, <1>5, <1>9
       DEF ZmqTypeOK, Node, ClientRecords, EmittedRecords, Events, MailRecords
  <1>11. EveryHeightOnce' /\ emitted'.from <= client'.height
    BY <1>1, <1>2, <1>3, <1>5, <1>6, <1>7 DEF EveryHeightOnce
  <1>. QED  BY <1>2, <1>4, <1>5, <1>6, <1>10, <1>11 DEF BaseInv

LEMMA HeightsStay ==
  ASSUME BaseInv, UNCHANGED Node, ZmqTypeOK', MailInv',
         client'.height = client.height, client'.best = client.best,
         emitted'.from = emitted.from, emitted'.heights = emitted.heights
  PROVE  BaseInv'
  <1>1. TreeInv' /\ \A b : Height(b)' = Height(b)
    BY SameTree DEF BaseInv, Node
  <1>. QED  BY <1>1 DEF BaseInv, EveryHeightOnce

(* What the types give in every state, field by field.                     *)
LEMMA ZmqFields ==
  ASSUME ZmqTypeOK
  PROVE  /\ client \in ClientRecords /\ emitted \in EmittedRecords /\ blockMail \in MailRecords
         /\ queries \in QueryRecords /\ trouble \in TroubleRecords
         /\ client.height \in 0..MaxBlocks /\ client.best \in Blocks
         /\ client.at \in {"down", "connect", "rescan", "up"}
         /\ txMail \in Nat /\ txMail \in 0..MaxMail /\ utxo \in BOOLEAN /\ dbTip \in 0..MaxBlocks
         /\ queries.asked \in Nat /\ queries.asked \in 0..MaxMail /\ queries.answers \subseteq BOOLEAN
         /\ trouble.lost \in Nat /\ trouble.restarts \in Nat /\ rescanAt \in 0..(MaxBlocks + 1)
         /\ MaxMail \in Nat /\ MaxLost \in Nat /\ MaxRestart \in Nat /\ MaxBlocks \in Nat
  <1>1. /\ client \in ClientRecords /\ emitted \in EmittedRecords /\ blockMail \in MailRecords
        /\ queries \in QueryRecords /\ trouble \in TroubleRecords
        /\ txMail \in 0..MaxMail /\ utxo \in BOOLEAN /\ dbTip \in 0..MaxBlocks
        /\ rescanAt \in 0..(MaxBlocks + 1)
    BY DEF ZmqTypeOK, ClientRecords, EmittedRecords, Events, MailRecords, QueryRecords, TroubleRecords
  <1>2. MaxMail \in Nat /\ MaxLost \in Nat /\ MaxRestart \in Nat /\ MaxBlocks \in Nat
    BY ZmqAssumption DEF MaxMail
  <1>3. /\ client.height \in 0..MaxBlocks /\ client.best \in Blocks
        /\ client.at \in {"down", "connect", "rescan", "up"}
    BY <1>1 DEF ClientRecords
  <1>4. queries.asked \in 0..MaxMail /\ queries.answers \subseteq BOOLEAN
    BY <1>1 DEF QueryRecords
  <1>5. trouble.lost \in 0..MaxLost /\ trouble.restarts \in 0..MaxRestart
    BY <1>1 DEF TroubleRecords
  <1>. QED  BY <1>1, <1>2, <1>3, <1>4, <1>5

LEMMA TypesKept ==
  ASSUME BaseInv, UNCHANGED Node, client' \in ClientRecords, emitted' \in EmittedRecords,
         blockMail' \in MailRecords, queries' \in QueryRecords, trouble' \in TroubleRecords,
         txMail' \in 0..MaxMail, utxo' \in BOOLEAN, dbTip' \in 0..MaxBlocks,
         rescanAt' \in 0..(MaxBlocks + 1)
  PROVE  ZmqTypeOK'
  <1>1. /\ \A b \in DOMAIN blocks : blocks[b] \in [parent : 0..(b - 1), height : 1..b, chain : SUBSET (0..b)]
        /\ Len(blocks) <= MaxBlocks /\ mined \subseteq Blocks /\ tip \in Blocks
    BY DEF BaseInv, ZmqTypeOK
  <1>2. blocks' = blocks /\ mined' = mined /\ tip' = tip /\ Blocks' = Blocks
    BY DEF Node, Blocks
  <1>3. client' \in [height : 0..MaxBlocks, best : Blocks', at : {"down", "connect", "rescan", "up"}]
    BY <1>2 DEF ClientRecords
  <1>4. blockMail' \in [sent : SUBSET Blocks', asked : SUBSET Blocks']
    BY <1>2 DEF MailRecords
  <1>. QED  BY <1>1, <1>2, <1>3, <1>4
            DEF ZmqTypeOK, EmittedRecords, Events, QueryRecords, TroubleRecords

(* Something is lost, which matters when the transaction is in the chain.  *)
LEMMA LostMore ==
  ASSUME ZmqTypeOK, trouble.lost < MaxLost,
         trouble' = [trouble EXCEPT !.lost = @ + 1, !.missed = @ \/ InChain(tip)]
  PROVE  trouble' \in TroubleRecords /\ trouble'.missed = (trouble.missed \/ InChain(tip))
  <1>. DEFINE now == trouble.missed \/ InChain(tip)
  <1>1. now \in BOOLEAN
    BY ZmqFields DEF InChain, TroubleRecords
  <1>2. trouble.lost + 1 \in 0..MaxLost /\ trouble \in TroubleRecords
    BY ZmqFields
  <1>3. trouble' = [trouble EXCEPT !.lost = @ + 1, !.missed = now]
    OBVIOUS
  <1>. HIDE DEF now
  <1>4. trouble' \in TroubleRecords /\ trouble'.missed = now
    BY <1>1, <1>2, <1>3 DEF TroubleRecords
  <1>. QED  BY <1>4 DEF now

(* What the node announces reaches the client's queues when it listens.    *)
LEMMA AnnounceKeeps ==
  ASSUME BaseInv, NEW announced, announced \subseteq Blocks' \ {0}, NEW tx \in BOOLEAN,
         Announce(announced, tx), Room, Blocks \subseteq Blocks', TreeInv',
         \A b \in Blocks : Height(b)' = Height(b),
         \A b \in DOMAIN blocks' :
           blocks'[b] \in [parent : 0..(b - 1), height : 1..b, chain : SUBSET (0..b)],
         Len(blocks') <= MaxBlocks, mined' \subseteq Blocks', tip' \in Blocks'
  PROVE  BaseInv'
  <1>1. ZmqTypeOK /\ MailInv /\ TreeInv
    BY DEF BaseInv
  <1>2. /\ blockMail' \in [sent : SUBSET Blocks', asked : SUBSET Blocks']
        /\ 0 \notin blockMail'.sent \union blockMail'.asked
    BY <1>1 DEF Announce, MailInv, ZmqTypeOK
  <1>3. txMail' \in 0..MaxMail
    <2>1. txMail' = txMail \/ txMail' = txMail + 1
      BY DEF Announce
    <2>2. txMail + queries.asked < MaxMail
      BY DEF Room
    <2>. QED  BY <1>1, <2>1, <2>2, ZmqFields, SMTT(30)
  <1>4. trouble' \in TroubleRecords
    <2>. DEFINE now == trouble.missed \/ (tx /\ (client.at = "connect" \/
           (client.at = "down" /\ \E b \in Chain(tip)' \intersect mined' : Height(b)' < dbTip)))
    <2>1. trouble' = [trouble EXCEPT !.missed = now]
      BY DEF Announce
    <2>2. now \in BOOLEAN
      BY <1>1, ZmqFields
    <2>. HIDE DEF now
    <2>. QED  BY <1>1, <2>1, <2>2, ZmqFields DEF TroubleRecords
  <1>5. UNCHANGED <<client, queries, utxo, dbTip, rescanAt, emitted>>
    BY DEF Announce
  <1>6. client' \in [height : 0..MaxBlocks, best : Blocks', at : {"down", "connect", "rescan", "up"}]
    BY <1>1, <1>5 DEF ZmqTypeOK
  <1>7. ZmqTypeOK'
    BY <1>1, <1>2, <1>3, <1>4, <1>5, <1>6 DEF ZmqTypeOK, TroubleRecords
  <1>8. MailInv'
    <2>1. txMail' <= txMail + 1
      BY <1>1, ZmqFields, SMTT(30) DEF Announce
    <2>2. txMail' + queries'.asked <= MaxMail
      BY <1>1, <1>3, <1>5, <2>1, ZmqFields, SMTT(30) DEF Room
    <2>3. ~Subscribed => UNCHANGED <<blockMail, txMail>>
      BY DEF Announce
    <2>4. Subscribed' = Subscribed
      BY <1>5 DEF Subscribed
    <2>5. ASSUME ~Subscribed
          PROVE  /\ blockMail'.sent = {} /\ blockMail'.asked = {} /\ txMail' = 0
                 /\ queries'.asked = 0 /\ queries'.answers = {}
      BY <1>1, <1>5, <2>3, <2>5 DEF MailInv
    <2>. QED  BY ONLY <1>2, <2>2, <2>4, <2>5 DEF MailInv
  <1>9. EveryHeightOnce' /\ emitted'.from <= client'.height
    BY <1>1, <1>5, ZmqFields DEF BaseInv, EveryHeightOnce
  <1>. QED  BY <1>7, <1>8, <1>9 DEF BaseInv

LEMMA MineKeeps ==
  ASSUME BaseInv, NEW p \in Blocks, NEW withTx \in BOOLEAN, MineBlock(p, withTx)
  PROVE  BaseInv'
  <1>. DEFINE b == Len(blocks) + 1
              best == IF Height(p) + 1 > Height(tip) THEN b ELSE tip
              mined1 == IF withTx THEN mined \union {b} ELSE mined
              moves == best = b /\ ((Chain(p) \union {b}) \intersect mined1)
                                      # (Chain(tip) \intersect mined)
  <1>1. ZmqTypeOK /\ TreeInv /\ tip \in Blocks /\ mined \subseteq Blocks
    BY DEF BaseInv, ZmqTypeOK
  <1>2. /\ b <= MaxBlocks /\ Room /\ blocks' = Append(blocks, Child(p)) /\ mined' = mined1
        /\ tip' = best /\ Announce({best} \ {tip}, moves)
    BY DEF MineBlock
  <1>3. moves \in BOOLEAN /\ b = Len(blocks) + 1
    OBVIOUS
  <1>. HIDE DEF moves
  <1>4. /\ b \in Nat /\ b \notin Blocks /\ Blocks' = Blocks \union {b} /\ Len(blocks') = b
        /\ \A c \in Blocks : Height(c)' = Height(c)
        /\ \A c \in DOMAIN blocks' :
              blocks'[c] \in [parent : 0..(c - 1), height : 1..c, chain : SUBSET (0..c)]
        /\ TreeInv'
    BY <1>1, <1>2, <1>3, GrownTree
  <1>5. 0 \in Blocks
    BY <1>1 DEF Blocks, TreeInv
  <1>6. {best} \ {tip} \subseteq Blocks' \ {0} /\ mined' \subseteq Blocks' /\ tip' \in Blocks'
    BY <1>1, <1>2, <1>4, <1>5
  <1>. HIDE DEF b, best, mined1
  <1>. QED  BY <1>1, <1>2, <1>3, <1>4, <1>6, AnnounceKeeps

(* The client's own steps.                                                 *)
LEMMA StepBase == BaseInv /\ [ZmqNext]_zmqVars => BaseInv'
  <1>. SUFFICES ASSUME BaseInv, [ZmqNext]_zmqVars PROVE BaseInv'
    OBVIOUS
  <1>0. ZmqTypeOK /\ MailInv /\ TreeInv /\ emitted.from <= client.height
    BY DEF BaseInv
  <1>b. UNCHANGED blocks => Blocks' = Blocks
    BY DEF Blocks
  <1>1. CASE UNCHANGED zmqVars
    <2>1. ZmqTypeOK' /\ MailInv'
      BY <1>0, <1>1, <1>b DEF zmqVars, ZmqTypeOK, MailInv, Subscribed
    <2>. QED  BY <1>1, <2>1, HeightsStay DEF zmqVars, Node
  <1>2. CASE Broadcast
    <2>1. /\ Room /\ UNCHANGED Node /\ Announce({}, TRUE) /\ Blocks' = Blocks
          /\ \A b : Height(b)' = Height(b)
      BY <1>0, <1>2, <1>b, SameTree DEF Broadcast, Node
    <2>2. /\ \A b \in DOMAIN blocks' :
                blocks'[b] \in [parent : 0..(b - 1), height : 1..b, chain : SUBSET (0..b)]
          /\ Len(blocks') <= MaxBlocks /\ mined' \subseteq Blocks' /\ tip' \in Blocks'
      BY <1>0, <2>1 DEF Node, ZmqTypeOK
    <2>3. TreeInv'
      BY <1>0, <2>1, SameTree DEF Node
    <2>. QED  BY <2>1, <2>2, <2>3, AnnounceKeeps
  <1>3. CASE \E p \in Blocks, withTx \in BOOLEAN : MineBlock(p, withTx)
    BY <1>3, MineKeeps
  <1>4. ASSUME NEW b \in Blocks, DropBlock(b) PROVE BaseInv'
    <2>0. /\ trouble' = [trouble EXCEPT !.lost = @ + 1] /\ trouble.lost < MaxLost
          /\ blockMail' = [blockMail EXCEPT !.sent = @ \ {b}]
          /\ UNCHANGED <<Node, client, txMail, queries, utxo, dbTip, rescanAt, emitted>>
      BY <1>4 DEF DropBlock
    <2>01. trouble' \in TroubleRecords
      BY <1>0, <2>0, ZmqFields DEF TroubleRecords
    <2>02. blockMail' \in MailRecords
      BY <1>0, <2>0, ZmqFields DEF MailRecords
    <2>1. ZmqTypeOK'
      BY <1>0, <2>0, <2>01, <2>02, ZmqFields, TypesKept
    <2>2. MailInv'
      BY <1>0, <1>4, ZmqFields DEF DropBlock, MailInv, Subscribed
    <2>. QED  BY <1>4, <2>1, <2>2, HeightsStay DEF DropBlock
  <1>5. CASE DropTx
    <2>0. /\ trouble' = [trouble EXCEPT !.lost = @ + 1, !.missed = @ \/ InChain(tip)]
          /\ trouble.lost < MaxLost /\ txMail > 0 /\ txMail' = txMail - 1
          /\ UNCHANGED <<Node, client, blockMail, queries, utxo, dbTip, rescanAt, emitted>>
      BY <1>5 DEF DropTx
    <2>01. trouble' \in TroubleRecords
      BY <1>0, <2>0, LostMore
    <2>02. txMail' \in 0..MaxMail
      BY <1>0, <2>0, ZmqFields
    <2>1. ZmqTypeOK'
      BY <1>0, <2>0, <2>01, <2>02, ZmqFields, TypesKept
    <2>2. MailInv'
      BY <1>0, <1>5, ZmqFields DEF DropTx, MailInv, Subscribed
    <2>. QED  BY <1>5, <2>1, <2>2, HeightsStay DEF DropTx
  <1>6. ASSUME NEW b \in Blocks, ReceiveBlock(b) PROVE BaseInv'
    <2>1. b \in blockMail.sent /\ b # 0 /\ client.at \in {"rescan", "up"}
      BY <1>0, <1>6, ZmqFields DEF ReceiveBlock, MailInv, Subscribed, ClientRecords
    <2>2. UNCHANGED <<Node, txMail, queries, utxo, rescanAt, trouble>>
      BY <1>6 DEF ReceiveBlock
    <2>3. CASE blocks[b].parent = client.best
      <3>1. NewTip(client.height + 1, b) /\ blockMail' = [blockMail EXCEPT !.sent = @ \ {b}]
        BY <1>6, <2>3 DEF ReceiveBlock
      <3>2. client.height + 1 = Height(b) /\ client.height < Height(b)
        BY <1>0, <2>1, <2>3, BlockFacts, ZmqFields DEF BaseInv, EveryHeightOnce
      <3>3. NewTip(Height(b), b)
        BY <3>1, <3>2
      <3>4. blockMail' \in MailRecords
        BY <1>0, <3>1, ZmqFields DEF MailRecords
      <3>5. client'.at = client.at
        BY <1>0, <3>3, ZmqFields DEF NewTip, ClientRecords
      <3>6. MailInv'
        <4>1. blockMail'.sent = blockMail.sent \ {b} /\ blockMail'.asked = blockMail.asked
          BY <1>0, <3>1, ZmqFields DEF MailRecords
        <4>. QED  BY <1>0, <2>1, <2>2, <3>5, <4>1 DEF MailInv, Subscribed
      <3>. QED  BY <1>6, <2>2, <3>2, <3>3, <3>4, <3>6, NewTipKeeps
    <2>4. CASE blocks[b].parent # client.best
      <3>1. /\ blockMail' = [sent |-> blockMail.sent \ {b}, asked |-> blockMail.asked \union {b}]
            /\ UNCHANGED <<emitted, client, dbTip>>
        BY <1>6, <2>4 DEF ReceiveBlock
      <3>2. ZmqTypeOK'
        BY <1>0, <1>6, <1>b, <2>2, <3>1, ZmqFields DEF ZmqTypeOK, Node
      <3>3. MailInv'
        BY <1>0, <2>1, <2>2, <3>1 DEF MailInv, Subscribed
      <3>. QED  BY <2>2, <3>1, <3>2, <3>3, HeightsStay
    <2>. QED  BY <2>3, <2>4
  <1>7. ASSUME NEW b \in Blocks, AnswerBlock(b) PROVE BaseInv'
    <2>1. /\ blockMail' = [blockMail EXCEPT !.asked = @ \ {b}] /\ client.at \in {"rescan", "up"}
          /\ UNCHANGED <<Node, txMail, queries, utxo, rescanAt, trouble>>
      BY <1>0, <1>7, ZmqFields DEF AnswerBlock, MailInv, Subscribed, ClientRecords
    <2>2. blockMail' \in MailRecords
      BY <1>0, <2>1, ZmqFields DEF MailRecords
    <2>3. CASE Height(b) > client.height
      <3>1. NewTip(Height(b), b)
        BY <1>7, <2>3 DEF AnswerBlock
      <3>2. client'.at = client.at /\ client.height < Height(b)
        BY <1>0, <1>7, <2>3, <3>1, BlockFacts, ZmqFields DEF NewTip, ClientRecords
      <3>3. MailInv'
        BY <1>0, <2>1, <3>2, ZmqFields DEF MailInv, Subscribed
      <3>. QED  BY <1>7, <2>1, <2>2, <3>1, <3>2, <3>3, NewTipKeeps
    <2>4. CASE ~(Height(b) > client.height)
      <3>1. UNCHANGED <<emitted, client, dbTip>>
        BY <1>7, <2>4 DEF AnswerBlock
      <3>2. ZmqTypeOK'
        BY <1>0, <1>b, <2>1, <2>2, <3>1 DEF ZmqTypeOK, Node
      <3>3. MailInv'
        BY <1>0, <2>1, <3>1, ZmqFields DEF MailInv, Subscribed
      <3>. QED  BY <2>1, <3>1, <3>2, <3>3, HeightsStay
    <2>. QED  BY <2>3, <2>4
  <1>8. CASE ReceiveTx
    <2>1. /\ txMail > 0 /\ txMail' = txMail - 1 /\ client.at \in {"rescan", "up"}
          /\ UNCHANGED <<Node, client, blockMail, dbTip, rescanAt, trouble>>
      BY <1>0, <1>8, ZmqFields DEF ReceiveTx, MailInv, Subscribed, ClientRecords
    <2>2. /\ emitted' \in EmittedRecords /\ utxo' \in BOOLEAN /\ queries' \in QueryRecords
          /\ emitted'.from = emitted.from /\ emitted'.heights = emitted.heights
          /\ queries'.asked <= queries.asked + 1
      <3>1. CASE utxo
        <4>1. /\ utxo' = FALSE /\ UNCHANGED queries
              /\ emitted' = [emitted EXCEPT !.tx = @ \union {"confirmed"}]
          BY <1>8, <3>1 DEF ReceiveTx, Emit
        <4>2. /\ emitted' \in EmittedRecords
              /\ emitted'.from = emitted.from /\ emitted'.heights = emitted.heights
          BY <1>0, <4>1, ZmqFields DEF EmittedRecords, Events
        <4>3. queries' \in QueryRecords /\ queries'.asked <= queries.asked + 1
          BY <1>0, <4>1, ZmqFields
        <4>. QED  BY <4>1, <4>2, <4>3
      <3>2. CASE ~utxo
        <4>1. queries' = [queries EXCEPT !.asked = @ + 1] /\ UNCHANGED <<utxo, emitted>>
          BY <1>8, <3>2 DEF ReceiveTx
        <4>2. queries.asked + 1 \in 0..MaxMail
          BY <1>0, <2>1, ZmqFields DEF MailInv
        <4>3. queries' \in QueryRecords /\ queries'.asked = queries.asked + 1
          BY <1>0, <4>1, <4>2, ZmqFields DEF QueryRecords
        <4>. QED  BY <1>0, <4>1, <4>3, ZmqFields
      <3>. QED  BY <3>1, <3>2
    <2>3. txMail' \in 0..MaxMail
      BY <1>0, <2>1, ZmqFields
    <2>4. ZmqTypeOK'
      BY <1>0, <2>1, <2>2, <2>3, ZmqFields, TypesKept
    <2>4a. queries'.asked \in Nat
      BY <2>4, ZmqFields DEF ZmqTypeOK
    <2>5. MailInv'
      BY <1>0, <2>1, <2>2, <2>4a, ZmqFields DEF MailInv, Subscribed
    <2>. QED  BY <2>1, <2>2, <2>4, <2>5, HeightsStay
  <1>9. CASE NodeAnswers
    <2>1. /\ queries.asked > 0
          /\ queries' = [asked |-> queries.asked - 1, answers |-> queries.answers \union {InChain(tip)}]
          /\ UNCHANGED <<Node, client, blockMail, txMail, utxo, dbTip, rescanAt, emitted, trouble>>
      BY <1>9 DEF NodeAnswers
    <2>2. InChain(tip) \in BOOLEAN
      BY DEF InChain
    <2>3. queries' \in QueryRecords /\ queries'.asked = queries.asked - 1
      BY <1>0, <2>1, <2>2, ZmqFields DEF QueryRecords
    <2>4. ZmqTypeOK'
      BY <1>0, <2>1, <2>3, ZmqFields, TypesKept
    <2>5. MailInv'
      BY <1>0, <2>1, <2>3, ZmqFields DEF MailInv, Subscribed
    <2>. QED  BY <2>1, <2>4, <2>5, HeightsStay
  <1>16. CASE QueryFails
    <2>1. /\ queries.asked > 0 /\ trouble.lost < MaxLost
          /\ queries' = [queries EXCEPT !.asked = @ - 1]
          /\ trouble' = [trouble EXCEPT !.lost = @ + 1, !.missed = @ \/ InChain(tip)]
          /\ UNCHANGED <<Node, client, blockMail, txMail, utxo, dbTip, rescanAt, emitted>>
      BY <1>16 DEF QueryFails
    <2>2. trouble' \in TroubleRecords
      BY <1>0, <2>1, LostMore
    <2>3. /\ queries' \in QueryRecords /\ queries'.asked = queries.asked - 1
          /\ queries'.answers = queries.answers
      BY <1>0, <2>1, ZmqFields DEF QueryRecords
    <2>4. ZmqTypeOK'
      BY <1>0, <2>1, <2>2, <2>3, ZmqFields, TypesKept
    <2>5. MailInv'
      BY <1>0, <2>1, <2>3, ZmqFields DEF MailInv, Subscribed
    <2>. QED  BY <2>1, <2>4, <2>5, HeightsStay
  <1>10. ASSUME NEW confirmed \in BOOLEAN, TakeAnswer(confirmed) PROVE BaseInv'
    <2>1. /\ queries' = [queries EXCEPT !.answers = @ \ {confirmed}]
          /\ client.at \in {"rescan", "up"}
          /\ UNCHANGED <<Node, client, blockMail, txMail, dbTip, rescanAt, trouble>>
      BY <1>0, <1>10, ZmqFields DEF TakeAnswer, MailInv, Subscribed
    <2>2. queries' \in QueryRecords /\ queries'.asked = queries.asked
      BY <1>0, <2>1, ZmqFields DEF QueryRecords
    <2>3. /\ emitted' \in EmittedRecords /\ utxo' \in BOOLEAN
          /\ emitted'.from = emitted.from /\ emitted'.heights = emitted.heights
      <3>1. PICK event \in Events : emitted' = [emitted EXCEPT !.tx = @ \union {event}]
        BY <1>10 DEF TakeAnswer, Emit, Events
      <3>2. /\ emitted' \in EmittedRecords
            /\ emitted'.from = emitted.from /\ emitted'.heights = emitted.heights
        BY <1>0, <3>1, ZmqFields DEF EmittedRecords, Events
      <3>3. utxo' \in BOOLEAN
        BY <1>0, <1>10, ZmqFields DEF TakeAnswer
      <3>. QED  BY <3>2, <3>3
    <2>4. ZmqTypeOK'
      BY <1>0, <2>1, <2>2, <2>3, ZmqFields, TypesKept
    <2>5. MailInv'
      BY <1>0, <2>1, <2>2, ZmqFields DEF MailInv, Subscribed
    <2>. QED  BY <2>1, <2>3, <2>4, <2>5, HeightsStay
  <1>11. CASE Crash
    <2>1. /\ client' = [client EXCEPT !.at = "down"] /\ UNCHANGED <<Node, dbTip, rescanAt, emitted>>
          /\ blockMail' = [sent |-> {}, asked |-> {}] /\ txMail' = 0
          /\ queries' = [asked |-> 0, answers |-> {}] /\ utxo' = FALSE
      BY <1>11 DEF Crash
    <2>2. client' \in ClientRecords /\ client'.height = client.height /\ client'.best = client.best
      BY <1>0, <2>1, ZmqFields DEF ClientRecords
    <2>3. trouble' \in TroubleRecords
      <3>. DEFINE now == trouble.missed \/ \E b \in Chain(tip) \intersect mined : Forgotten(b)
      <3>1. trouble' = [trouble EXCEPT !.restarts = @ + 1, !.missed = now]
            /\ trouble.restarts < MaxRestart
        BY <1>11 DEF Crash
      <3>2. now \in BOOLEAN
        BY <1>0, ZmqFields DEF TroubleRecords
      <3>. HIDE DEF now
      <3>3. trouble.restarts + 1 \in 0..MaxRestart /\ trouble \in TroubleRecords
        BY <1>0, <3>1, ZmqFields
      <3>. QED  BY <3>1, <3>2, <3>3 DEF TroubleRecords
    <2>6. blockMail' \in MailRecords /\ queries' \in QueryRecords /\ queries'.asked = 0
      BY <1>0, <2>1, ZmqFields DEF MailRecords, QueryRecords
    <2>4. ZmqTypeOK'
      <3>0. txMail' = 0 /\ utxo' = FALSE /\ 0 \in 0..MaxMail
        BY <2>1 DEF MaxMail
      <3>1. txMail' \in 0..MaxMail /\ utxo' \in BOOLEAN
        BY <3>0
      <3>. QED  BY <1>0, <2>1, <2>2, <2>3, <2>6, <3>1, ZmqFields, TypesKept
    <2>5. MailInv'
      BY <1>0, <2>1, <2>6, ZmqFields DEF MailInv, Subscribed
    <2>. QED  BY <2>1, <2>2, <2>4, <2>5, HeightsStay
  <1>12. CASE Connect
    <2>1. /\ client.at = "down" /\ client' = [height |-> Height(tip), best |-> tip, at |-> "connect"]
          /\ emitted' = [emitted EXCEPT !.from = Height(tip), !.heights = << >>]
          /\ rescanAt' = dbTip /\ UNCHANGED <<Node, blockMail, txMail, queries, utxo, dbTip, trouble>>
      BY <1>12 DEF Connect, RescanFrom
    <2>2. tip \in Blocks /\ Height(tip) \in Nat /\ Height(tip) \in 0..MaxBlocks
      <3>1. tip \in Blocks
        BY <1>0 DEF ZmqTypeOK
      <3>2. Height(tip) \in Nat /\ Height(tip) <= tip /\ tip <= MaxBlocks /\ tip \in Nat
        BY <1>0, <3>1, BlockFacts
      <3>. QED  BY <1>0, <3>1, <3>2, ZmqFields
    <2>3. /\ client' \in ClientRecords /\ emitted' \in EmittedRecords
          /\ emitted'.from = Height(tip) /\ emitted'.heights = << >>
      BY <1>0, <2>1, <2>2, EmptySeq, ZmqFields DEF ClientRecords, EmittedRecords
    <2>4. ZmqTypeOK'
      BY <1>0, <2>1, <2>2, <2>3, ZmqFields, TypesKept
    <2>5. MailInv'
      BY <1>0, <2>1 DEF MailInv, Subscribed
    <2>6. TreeInv' /\ \A b : Height(b)' = Height(b)
      BY <1>0, <2>1, SameTree DEF Node
    <2>7. client'.height - emitted'.from = 0
      BY <2>1, <2>2, <2>3
    <2>8. EveryHeightOnce' /\ emitted'.from <= client'.height
      BY <2>1, <2>2, <2>3, <2>6, <2>7 DEF EveryHeightOnce
    <2>. QED  BY <2>4, <2>5, <2>6, <2>8 DEF BaseInv
  <1>13. ASSUME client' = [client EXCEPT !.at = "rescan"] \/ client' = [client EXCEPT !.at = "up"],
                client.at \in {"connect", "rescan"},
                UNCHANGED <<Node, blockMail, txMail, queries, utxo, dbTip, rescanAt, emitted, trouble>>
         PROVE  BaseInv'
    <2>1. client' \in ClientRecords /\ client'.height = client.height /\ client'.best = client.best
      BY <1>0, <1>13, ZmqFields DEF ClientRecords
    <2>2. ZmqTypeOK'
      BY <1>0, <1>13, <1>b, <2>1 DEF ZmqTypeOK, Node, ClientRecords
    <2>3. MailInv'
      BY <1>0, <1>13, ZmqFields DEF MailInv, Subscribed, ClientRecords
    <2>. QED  BY <1>13, <2>1, <2>2, <2>3, HeightsStay
  <1>14. CASE RescanBlock
    <2>1. /\ emitted' \in EmittedRecords
          /\ emitted'.from = emitted.from /\ emitted'.heights = emitted.heights
      <3>1. \/ emitted' = [emitted EXCEPT !.tx = @ \union {"confirmed"}]
            \/ UNCHANGED emitted
        BY <1>14 DEF RescanBlock, Emit
      <3>. QED  BY <1>0, <3>1, ZmqFields, SMTT(30) DEF EmittedRecords, Events
    <2>2. /\ rescanAt' = rescanAt + 1 /\ rescanAt <= client.height
          /\ UNCHANGED <<Node, client, blockMail, txMail, queries, utxo, dbTip, trouble>>
      BY <1>14 DEF RescanBlock
    <2>3. ZmqTypeOK'
      <3>1. rescanAt' \in 0..(MaxBlocks + 1)
        BY <1>0, <2>2, ZmqFields
      <3>2. /\ client' \in ClientRecords /\ blockMail' \in MailRecords
            /\ queries' \in QueryRecords /\ trouble' \in TroubleRecords
            /\ txMail' \in 0..MaxMail /\ utxo' \in BOOLEAN /\ dbTip' \in 0..MaxBlocks
        BY <1>0, <2>2, ZmqFields
      <3>3. UNCHANGED Node
        BY <2>2
      <3>. QED  BY ONLY BaseInv, <2>1, <3>1, <3>2, <3>3, TypesKept
    <2>4. MailInv'
      BY <1>0, <2>2 DEF MailInv, Subscribed
    <2>. QED  BY <2>1, <2>2, <2>3, <2>4, HeightsStay
  <1>15. CASE Subscribe \/ RescanEnds
    BY <1>13, <1>15 DEF Subscribe, RescanEnds
  <1>. QED  BY <1>1, <1>2, <1>3, <1>4, <1>5, <1>6, <1>7, <1>8, <1>9, <1>10, <1>11, <1>12, <1>14, <1>15,
               <1>16
            DEF ZmqNext

-----------------------------------------------------------------------------
(* The client of the chain: confirmations *)

(* What is left to prove of a step that leaves the node alone.             *)
LEMMA SameNode ==
  ASSUME BaseInv, WillBeSeen, UNCHANGED Node,
         "confirmed" \notin emitted'.tx => "confirmed" \notin emitted.tx,
         ~trouble'.missed => ~trouble.missed,
         ASSUME "confirmed" \notin emitted'.tx, ~trouble'.missed,
                NEW b \in Chain(tip) \intersect mined, b \in Blocks, Height(b) \in Nat,
                Height(b)' = Height(b), Awaits(b)
         PROVE  Awaits(b)'
  PROVE  WillBeSeen'
  <1>. SUFFICES ASSUME "confirmed" \notin emitted'.tx, ~trouble'.missed,
                       NEW b \in (Chain(tip) \intersect mined)'
                PROVE  Awaits(b)'
    BY DEF WillBeSeen
  <1>1. Chain(tip)' = Chain(tip) /\ mined' = mined /\ Height(b)' = Height(b)
    BY DEF Chain, Node, Height
  <1>2. b \in Chain(tip) \intersect mined
    BY <1>1
  <1>3. b \in Blocks /\ Height(b) \in Nat
    BY <1>2, BlockFacts DEF BaseInv, ZmqTypeOK
  <1>4. Awaits(b)
    BY <1>2 DEF WillBeSeen
  <1>. QED  BY <1>1, <1>2, <1>3, <1>4

(* What is lost while the transaction is not in the chain is not missed.   *)
LEMMA LostSeen ==
  ASSUME trouble'.missed = (trouble.missed \/ InChain(tip)), UNCHANGED <<Node, emitted>>
  PROVE  WillBeSeen'
  <1>1. Chain(tip)' = Chain(tip) /\ mined' = mined
    BY DEF Chain, Node
  <1>2. CASE InChain(tip)
    BY <1>2 DEF WillBeSeen
  <1>3. CASE ~InChain(tip)
    <2>1. (Chain(tip) \intersect mined)' = {}
      BY <1>1, <1>3 DEF InChain
    <2>. QED  BY <2>1 DEF WillBeSeen
  <1>. QED  BY <1>2, <1>3

(* A block that moves the transaction is announced with it.                *)
LEMMA MineSeen ==
  ASSUME BaseInv, BaseInv', WillBeSeen, NEW p \in Blocks, NEW withTx \in BOOLEAN,
         MineBlock(p, withTx)
  PROVE  WillBeSeen'
  <1>0. PICK n, best :
          /\ n = Len(blocks) + 1
          /\ best = IF Height(p) + 1 > Height(tip) THEN n ELSE tip
    OBVIOUS
  <1>. DEFINE mined1 == IF withTx THEN mined \union {n} ELSE mined
              moves == best = n /\ ((Chain(p) \union {n}) \intersect mined1)
                                      # (Chain(tip) \intersect mined)
              behind == \E b \in Chain(tip)' \intersect mined' : Height(b)' < dbTip
  <1>1. ZmqTypeOK /\ TreeInv /\ tip \in Blocks /\ mined \subseteq Blocks
    BY DEF BaseInv, ZmqTypeOK
  <1>2. /\ blocks' = Append(blocks, Child(p)) /\ mined' = mined1 /\ tip' = best
        /\ Announce({best} \ {tip}, moves)
    BY <1>0 DEF MineBlock
  <1>3. /\ n \notin Blocks /\ Blocks' = Blocks \union {n}
        /\ \A c \in Blocks : Height(c)' = Height(c) /\ Chain(c)' = Chain(c)
        /\ Chain(n)' = Chain(p) \union {n} /\ Height(n)' = Height(p) + 1
    BY <1>0, <1>1, <1>2, GrownTree
  <1>4. Chain(tip) \subseteq Blocks
    BY <1>1 DEF TreeInv
  <1>4a. Chain(tip)' = Chain(best)'
    BY <1>2 DEF Chain
  <1>5. ~moves => Chain(tip)' \intersect mined' = Chain(tip) \intersect mined
    <2>1. CASE best = n
      <3>1. Chain(tip)' = Chain(p) \union {n}
        BY <1>3, <1>4a, <2>1
      <3>. QED  BY <1>2, <2>1, <3>1
    <2>2. CASE best # n
      <3>1. best = tip
        BY <1>0, <2>2
      <3>2. Chain(tip)' = Chain(tip)
        BY <1>1, <1>3, <1>4a, <3>1
      <3>. QED  BY <1>2, <1>3, <1>4, <3>2
    <2>. QED  BY <2>1, <2>2
  <1>6. /\ txMail' = IF Subscribed /\ moves THEN txMail + 1 ELSE txMail
        /\ trouble' = [trouble EXCEPT !.missed = @ \/ (moves /\ (client.at = "connect" \/
             (client.at = "down" /\ behind)))]
        /\ UNCHANGED <<client, queries, dbTip, rescanAt, emitted>>
    <2>. HIDE DEF moves
    <2>. QED  BY <1>2 DEF Announce
  <1>7. trouble'.missed = (trouble.missed \/ (moves /\ (client.at = "connect" \/
             (client.at = "down" /\ behind))))
    <2>. HIDE DEF moves, behind
    <2>. QED  BY <1>1, <1>6, ZmqFields DEF TroubleRecords
  <1>8. ASSUME "confirmed" \notin emitted'.tx, ~trouble'.missed,
               NEW b \in (Chain(tip) \intersect mined)'
        PROVE  Awaits(b)'
    <2>1. CASE moves
      <3>1. client.at = "rescan" \/ client.at = "up" => OnTheWay'
        <4>. HIDE DEF moves
        <4>1. client.at = "rescan" \/ client.at = "up" => txMail' = txMail + 1
          BY <1>6, <2>1 DEF Subscribed
        <4>2. txMail \in Nat
          BY <1>1, ZmqFields
        <4>3. client.at = "rescan" \/ client.at = "up" => txMail' > 0
          BY <4>1, <4>2
        <4>. QED  BY <4>3, Zenon DEF OnTheWay
      <3>2. client.at # "connect" /\ (client.at = "down" => ~behind)
        <4>. HIDE DEF moves, behind
        <4>. QED  BY <1>7, <1>8, <2>1
      <3>3. Height(b)' \in Nat /\ dbTip' \in Nat
        <4>1. b \in Blocks \union {n} /\ dbTip' = dbTip /\ dbTip \in Nat
          BY <1>1, <1>3, <1>6, <1>8, ZmqFields DEF BaseInv, ZmqTypeOK
        <4>2. Height(p) \in Nat
          BY <1>1, BlockFacts
        <4>3. CASE b \in Blocks
          BY <1>1, <1>3, <4>1, <4>3, BlockFacts
        <4>4. CASE b = n
          BY <1>3, <4>1, <4>2, <4>4
        <4>. QED  BY <4>1, <4>3, <4>4
      <3>4. client.at = "down" => dbTip' <= Height(b)'
        BY <1>6, <1>8, <3>2, <3>3
      <3>. HIDE DEF moves, behind
      <3>. QED  BY <1>6, <3>1, <3>2, <3>4 DEF Awaits
    <2>2. CASE ~moves
      <3>1. b \in Chain(tip) \intersect mined
        BY <1>5, <1>8, <2>2
      <3>. HIDE DEF moves, behind
      <3>2. "confirmed" \notin emitted.tx /\ ~trouble.missed
        BY <1>6, <1>7, <1>8
      <3>3. Awaits(b)
        BY <3>1, <3>2 DEF WillBeSeen
      <3>4. Height(b)' = Height(b)
        BY <1>3, <1>4, <3>1
      <3>. QED  BY <1>6, <2>2, <3>3, <3>4 DEF Awaits, InRescan, OnTheWay
    <2>. QED  BY <2>1, <2>2
  <1>. QED  BY <1>8 DEF WillBeSeen

LEMMA OnTheWayFacts == ASSUME ZmqTypeOK, OnTheWay PROVE Underway
  <1>1. txMail \in Nat /\ queries.asked \in Nat
    BY ZmqFields
  <1>2. CASE txMail > 0
    BY <1>1, <1>2 DEF Underway
  <1>3. CASE queries.asked > 0
    BY <1>1, <1>3 DEF Underway
  <1>4. CASE TRUE \in queries.answers
    <2>1. queries.answers # {}
      BY <1>4, Zenon
    <2>. QED  BY <2>1, Zenon DEF Underway
  <1>. QED  BY <1>2, <1>3, <1>4, Zenon DEF OnTheWay

(* Every other step keeps the news on its way, or delivers it.             *)
LEMMA StepSeen == BaseInv /\ BaseInv' /\ WillBeSeen /\ [ZmqNext]_zmqVars => WillBeSeen'
  <1>. SUFFICES ASSUME BaseInv, BaseInv', WillBeSeen, [ZmqNext]_zmqVars PROVE WillBeSeen'
    OBVIOUS
  <1>0. ZmqTypeOK /\ MailInv /\ TreeInv
    BY DEF BaseInv
  <1>1. CASE UNCHANGED zmqVars
    <2>1. UNCHANGED <<Node, emitted, trouble, client, dbTip, rescanAt, txMail, queries>>
      BY <1>1 DEF zmqVars, Node
    <2>. QED  BY <2>1, SameNode DEF Awaits, InRescan, OnTheWay
  <1>2. CASE Broadcast
    <2>1. Chain(tip)' \intersect mined' = {}
      BY <1>2 DEF Broadcast, Node
    <2>. QED  BY <2>1 DEF WillBeSeen
  <1>3. CASE \E p \in Blocks, withTx \in BOOLEAN : MineBlock(p, withTx)
    BY <1>3, MineSeen
  <1>4. ASSUME NEW b \in Blocks, DropBlock(b) PROVE WillBeSeen'
    <2>1. /\ trouble' = [trouble EXCEPT !.lost = @ + 1]
          /\ UNCHANGED <<Node, emitted, client, dbTip, rescanAt, txMail, queries>>
      BY <1>4 DEF DropBlock
    <2>2. trouble'.missed = trouble.missed
      BY <1>0, <2>1, ZmqFields DEF TroubleRecords
    <2>. QED  BY <2>1, <2>2, SameNode DEF Awaits, InRescan, OnTheWay
  <1>5. CASE DropTx
    <2>1. trouble'.missed = (trouble.missed \/ InChain(tip)) /\ UNCHANGED <<Node, emitted>>
      BY <1>0, <1>5, LostMore DEF DropTx
    <2>. QED  BY <2>1, LostSeen
  <1>6. ASSUME NEW b \in Blocks, ReceiveBlock(b) \/ AnswerBlock(b) PROVE WillBeSeen'
    <2>1. /\ UNCHANGED <<Node, txMail, queries, rescanAt, trouble>>
          /\ client.at \in {"rescan", "up"}
      BY <1>0, <1>6, ZmqFields DEF ReceiveBlock, AnswerBlock, MailInv, Subscribed
    <2>2. /\ client'.at = client.at /\ client'.height >= client.height
          /\ emitted'.tx = emitted.tx
      <3>1. CASE UNCHANGED <<emitted, client, dbTip>>
        BY <1>0, <3>1, ZmqFields
      <3>2. ASSUME NEW h \in Nat, h >= client.height, NewTip(h, b)
            PROVE  /\ client'.at = client.at /\ client'.height >= client.height
                   /\ emitted'.tx = emitted.tx
        BY <1>0, <3>2, ZmqFields DEF NewTip, ClientRecords, EmittedRecords
      <3>3. \/ UNCHANGED <<emitted, client, dbTip>>
            \/ NewTip(client.height + 1, b)
            \/ Height(b) > client.height /\ NewTip(Height(b), b)
        BY <1>6 DEF ReceiveBlock, AnswerBlock
      <3>4. Height(b) \in Nat /\ client.height \in Nat
        BY <1>0, <1>6, BlockFacts, ZmqFields
      <3>5. CASE NewTip(client.height + 1, b)
        BY <3>2, <3>4, <3>5
      <3>6. CASE Height(b) > client.height /\ NewTip(Height(b), b)
        BY <3>2, <3>4, <3>6
      <3>. QED  BY <3>1, <3>3, <3>5, <3>6
    <2>3. client'.height \in Nat /\ client.height \in Nat
      BY <1>0, ZmqFields DEF BaseInv, ZmqTypeOK
    <2>4. ASSUME NEW c \in Blocks, Height(c) \in Nat, Height(c)' = Height(c), Awaits(c)
          PROVE  Awaits(c)'
      <3>1. OnTheWay => OnTheWay'
        BY <2>1, Zenon DEF OnTheWay
      <3>2. InRescan(c) => InRescan(c)'
        BY <2>1, <2>2, <2>3, <2>4 DEF InRescan
      <3>. QED  BY <2>1, <2>2, <2>4, <3>1, <3>2 DEF Awaits
    <2>. QED  BY <2>1, <2>2, <2>4, SameNode
  <1>7. CASE ReceiveTx
    <2>1. /\ UNCHANGED <<Node, client, dbTip, rescanAt, trouble>> /\ client.at \in {"rescan", "up"}
      BY <1>0, <1>7, ZmqFields DEF ReceiveTx, MailInv, Subscribed
    <2>2. CASE utxo
      <3>1. "confirmed" \in emitted'.tx
        BY <1>0, <1>7, <2>2, ZmqFields DEF ReceiveTx, Emit, EmittedRecords
      <3>. QED  BY <3>1 DEF WillBeSeen
    <2>3. CASE ~utxo
      <3>1. queries' = [queries EXCEPT !.asked = @ + 1] /\ UNCHANGED emitted
        BY <1>7, <2>3 DEF ReceiveTx
      <3>2. queries'.asked = queries.asked + 1
        BY <1>0, <3>1, ZmqFields DEF QueryRecords
      <3>3. OnTheWay'
        <4>1. queries'.asked > 0
          BY <1>0, <3>2, ZmqFields
        <4>. QED  BY <4>1, Zenon DEF OnTheWay
      <3>. QED  BY <2>1, <3>1, <3>3, SameNode DEF Awaits
    <2>. QED  BY <2>2, <2>3
  <1>8. CASE NodeAnswers
    <2>1. /\ UNCHANGED <<Node, client, dbTip, rescanAt, trouble, emitted>>
          /\ client.at \in {"rescan", "up"}
          /\ queries' = [asked |-> queries.asked - 1, answers |-> queries.answers \union {InChain(tip)}]
      BY <1>0, <1>8, ZmqFields DEF NodeAnswers, MailInv, Subscribed
    <2>2. ASSUME NEW b \in Chain(tip) \intersect mined PROVE OnTheWay'
      <3>1. InChain(tip)
        BY <2>2 DEF InChain
      <3>2. TRUE \in queries'.answers
        BY <2>1, <3>1
      <3>. QED  BY <3>2 DEF OnTheWay
    <2>. QED  BY <2>1, <2>2, SameNode DEF Awaits
  <1>15. CASE QueryFails
    <2>1. trouble'.missed = (trouble.missed \/ InChain(tip)) /\ UNCHANGED <<Node, emitted>>
      BY <1>0, <1>15, LostMore DEF QueryFails
    <2>. QED  BY <2>1, LostSeen
  <1>9. ASSUME NEW confirmed \in BOOLEAN, TakeAnswer(confirmed) PROVE WillBeSeen'
    <2>1. /\ UNCHANGED <<Node, client, dbTip, rescanAt, trouble, txMail>>
          /\ queries' = [queries EXCEPT !.answers = @ \ {confirmed}]
      BY <1>9 DEF TakeAnswer
    <2>2. CASE confirmed
      <3>1. "confirmed" \in emitted'.tx
        BY <1>0, <1>9, <2>2, ZmqFields DEF TakeAnswer, Emit, EmittedRecords
      <3>. QED  BY <3>1 DEF WillBeSeen
    <2>3. CASE ~confirmed
      <3>1. emitted' = [emitted EXCEPT !.tx = @ \union {"mempool"}]
        BY <1>9, <2>3 DEF TakeAnswer, Emit
      <3>2. "confirmed" \notin emitted'.tx => "confirmed" \notin emitted.tx
        BY <1>0, <3>1, ZmqFields DEF EmittedRecords
      <3>3. queries'.asked = queries.asked /\ (TRUE \in queries.answers => TRUE \in queries'.answers)
        BY <1>0, <2>1, <2>3, ZmqFields DEF QueryRecords
      <3>4. OnTheWay => OnTheWay'
        BY <2>1, <3>3 DEF OnTheWay
      <3>. QED  BY <2>1, <3>2, <3>4, SameNode DEF Awaits, InRescan
    <2>. QED  BY <2>2, <2>3
  <1>10. CASE Crash
    <2>. DEFINE some == \E b \in Chain(tip) \intersect mined : Forgotten(b)
    <2>1. /\ client.at # "down" /\ client' = [client EXCEPT !.at = "down"]
          /\ UNCHANGED <<Node, dbTip, emitted>>
          /\ trouble' = [trouble EXCEPT !.restarts = @ + 1, !.missed = @ \/ some]
      BY <1>10 DEF Crash
    <2>2. client'.at = "down"
      BY <1>0, <2>1, ZmqFields DEF ClientRecords
    <2>3. trouble'.missed = (trouble.missed \/ some)
      <3>. HIDE DEF some
      <3>. QED  BY <1>0, <2>1, ZmqFields DEF TroubleRecords
    <2>4. ASSUME ~trouble'.missed, NEW b \in Chain(tip) \intersect mined, Height(b) \in Nat, Awaits(b)
          PROVE  dbTip <= Height(b)
      <3>1. ~Forgotten(b)
        BY <2>3, <2>4
      <3>2. dbTip \in Nat /\ client.at \in {"connect", "rescan", "up"}
        BY <1>0, <2>1, ZmqFields
      <3>3. CASE client.at = "connect"
        BY <2>4, <3>3 DEF Awaits
      <3>4. CASE OnTheWay
        <4>1. Underway
          BY <1>0, <3>4, OnTheWayFacts
        <4>. QED  BY <2>4, <3>1, <3>2, <4>1 DEF Forgotten
      <3>5. CASE client.at = "rescan" /\ InRescan(b)
        <4>1. Unscanned(b)
          BY <3>5 DEF Unscanned, InRescan
        <4>. QED  BY <2>4, <3>1, <3>2, <4>1 DEF Forgotten
      <3>. QED  BY <2>4, <3>2, <3>3, <3>4, <3>5 DEF Awaits
    <2>. HIDE DEF some
    <2>5. ~trouble'.missed => ~trouble.missed
      BY <2>3
    <2>. QED  BY <2>1, <2>2, <2>4, <2>5, SameNode DEF Awaits
  <1>11. CASE Connect
    <2>1. /\ client.at = "down" /\ client' = [height |-> Height(tip), best |-> tip, at |-> "connect"]
          /\ emitted' = [emitted EXCEPT !.from = Height(tip), !.heights = << >>]
          /\ rescanAt' = dbTip /\ UNCHANGED <<Node, dbTip, trouble>>
      BY <1>11 DEF Connect, RescanFrom
    <2>2. emitted'.tx = emitted.tx /\ client'.at = "connect" /\ client'.height = Height(tip)
      BY <1>0, <2>1, ZmqFields DEF EmittedRecords
    <2>3. ASSUME NEW b \in Chain(tip) \intersect mined, Height(b)' = Height(b), Awaits(b)
          PROVE  dbTip <= Height(b) /\ InRescan(b)'
      <3>1. Height(b) <= Height(tip)
        BY <1>0, <2>3 DEF TreeInv, ZmqTypeOK
      <3>2. dbTip <= Height(b)
        BY <2>1, <2>3 DEF Awaits
      <3>. QED  BY <2>1, <2>2, <2>3, <3>1, <3>2 DEF InRescan
    <2>. QED  BY <2>1, <2>2, <2>3, SameNode DEF Awaits
  <1>12. CASE Subscribe
    <2>1. /\ client.at = "connect" /\ client' = [client EXCEPT !.at = "rescan"]
          /\ UNCHANGED <<Node, txMail, queries, dbTip, rescanAt, emitted, trouble>>
      BY <1>12 DEF Subscribe
    <2>2. client'.at = "rescan" /\ client'.height = client.height
      BY <1>0, <2>1, ZmqFields DEF ClientRecords
    <2>. QED  BY <2>1, <2>2, SameNode DEF Awaits, InRescan
  <1>13. CASE RescanBlock
    <2>1. /\ client.at = "rescan" /\ rescanAt' = rescanAt + 1
          /\ UNCHANGED <<Node, client, txMail, queries, dbTip, trouble>>
      BY <1>13 DEF RescanBlock
    <2>2. CASE \E b \in Chain(tip) \intersect mined : Height(b) = rescanAt
      <3>1. "confirmed" \in emitted'.tx
        BY <1>0, <1>13, <2>2, ZmqFields DEF RescanBlock, Emit, EmittedRecords
      <3>. QED  BY <3>1 DEF WillBeSeen
    <2>3. CASE ~\E b \in Chain(tip) \intersect mined : Height(b) = rescanAt
      <3>1. UNCHANGED emitted
        BY <1>13, <2>3 DEF RescanBlock
      <3>2. ASSUME NEW b \in Chain(tip) \intersect mined, Height(b) \in Nat, Height(b)' = Height(b),
                   Awaits(b)
            PROVE  InRescan(b)' \/ OnTheWay'
        <4>1. CASE OnTheWay
          BY <2>1, <4>1 DEF OnTheWay
        <4>2. CASE InRescan(b)
          <5>1. Height(b) # rescanAt /\ rescanAt \in Nat
            BY <1>0, <2>3, ZmqFields
          <5>. QED  BY <2>1, <3>2, <4>2, <5>1 DEF InRescan
        <4>. QED  BY <2>1, <3>2, <4>1, <4>2 DEF Awaits
      <3>. QED  BY <2>1, <3>1, <3>2, SameNode DEF Awaits
    <2>. QED  BY <2>2, <2>3
  <1>14. CASE RescanEnds
    <2>1. /\ client.at = "rescan" /\ rescanAt > client.height /\ client' = [client EXCEPT !.at = "up"]
          /\ UNCHANGED <<Node, txMail, queries, dbTip, rescanAt, emitted, trouble>>
      BY <1>14 DEF RescanEnds
    <2>2. client'.at = "up"
      BY <1>0, <2>1, ZmqFields DEF ClientRecords
    <2>3. ASSUME NEW b \in Chain(tip) \intersect mined, Height(b) \in Nat, Awaits(b) PROVE OnTheWay'
      <3>1. ~InRescan(b)
        BY <1>0, <2>1, <2>3, ZmqFields DEF InRescan
      <3>. QED  BY <2>1, <2>3, <3>1 DEF Awaits, OnTheWay
    <2>. QED  BY <2>1, <2>2, <2>3, SameNode DEF Awaits
  <1>. QED  BY <1>1, <1>2, <1>3, <1>4, <1>5, <1>6, <1>7, <1>8, <1>9, <1>10, <1>11, <1>12, <1>13, <1>14,
               <1>15
            DEF ZmqNext

LEMMA ZmqInductive == ZmqSpec => [](BaseInv /\ WillBeSeen)
  <1>1. ZmqInit => WillBeSeen
    BY DEF ZmqInit, WillBeSeen
  <1>. QED  BY <1>1, InitBase, StepBase, StepSeen, PTL DEF ZmqSpec

THEOREM ZmqTypeCorrect == ZmqSpec => []ZmqTypeOK
  <1>1. BaseInv => ZmqTypeOK
    BY DEF BaseInv
  <1>. QED  BY <1>1, ZmqInductive, PTL

(* Each height comes once and in order, however blocks are announced.      *)
THEOREM HeightsOnce == ZmqSpec => []EveryHeightOnce
  <1>1. BaseInv => EveryHeightOnce
    BY DEF BaseInv
  <1>. QED  BY <1>1, ZmqInductive, PTL

(* With nothing under way, a transaction in the chain has been reported.   *)
THEOREM ConfirmationIsSeen == ZmqSpec => []ConfirmationSeen
  <1>1. BaseInv /\ WillBeSeen => ConfirmationSeen
    <2>. SUFFICES ASSUME BaseInv, WillBeSeen, client.at = "up", ~Underway, ~trouble.missed,
                         InChain(tip), "confirmed" \notin emitted.tx
                  PROVE  FALSE
      BY DEF ConfirmationSeen
    <2>1. PICK b \in Chain(tip) \intersect mined : Awaits(b)
      BY DEF WillBeSeen, InChain
    <2>2. OnTheWay
      BY <2>1 DEF Awaits
    <2>3. Underway
      BY <2>2, OnTheWayFacts DEF BaseInv
    <2>. QED  BY <2>3
  <1>. QED  BY <1>1, ZmqInductive, PTL

-----------------------------------------------------------------------------
(* The parts side by side *)

(* A behaviour of the whole is one of each part, with steps that it sits   *)
(* out: what is proved of a part holds of the whole.                       *)
THEOREM PartsImplementEach ==
  PartsSpec => ContractSpec /\ RewardsSpec /\ ChannelSpec /\ AtomicSpec /\ ZmqSpec
  <1>1. PartsInit => ContractInit /\ RewardsInit /\ ChannelInit /\ AtomicInit /\ ZmqInit
    BY DEF PartsInit
  <1>2. [PartsNext]_partsVars => [ContractNext]_contractVars
    BY DEF PartsNext, partsVars
  <1>3. [PartsNext]_partsVars => [RewardsNext]_rewardsVars
    BY DEF PartsNext, partsVars
  <1>4. [PartsNext]_partsVars => [ChannelNext]_channelVars
    BY DEF PartsNext, partsVars
  <1>5. [PartsNext]_partsVars => [AtomicNext]_atomicVars
    BY DEF PartsNext, partsVars
  <1>6. [PartsNext]_partsVars => [ZmqNext]_zmqVars
    BY DEF PartsNext, partsVars
  <1>. QED  BY <1>1, <1>2, <1>3, <1>4, <1>5, <1>6, PTL
            DEF PartsSpec, ContractSpec, RewardsSpec, ChannelSpec, AtomicSpec, ZmqSpec

(* The type invariant of the run in which all of them are checked.         *)
THEOREM PartsTypeCorrect == PartsSpec => []PartsTypeOK
  <1>1. PartsInit => part \in Parts
    BY DEF PartsInit
  <1>2. part \in Parts /\ [PartsNext]_partsVars => (part \in Parts)'
    BY DEF PartsNext, partsVars
  <1>3. /\ part \in Parts /\ ContractTypeOK /\ RewardsTypeOK /\ ChannelTypeOK
        /\ AtomicTypeOK /\ ZmqTypeOK
        => PartsTypeOK
    BY DEF PartsTypeOK
  <1>. QED  BY <1>1, <1>2, <1>3, PartsImplementEach, ContractTypeCorrect, RewardsTypeCorrect,
               ChannelTypeCorrect, AtomicTypeCorrect, ZmqTypeCorrect, PTL DEF PartsSpec
=============================================================================
