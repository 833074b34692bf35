------------------------ MODULE SwapContract_proofs -------------------------
(***************************************************************************)
(* Theorems of SwapContract for every set of hashes, principals and tokens *)
(* and every bound.                                                        *)
(***************************************************************************)
EXTENDS SwapContract, Integers, FiniteSetTheorems, TLAPS

Principals == Users \union {Contract}

(* A transfer that can be made changes two balances, and no other.         *)
LEMMA MovedFacts ==
  ASSUME NEW f \in [Tokens -> [Principals -> Nat]], NEW t \in Tokens, NEW amount \in Nat,
         NEW from \in Principals, NEW to \in Principals, from # to, f[t][from] >= amount
  PROVE  /\ Moved(f, t, amount, from, to) \in [Tokens -> [Principals -> Nat]]
         /\ \A x \in Tokens, y \in Principals :
              Moved(f, t, amount, from, to)[x][y] =
                IF x = t /\ y = from THEN f[x][y] - amount
                ELSE IF x = t /\ y = to THEN f[x][y] + amount ELSE f[x][y]
  <1>1. f[t] \in [Principals -> Nat] /\ f[t][from] - amount \in Nat /\ f[t][to] + amount \in Nat
    OBVIOUS
  <1>2. Moved(f, t, amount, from, to) =
          [f EXCEPT ![t] = [f[t] EXCEPT ![from] = f[t][from] - amount,
                                        ![to] = f[t][to] + amount]]
    BY <1>1 DEF Moved
  <1>. QED  BY <1>1, <1>2

(* The balance of one principal after a transfer.                          *)
LEMMA MovedAt ==
  ASSUME NEW f \in [Tokens -> [Principals -> Nat]], NEW t \in Tokens, NEW amount \in Nat,
         NEW from \in Principals, NEW to \in Principals, from # to, f[t][from] >= amount,
         NEW x \in Tokens, NEW y \in Principals
  PROVE  Moved(f, t, amount, from, to)[x][y] =
           IF x = t /\ y = from THEN f[x][y] - amount
           ELSE IF x = t /\ y = to THEN f[x][y] + amount ELSE f[x][y]
  <1>1. \A u \in Tokens, q \in Principals :
          Moved(f, t, amount, from, to)[u][q] =
            IF u = t /\ q = from THEN f[u][q] - amount
            ELSE IF u = t /\ q = to THEN f[u][q] + amount ELSE f[u][q]
    BY ONLY MovedFacts, f \in [Tokens -> [Principals -> Nat]], t \in Tokens, amount \in Nat,
       from \in Principals, to \in Principals, from # to, f[t][from] >= amount
  <1>. QED  BY <1>1

(* A transfer leaves everybody else's balance alone.                       *)
LEMMA MovedElsewhere ==
  ASSUME NEW f \in [Tokens -> [Principals -> Nat]], NEW t \in Tokens, NEW amount \in Nat,
         NEW from \in Principals, NEW to \in Principals, from # to, f[t][from] >= amount,
         NEW x \in Tokens, NEW y \in Principals, y # from, y # to
  PROVE  Moved(f, t, amount, from, to)[x][y] = f[x][y]
  BY MovedAt

(* An entry has its fields in their types.                                 *)
LEMMA EntryFacts ==
  ASSUME ContractTypeOK, NEW h \in Hashes, swaps[h] # NoSwap
  PROVE  /\ swaps[h] \in Entries /\ swaps[h].amount \in 1..MaxAmount /\ swaps[h].amount \in Nat
         /\ swaps[h].token \in Tokens
         /\ swaps[h].initiator \in Users /\ swaps[h].claimPrincipal \in Users
         /\ swaps[h].initiator \in Principals /\ Contract \in Principals
         /\ swaps[h].initiator # Contract
  <1>1. swaps[h] \in Entries
    BY DEF ContractTypeOK
  <1>. QED  BY <1>1, ContractAssumption DEF Entries, Principals

-----------------------------------------------------------------------------
(* Types *)

LEMMA InitContractType == ContractInit => ContractTypeOK
  <1>1. SUFFICES ASSUME ContractInit PROVE ContractTypeOK
    OBVIOUS
  <1>2. \A p \in Principals : (IF p = Contract THEN 0 ELSE MaxAmount) \in Nat
    BY ContractAssumption
  <1>3. 0 \in 0..(MaxClock + 1)
    BY ContractAssumption
  <1>. QED  BY <1>1, <1>2, <1>3 DEF ContractInit, ContractTypeOK, Principals

(* A call that succeeds leaves every variable in its type.                 *)
LEMMA StepContractType ==
  ContractTypeOK /\ [ContractNext]_contractVars => ContractTypeOK'
  <1>. SUFFICES ASSUME ContractTypeOK, [ContractNext]_contractVars PROVE ContractTypeOK'
    OBVIOUS
  <1>0. funds \in [Tokens -> [Principals -> Nat]]
    BY DEF ContractTypeOK, Principals
  <1>1. CASE Tick
    <2>1. blockHeight' \in 0..(MaxClock + 1)
      BY <1>1, ContractAssumption DEF Tick, ContractTypeOK
    <2>. QED  BY <1>1, <2>1 DEF Tick, ContractTypeOK
  <1>2. ASSUME NEW p \in Users, NEW h \in Hashes, NEW amount \in 1..MaxAmount, NEW t \in Tokens,
               NEW timelock \in 0..MaxClock, NEW q \in Users,
               LockToken(p, h, amount, timelock, q, t)
        PROVE  ContractTypeOK'
    <2>0. /\ amount \in Nat /\ p \in Principals /\ Contract \in Principals /\ p # Contract
          /\ funds[t][p] >= amount /\ funds' = Moved(funds, t, amount, p, Contract)
      BY <1>2, ContractAssumption DEF LockToken, CanTransfer, Principals
    <2>1. funds' \in [Tokens -> [Principals -> Nat]]
      BY <1>0, <2>0, MovedFacts
    <2>2. swaps' \in [Hashes -> Entries \union {NoSwap}]
      BY <1>2 DEF LockToken, ContractTypeOK, Entries
    <2>. QED  BY <1>2, <2>1, <2>2 DEF LockToken, ContractTypeOK, Principals
  <1>3. ASSUME NEW p \in Users, NEW h \in Hashes, NEW amount \in 1..MaxAmount, NEW t \in Tokens,
               ClaimToken(p, h, amount, t)
        PROVE  ContractTypeOK'
    <2>0. /\ amount \in Nat /\ p \in Principals /\ Contract \in Principals /\ p # Contract
          /\ funds[t][Contract] >= amount /\ funds' = Moved(funds, t, amount, Contract, p)
      BY <1>3, ContractAssumption DEF ClaimToken, CanTransfer, Principals
    <2>1. funds' \in [Tokens -> [Principals -> Nat]]
      BY <1>0, <2>0, MovedFacts
    <2>. QED  BY <1>3, <2>1 DEF ClaimToken, ContractTypeOK, Principals
  <1>4. ASSUME NEW p \in Users, NEW h \in Hashes, NEW amount \in 1..MaxAmount, NEW t \in Tokens,
               NEW receiver \in Users, TriggerTransfer(p, h, amount, t, receiver)
        PROVE  ContractTypeOK'
    <2>. DEFINE f == Moved(funds, t, amount, Contract, p)
    <2>1. amount \in Nat /\ Contract \in Principals /\ p \in Principals /\ receiver \in Principals
          /\ Contract # p /\ receiver # p /\ funds[t][Contract] >= amount
      BY <1>4, ContractAssumption DEF TriggerTransfer, CanTransfer, Principals
    <2>2. f \in [Tokens -> [Principals -> Nat]] /\ f[t][p] = funds[t][p] + amount
      BY <1>0, <2>1, MovedFacts
    <2>3. f[t][p] >= amount
      BY <1>0, <2>1, <2>2
    <2>4. Moved(f, t, amount, p, receiver) \in [Tokens -> [Principals -> Nat]]
      <3>. HIDE DEF f
      <3>. QED  BY <2>1, <2>2, <2>3, MovedFacts
    <2>. QED  BY <1>4, <2>4 DEF TriggerTransfer, ContractTypeOK, Principals
  <1>5. ASSUME NEW p \in Users, NEW h \in Hashes, NEW amount \in 1..MaxAmount, NEW t \in Tokens,
               TriggerFails(p, h, amount, t)
        PROVE  ContractTypeOK'
    BY <1>5 DEF TriggerFails, ContractTypeOK
  <1>6. ASSUME NEW p \in Users, NEW h \in Hashes, NEW t \in Tokens, RefundToken(p, h, t)
        PROVE  ContractTypeOK'
    <2>1. swaps[h].amount \in Nat
      BY <1>6, EntryFacts DEF RefundToken
    <2>0. /\ p \in Principals /\ Contract \in Principals /\ p # Contract
          /\ funds[t][Contract] >= swaps[h].amount
          /\ funds' = Moved(funds, t, swaps[h].amount, Contract, p)
      BY <1>6, ContractAssumption DEF RefundToken, CanTransfer, Principals
    <2>2. funds' \in [Tokens -> [Principals -> Nat]]
      BY <1>0, <2>0, <2>1, MovedFacts
    <2>. QED  BY <1>6, <2>2 DEF RefundToken, ContractTypeOK, Principals
  <1>7. CASE UNCHANGED contractVars
    BY <1>7 DEF contractVars, ContractTypeOK
  <1>. QED  BY <1>1, <1>2, <1>3, <1>4, <1>5, <1>6, <1>7 DEF ContractNext

(* The variables keep their types: the map, the balances that never go     *)
(* below zero, and the height.                                             *)
THEOREM ContractTypeCorrect == ContractSpec => []ContractTypeOK
  <1>. QED  BY InitContractType, StepContractType, PTL DEF ContractSpec

-----------------------------------------------------------------------------
(* Payouts *)

(* Coins that leave the contract settle an entry.                          *)
LEMMA StepPaysOut ==
  ASSUME ContractTypeOK, [ContractNext]_contractVars,
         NEW t \in Tokens, funds'[t][Contract] < funds[t][Contract]
  PROVE  \E h \in Hashes : Settles(h, t)
  <1>0. funds \in [Tokens -> [Principals -> Nat]] /\ Contract \in Principals
    BY DEF ContractTypeOK, Principals
  <1>0a. funds[t][Contract] \in Nat
    BY <1>0
  <1>1. ~Tick /\ ~UNCHANGED contractVars
    BY <1>0a DEF Tick, contractVars
  <1>2. ASSUME NEW p \in Users, NEW h \in Hashes, NEW amount \in 1..MaxAmount, NEW u \in Tokens,
               NEW timelock \in 0..MaxClock, NEW q \in Users,
               LockToken(p, h, amount, timelock, q, u)
        PROVE  FALSE
    <2>0. /\ amount \in Nat /\ p \in Principals /\ p # Contract
          /\ funds[u][p] >= amount /\ funds' = Moved(funds, u, amount, p, Contract)
      BY <1>2, ContractAssumption DEF LockToken, CanTransfer, Principals
    <2>1. funds'[t][Contract] = IF t = u THEN funds[t][Contract] + amount ELSE funds[t][Contract]
      BY <1>0, <2>0, MovedFacts
    <2>. QED  BY <1>0a, <2>0, <2>1
  <1>3. ASSUME NEW p \in Users, NEW h \in Hashes, NEW amount \in 1..MaxAmount, NEW u \in Tokens,
               ClaimToken(p, h, amount, u)
        PROVE  Settles(h, t)
    <2>0. /\ amount \in Nat /\ p \in Principals /\ p # Contract
          /\ funds[u][Contract] >= amount /\ funds' = Moved(funds, u, amount, Contract, p)
      BY <1>3, ContractAssumption DEF ClaimToken, CanTransfer, Principals
    <2>1. funds'[t][Contract] = IF t = u THEN funds[t][Contract] - amount ELSE funds[t][Contract]
      BY <1>0, <2>0, MovedFacts
    <2>2. t = u /\ funds'[t][Contract] + amount = funds[t][Contract]
      BY <1>0a, <2>0, <2>1
    <2>. QED  BY <1>3, <2>2 DEF ClaimToken, MayClaim, Settles, ContractTypeOK
  <1>4. ASSUME NEW p \in Users, NEW h \in Hashes, NEW amount \in 1..MaxAmount, NEW u \in Tokens,
               NEW receiver \in Users, TriggerTransfer(p, h, amount, u, receiver)
        PROVE  Settles(h, t)
    <2>. DEFINE f == Moved(funds, u, amount, Contract, p)
    <2>1. amount \in Nat /\ p \in Principals /\ receiver \in Principals
          /\ Contract # p /\ receiver # p /\ Contract # receiver /\ funds[u][Contract] >= amount
      BY <1>4, ContractAssumption DEF TriggerTransfer, CanTransfer, Principals
    <2>2a. f \in [Tokens -> [Principals -> Nat]]
      BY <1>0, <2>1, MovedFacts
    <2>2b. f[u][p] = funds[u][p] + amount
      BY <1>0, <2>1, MovedAt
    <2>2c. f[t][Contract] = IF t = u THEN funds[t][Contract] - amount ELSE funds[t][Contract]
      BY <1>0, <2>1, MovedAt
    <2>3. f[u][p] >= amount
      BY <1>0, <2>1, <2>2b
    <2>4. Moved(f, u, amount, p, receiver)[t][Contract] = f[t][Contract]
      <3>. HIDE DEF f
      <3>. QED  BY <1>0, <2>1, <2>2a, <2>3, MovedAt
    <2>5. funds'[t][Contract] = f[t][Contract]
      BY <1>4, <2>4 DEF TriggerTransfer
    <2>6. t = u /\ funds'[t][Contract] + amount = funds[t][Contract]
      <3>. HIDE DEF f
      <3>. QED  BY <1>0a, <2>1, <2>2c, <2>5
    <2>. QED  BY <1>4, <2>6 DEF TriggerTransfer, MayClaim, Settles, ContractTypeOK
  <1>5. ASSUME NEW p \in Users, NEW h \in Hashes, NEW amount \in 1..MaxAmount, NEW u \in Tokens,
               TriggerFails(p, h, amount, u)
        PROVE  FALSE
    <2>1. funds' = funds
      BY <1>5 DEF TriggerFails
    <2>. QED  BY <1>0a, <2>1
  <1>6. ASSUME NEW p \in Users, NEW h \in Hashes, NEW u \in Tokens, RefundToken(p, h, u)
        PROVE  Settles(h, t)
    <2>0. swaps[h] # NoSwap /\ swaps[h].amount \in Nat
      BY <1>6, EntryFacts DEF RefundToken
    <2>0a. /\ p \in Principals /\ p # Contract /\ funds[u][Contract] >= swaps[h].amount
           /\ funds' = Moved(funds, u, swaps[h].amount, Contract, p)
      BY <1>6, ContractAssumption DEF RefundToken, CanTransfer, Principals
    <2>1. funds'[t][Contract] = IF t = u THEN funds[t][Contract] - swaps[h].amount
                                ELSE funds[t][Contract]
      BY <1>0, <2>0, <2>0a, MovedFacts
    <2>2. t = u /\ funds'[t][Contract] + swaps[h].amount = funds[t][Contract]
      BY <1>0a, <2>0, <2>1
    <2>. QED  BY <1>6, <2>2 DEF RefundToken, Settles, ContractTypeOK
  <1>. QED  BY <1>1, <1>2, <1>3, <1>4, <1>5, <1>6 DEF ContractNext

(* Coins leave the contract only for an entry that goes with them, in full *)
(* and to who may have them, whichever call takes them.                    *)
THEOREM PayoutsCorrect == ContractSpec => PaysOutEntries
  <1>1. ContractTypeOK /\ [ContractNext]_contractVars =>
          [\A t \in Tokens : funds'[t][Contract] < funds[t][Contract]
             => \E h \in Hashes : Settles(h, t)]_contractVars
    BY StepPaysOut
  <1>. QED  BY <1>1, ContractTypeCorrect, PTL DEF ContractSpec, PaysOutEntries

-----------------------------------------------------------------------------
(* The promise of a hash time lock *)

(* A call is a step of the promise, or does not touch the offers.          *)
LEMMA StepKeepsPromise ==
  ContractTypeOK /\ [ContractNext]_contractVars => [Promise!HtlcNext]_swaps
  <1>. SUFFICES ASSUME ContractTypeOK, [ContractNext]_contractVars, swaps' # swaps
                PROVE  Promise!HtlcNext
    OBVIOUS
  <1>. USE DEF Promise!HtlcNext, Promise!Lock, Promise!Claim, Promise!Refund
  <1>1. ~Tick /\ ~UNCHANGED contractVars
    BY DEF Tick, contractVars
  <1>2. ASSUME NEW p \in Users, NEW h \in Hashes, NEW amount \in 1..MaxAmount, NEW t \in Tokens,
               NEW timelock \in 0..MaxClock, NEW q \in Users,
               LockToken(p, h, amount, timelock, q, t)
        PROVE  Promise!Lock(h)
    <2>. DEFINE e == [amount |-> amount, timelock |-> timelock, initiator |-> p,
                      claimPrincipal |-> q, token |-> t]
    <2>1. e \in Entries /\ e.initiator = txSender' /\ swaps' = [swaps EXCEPT ![h] = e]
      BY <1>2 DEF LockToken, Entries
    <2>. QED  BY <1>2, <2>1 DEF LockToken
  <1>3. ASSUME NEW p \in Users, NEW h \in Hashes, NEW amount \in 1..MaxAmount, NEW t \in Tokens,
               MayClaim(p, h, amount, t), swaps' = [swaps EXCEPT ![h] = NoSwap], txSender' = p
        PROVE  Promise!Claim(h)
    BY <1>3 DEF MayClaim
  <1>4. ASSUME NEW p \in Users, NEW h \in Hashes, NEW amount \in 1..MaxAmount, NEW t \in Tokens
        PROVE  /\ ClaimToken(p, h, amount, t) => Promise!Claim(h)
               /\ \A receiver \in Users : TriggerTransfer(p, h, amount, t, receiver) => Promise!Claim(h)
               /\ ~TriggerFails(p, h, amount, t)
    BY <1>3 DEF ClaimToken, TriggerTransfer, TriggerFails
  <1>5. ASSUME NEW p \in Users, NEW h \in Hashes, NEW t \in Tokens, RefundToken(p, h, t)
        PROVE  Promise!Refund(h)
    BY <1>5 DEF RefundToken
  <1>. QED  BY <1>1, <1>2, <1>4, <1>5 DEF ContractNext

(* The contracts implement a hash time lock: terms nobody changes, one way *)
(* out for the claimer with the preimage, one for the initiator after the  *)
(* time lock.                                                              *)
THEOREM ContractImplementsHtlc == ContractSpec => KeepsHashLock
  <1>1. ContractInit => Promise!HtlcInit
    BY DEF ContractInit, Promise!HtlcInit
  <1>. QED  BY <1>1, StepKeepsPromise, ContractTypeCorrect, PTL
            DEF ContractSpec, KeepsHashLock, Promise!HtlcSpec

-----------------------------------------------------------------------------
(* Sums *)

(* Nothing is worth nothing.                                               *)
LEMMA TotalOfNothing ==
  ASSUME NEW f, DOMAIN f = {}
  PROVE  IsFiniteSet(CoinsOf(f)) /\ Total(f) = 0
  <1>1. CoinsOf(f) = {}
    BY DEF CoinsOf
  <1>. QED  BY <1>1, FS_EmptySet DEF Total

(* The coins after the first m, up to n more, are n.                       *)
Row(x, m, n) == {x} \X ((m + 1)..(m + n))

LEMMA RowOfCoins ==
  ASSUME NEW x, NEW m \in Nat, NEW n \in Nat
  PROVE  IsFiniteSet(Row(x, m, n)) /\ Cardinality(Row(x, m, n)) = n
  <1>. DEFINE A == {x}
              B == (m + 1)..(m + n)
  <1>1. IsFiniteSet(A) /\ Cardinality(A) = 1
    BY FS_Singleton
  <1>2. IsFiniteSet(B) /\ Cardinality(B) = n
    BY FS_Interval
  <1>3. Row(x, m, n) = A \X B
    BY DEF Row
  <1>. HIDE DEF A, B
  <1>4. IsFiniteSet(A \X B) /\ Cardinality(A \X B) = Cardinality(A) * Cardinality(B)
    BY <1>1, <1>2, FS_Product, Zenon
  <1>5. Cardinality(A \X B) = n
    BY <1>1, <1>2, <1>4
  <1>. QED  BY <1>3, <1>4, <1>5

(* If one amount grows by n, or comes to the others, the sum grows by n.   *)
LEMMA TotalGrows ==
  ASSUME NEW f, NEW g, NEW x, NEW m \in Nat, NEW n \in Nat,
         DOMAIN g = DOMAIN f \union {x}, g[x] = m + n,
         \/ x \in DOMAIN f /\ f[x] = m
         \/ x \notin DOMAIN f /\ m = 0,
         \A y \in DOMAIN f : y # x => g[y] = f[y],
         IsFiniteSet(CoinsOf(f)) \/ IsFiniteSet(CoinsOf(g))
  PROVE  /\ IsFiniteSet(CoinsOf(f)) /\ IsFiniteSet(CoinsOf(g))
         /\ Total(f) \in Nat /\ Total(g) = Total(f) + n
  <1>. DEFINE new == Row(x, m, n)
  <1>1. IsFiniteSet(new) /\ Cardinality(new) = n
    BY RowOfCoins
  <1>2. CoinsOf(g) = CoinsOf(f) \union new
    <2>1. 1..(m + n) = (1..m) \union ((m + 1)..(m + n))
      OBVIOUS
    <2>2. {x} \X (1..g[x]) = ({x} \X (1..m)) \union new
      BY <2>1 DEF Row
    <2>3. CASE x \in DOMAIN f
      BY <2>2, <2>3 DEF CoinsOf
    <2>4. CASE x \notin DOMAIN f
      <3>1. {x} \X (1..g[x]) = new
        BY <2>4, <2>2 DEF Row
      <3>. HIDE DEF new
      <3>. QED  BY <2>4, <3>1 DEF CoinsOf
    <2>. QED  BY <2>3, <2>4
  <1>3. CoinsOf(f) \intersect new = {}
    BY DEF CoinsOf, Row
  <1>. HIDE DEF new
  <1>4. IsFiniteSet(CoinsOf(f)) /\ IsFiniteSet(CoinsOf(g))
    <2>1. CASE IsFiniteSet(CoinsOf(f))
      BY <1>1, <1>2, <2>1, FS_Union
    <2>2. CASE IsFiniteSet(CoinsOf(g))
      BY <1>2, <2>2, FS_Subset
    <2>. QED  BY <2>1, <2>2
  <1>5. Cardinality(CoinsOf(f) \union new)
          = Cardinality(CoinsOf(f)) + Cardinality(new) - Cardinality(CoinsOf(f) \intersect new)
    BY <1>1, <1>4, FS_Union
  <1>6. Cardinality(CoinsOf(f)) \in Nat /\ Cardinality(CoinsOf(f) \intersect new) = 0
    BY <1>3, <1>4, FS_CardinalityType, FS_EmptySet
  <1>7. Cardinality(CoinsOf(g)) = Cardinality(CoinsOf(f)) + n
    BY <1>1, <1>2, <1>5, <1>6
  <1>. QED  BY <1>4, <1>6, <1>7 DEF Total

-----------------------------------------------------------------------------
(* Solvency *)

(* What an entry promises of a token.                                      *)
Worth(e, t) == IF e.token = t THEN e.amount ELSE 0

(* What the entries of a map promise; Promised is that of the contract's.  *)
PromisedOf(map, t) ==
  [h \in {h \in Hashes : map[h] # NoSwap /\ map[h].token = t} |-> map[h].amount]

(* An entry that is added, or seen from the other side removed, makes the  *)
(* difference of what it is worth.                                         *)
LEMMA EntryCounts ==
  ASSUME NEW a \in [Hashes -> Entries \union {NoSwap}], NEW h \in Hashes, NEW e \in Entries,
         a[h] = NoSwap, NEW b \in [Hashes -> Entries \union {NoSwap}], b[h] = e,
         \A x \in Hashes : x # h => b[x] = a[x], NEW t \in Tokens,
         IsFiniteSet(CoinsOf(PromisedOf(a, t))) \/ IsFiniteSet(CoinsOf(PromisedOf(b, t)))
  PROVE  /\ IsFiniteSet(CoinsOf(PromisedOf(a, t))) /\ IsFiniteSet(CoinsOf(PromisedOf(b, t)))
         /\ Total(PromisedOf(a, t)) \in Nat
         /\ Total(PromisedOf(b, t)) = Total(PromisedOf(a, t)) + Worth(e, t)
  <1>. DEFINE f == PromisedOf(a, t)
              g == PromisedOf(b, t)
  <1>0. e # NoSwap /\ e.amount \in Nat /\ e.token \in Tokens
    BY ContractAssumption DEF Entries
  <1>3. IsFiniteSet(CoinsOf(f)) \/ IsFiniteSet(CoinsOf(g))
    OBVIOUS
  <1>1. CASE e.token = t
    <2>1. DOMAIN g = DOMAIN f \union {h} /\ h \notin DOMAIN f
      BY <1>0, <1>1 DEF PromisedOf
    <2>2. g[h] = 0 + e.amount /\ \A y \in DOMAIN f : y # h => g[y] = f[y]
      BY <1>0, <1>1 DEF PromisedOf
    <2>3. Worth(e, t) = e.amount
      BY <1>1 DEF Worth
    <2>4. 0 \in Nat /\ h \notin DOMAIN f
      BY <2>1
    <2>. HIDE DEF f, g
    <2>5. /\ IsFiniteSet(CoinsOf(f)) /\ IsFiniteSet(CoinsOf(g))
          /\ Total(f) \in Nat /\ Total(g) = Total(f) + e.amount
      BY <1>0, <1>3, <2>1, <2>2, <2>4, TotalGrows
    <2>. QED  BY <2>3, <2>5 DEF f, g
  <1>2. CASE e.token # t
    <2>1. f = g
      BY <1>0, <1>2 DEF PromisedOf
    <2>2. Total(f) \in Nat
      BY <2>1, FS_CardinalityType DEF Total
    <2>3. Worth(e, t) = 0
      BY <1>2 DEF Worth
    <2>. HIDE DEF f, g
    <2>4. Total(g) = Total(f) + 0
      BY <2>1, <2>2
    <2>. QED  BY <2>1, <2>2, <2>3, <2>4 DEF f, g
  <1>. QED  BY <1>1, <1>2

(* What a call does to the entries and to the contract's balances.         *)
Adds(h, e) ==
  /\ swaps[h] = NoSwap /\ swaps' = [swaps EXCEPT ![h] = e]
  /\ \A t \in Tokens : funds'[t][Contract] = funds[t][Contract] + Worth(e, t)
Removes(h) ==
  /\ swaps[h] \in Entries /\ swaps' = [swaps EXCEPT ![h] = NoSwap]
  /\ \A t \in Tokens : funds'[t][Contract] + Worth(swaps[h], t) = funds[t][Contract]
Keeps == UNCHANGED swaps /\ \A t \in Tokens : funds'[t][Contract] = funds[t][Contract]

LEMMA StepEntries ==
  ASSUME ContractTypeOK, [ContractNext]_contractVars
  PROVE  \/ Keeps
         \/ \E h \in Hashes, e \in Entries : Adds(h, e)
         \/ \E h \in Hashes : Removes(h)
  <1>0. funds \in [Tokens -> [Principals -> Nat]] /\ Contract \in Principals
    BY DEF ContractTypeOK, Principals
  <1>0a. \A t \in Tokens : funds[t][Contract] \in Nat
    BY <1>0
  <1>1. ASSUME Tick \/ UNCHANGED contractVars PROVE Keeps
    BY <1>1 DEF Tick, contractVars, Keeps
  <1>2. ASSUME NEW p \in Users, NEW h \in Hashes, NEW amount \in 1..MaxAmount, NEW u \in Tokens,
               NEW timelock \in 0..MaxClock, NEW q \in Users,
               LockToken(p, h, amount, timelock, q, u)
        PROVE  \E e \in Entries : Adds(h, e)
    <2>. DEFINE e == [amount |-> amount, timelock |-> timelock, initiator |-> p,
                      claimPrincipal |-> q, token |-> u]
    <2>1. /\ amount \in Nat /\ p \in Principals /\ p # Contract
          /\ funds[u][p] >= amount /\ funds' = Moved(funds, u, amount, p, Contract)
      BY <1>2, ContractAssumption DEF LockToken, CanTransfer, Principals
    <2>2. \A t \in Tokens : funds'[t][Contract]
            = IF t = u THEN funds[t][Contract] + amount ELSE funds[t][Contract]
      BY <1>0, <2>1, MovedFacts
    <2>3. e \in Entries /\ e.amount = amount /\ e.token = u
      BY DEF Entries
    <2>4. swaps[h] = NoSwap /\ swaps' = [swaps EXCEPT ![h] = e]
      BY <1>2 DEF LockToken
    <2>. HIDE DEF e
    <2>5. \A t \in Tokens : funds'[t][Contract] = funds[t][Contract] + Worth(e, t)
      BY <1>0a, <2>1, <2>2, <2>3 DEF Worth
    <2>. QED  BY <2>3, <2>4, <2>5 DEF Adds
  <1>3. ASSUME NEW h \in Hashes, NEW u \in Tokens, NEW amount \in Nat,
               swaps[h] # NoSwap, amount = swaps[h].amount, u = swaps[h].token,
               swaps' = [swaps EXCEPT ![h] = NoSwap],
               \A t \in Tokens : funds'[t][Contract]
                 = IF t = u THEN funds[t][Contract] - amount ELSE funds[t][Contract]
        PROVE  Removes(h)
    <2>1. swaps[h] \in Entries
      BY <1>3, EntryFacts
    <2>2. \A t \in Tokens : funds'[t][Contract] + Worth(swaps[h], t) = funds[t][Contract]
      BY <1>0a, <1>3 DEF Worth
    <2>. QED  BY <1>3, <2>1, <2>2 DEF Removes
  <1>4. ASSUME NEW p \in Users, NEW h \in Hashes, NEW amount \in 1..MaxAmount, NEW u \in Tokens,
               ClaimToken(p, h, amount, u)
        PROVE  Removes(h)
    <2>1. /\ amount \in Nat /\ p \in Principals /\ Contract # p
          /\ funds[u][Contract] >= amount /\ funds' = Moved(funds, u, amount, Contract, p)
      BY <1>4, ContractAssumption DEF ClaimToken, CanTransfer, Principals
    <2>2. \A t \in Tokens : funds'[t][Contract]
            = IF t = u THEN funds[t][Contract] - amount ELSE funds[t][Contract]
      <3>1. \A t \in Tokens : Moved(funds, u, amount, Contract, p)[t][Contract]
              = IF t = u THEN funds[t][Contract] - amount ELSE funds[t][Contract]
        BY ONLY <1>0, <2>1, u \in Tokens, MovedAt
      <3>. QED  BY ONLY <2>1, <3>1
    <2>. QED  BY <1>3, <1>4, <2>1, <2>2 DEF ClaimToken, MayClaim
  <1>5. ASSUME NEW p \in Users, NEW h \in Hashes, NEW amount \in 1..MaxAmount, NEW u \in Tokens,
               NEW receiver \in Users, TriggerTransfer(p, h, amount, u, receiver)
        PROVE  Removes(h)
    <2>. DEFINE f == Moved(funds, u, amount, Contract, p)
    <2>1. amount \in Nat /\ p \in Principals /\ receiver \in Principals
          /\ Contract # p /\ receiver # p /\ Contract # receiver /\ funds[u][Contract] >= amount
      BY <1>5, ContractAssumption DEF TriggerTransfer, CanTransfer, Principals
    <2>2. f \in [Tokens -> [Principals -> Nat]]
      BY <1>0, <2>1, MovedFacts
    <2>3. f[u][p] = funds[u][p] + amount
      BY <1>0, <2>1, MovedAt
    <2>4. \A t \in Tokens : f[t][Contract]
            = IF t = u THEN funds[t][Contract] - amount ELSE funds[t][Contract]
      BY <1>0, <2>1, MovedAt
    <2>5. f[u][p] >= amount
      BY <1>0, <2>1, <2>3
    <2>6. ASSUME NEW t \in Tokens
          PROVE  Moved(f, u, amount, p, receiver)[t][Contract] = f[t][Contract]
      <3>1. /\ u \in Tokens /\ t \in Tokens /\ amount \in Nat /\ f[u][p] >= amount
            /\ p \in Principals /\ receiver \in Principals /\ Contract \in Principals
            /\ p # receiver /\ Contract # p /\ Contract # receiver
        BY <1>0, <2>1, <2>5
      <3>. HIDE DEF f
      <3>. QED  BY ONLY <2>2, <3>1, MovedElsewhere, SMTT(30)
    <2>7. \A t \in Tokens : funds'[t][Contract] = f[t][Contract]
      BY <1>5, <2>6 DEF TriggerTransfer
    <2>8. \A t \in Tokens : funds'[t][Contract]
            = IF t = u THEN funds[t][Contract] - amount ELSE funds[t][Contract]
      <3>. HIDE DEF f
      <3>. QED  BY <2>4, <2>7
    <2>. HIDE DEF f
    <2>. QED  BY <1>3, <1>5, <2>1, <2>8 DEF TriggerTransfer, MayClaim
  <1>6. ASSUME NEW p \in Users, NEW h \in Hashes, NEW amount \in 1..MaxAmount, NEW u \in Tokens,
               TriggerFails(p, h, amount, u)
        PROVE  Keeps
    BY <1>6 DEF TriggerFails, Keeps
  <1>7. ASSUME NEW p \in Users, NEW h \in Hashes, NEW u \in Tokens, RefundToken(p, h, u)
        PROVE  Removes(h)
    <2>1. swaps[h] # NoSwap /\ swaps[h].amount \in Nat
      BY <1>7, EntryFacts DEF RefundToken
    <2>2. /\ p \in Principals /\ p # Contract /\ funds[u][Contract] >= swaps[h].amount
          /\ funds' = Moved(funds, u, swaps[h].amount, Contract, p)
      BY <1>7, ContractAssumption DEF RefundToken, CanTransfer, Principals
    <2>3. \A t \in Tokens : funds'[t][Contract]
            = IF t = u THEN funds[t][Contract] - swaps[h].amount ELSE funds[t][Contract]
      BY <1>0, <2>1, <2>2, MovedFacts
    <2>. QED  BY <1>3, <1>7, <2>1, <2>3 DEF RefundToken
  <1>. QED  BY <1>1, <1>2, <1>4, <1>5, <1>6, <1>7 DEF ContractNext

(* Solvent, with the promises finite: so many that a sum is a number.      *)
SolventInv ==
  \A t \in Tokens :
    /\ IsFiniteSet(CoinsOf(PromisedOf(swaps, t)))
    /\ funds[t][Contract] = Total(PromisedOf(swaps, t))

LEMMA InitSolvent == ContractInit => SolventInv
  <1>1. SUFFICES ASSUME ContractInit, NEW t \in Tokens
                 PROVE  /\ IsFiniteSet(CoinsOf(PromisedOf(swaps, t)))
                        /\ funds[t][Contract] = Total(PromisedOf(swaps, t))
    BY DEF SolventInv
  <1>2. DOMAIN PromisedOf(swaps, t) = {}
    BY <1>1 DEF ContractInit, PromisedOf
  <1>3. funds[t][Contract] = 0
    BY <1>1 DEF ContractInit
  <1>. QED  BY <1>2, <1>3, TotalOfNothing

LEMMA StepSolvent ==
  ContractTypeOK /\ SolventInv /\ [ContractNext]_contractVars => SolventInv'
  <1>. SUFFICES ASSUME ContractTypeOK, SolventInv, [ContractNext]_contractVars, NEW t \in Tokens
                PROVE  /\ IsFiniteSet(CoinsOf(PromisedOf(swaps', t)))
                       /\ funds'[t][Contract] = Total(PromisedOf(swaps', t))
    BY DEF SolventInv
  <1>0. /\ swaps \in [Hashes -> Entries \union {NoSwap}]
        /\ swaps' \in [Hashes -> Entries \union {NoSwap}]
    BY StepContractType DEF ContractTypeOK
  <1>1. /\ IsFiniteSet(CoinsOf(PromisedOf(swaps, t)))
        /\ funds[t][Contract] = Total(PromisedOf(swaps, t))
    BY DEF SolventInv
  <1>2. CASE Keeps
    BY <1>1, <1>2 DEF Keeps
  <1>3. ASSUME NEW h \in Hashes, NEW e \in Entries, Adds(h, e)
        PROVE  /\ IsFiniteSet(CoinsOf(PromisedOf(swaps', t)))
               /\ funds'[t][Contract] = Total(PromisedOf(swaps', t))
    <2>1. /\ IsFiniteSet(CoinsOf(PromisedOf(swaps', t)))
          /\ Total(PromisedOf(swaps', t)) = Total(PromisedOf(swaps, t)) + Worth(e, t)
      <3>1. swaps[h] = NoSwap /\ swaps' = [swaps EXCEPT ![h] = e]
        BY <1>3 DEF Adds
      <3>2. swaps'[h] = e /\ \A x \in Hashes : x # h => swaps'[x] = swaps[x]
        BY <1>0, <1>3, <3>1
      <3>3. swaps[h] = NoSwap
        BY <3>1
      <3>. QED  BY <1>0, <1>1, <1>3, <3>2, <3>3, EntryCounts
    <2>. QED  BY <1>1, <1>3, <2>1 DEF Adds
  <1>4. ASSUME NEW h \in Hashes, Removes(h)
        PROVE  /\ IsFiniteSet(CoinsOf(PromisedOf(swaps', t)))
               /\ funds'[t][Contract] = Total(PromisedOf(swaps', t))
    <2>1. /\ swaps'[h] = NoSwap /\ swaps[h] \in Entries
          /\ \A x \in Hashes : x # h => swaps[x] = swaps'[x]
      BY <1>0, <1>4 DEF Removes
    <2>2. /\ IsFiniteSet(CoinsOf(PromisedOf(swaps', t))) /\ Total(PromisedOf(swaps', t)) \in Nat
          /\ Total(PromisedOf(swaps, t)) = Total(PromisedOf(swaps', t)) + Worth(swaps[h], t)
      BY <1>0, <1>1, <2>1, EntryCounts
    <2>3. Worth(swaps[h], t) \in Nat
      BY <2>1, ContractAssumption DEF Entries, Worth
    <2>4. funds'[t][Contract] + Worth(swaps[h], t) = funds[t][Contract] /\ funds'[t][Contract] \in Nat
      BY <1>4, StepContractType, ZenonT(60) DEF Removes, ContractTypeOK
    <2>. QED  BY <1>1, <2>2, <2>3, <2>4
  <1>. QED  BY <1>2, <1>3, <1>4, StepEntries

(* The contract holds what its entries promise, whatever calls are made.   *)
THEOREM ContractIsSolvent == ContractSpec => []Solvent
  <1>1. SolventInv => Solvent
    BY DEF SolventInv, Solvent, Promised, PromisedOf
  <1>. QED  BY <1>1, InitSolvent, StepSolvent, ContractTypeCorrect, PTL DEF ContractSpec
=============================================================================
