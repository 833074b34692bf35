------------------------- MODULE StacksSwap_proofs -------------------------
(***************************************************************************)
(* Theorems of StacksSwap for every set of swaps, timeout heights and      *)
(* bounds.                                                                 *)
(***************************************************************************)
EXTENDS StacksSwap, FiniteSetTheorems, FunctionTheorems, SequenceTheorems, TLAPS

-----------------------------------------------------------------------------
(* Sequences and numbers *)

(* A finite set, in some order.                                            *)
LEMMA ListOfSet ==
  ASSUME NEW S, IsFiniteSet(S)
  PROVE  /\ SetToSeq(S) \in Seq(S)
         /\ \A i \in 1..Len(SetToSeq(S)) : SetToSeq(S)[i] \in S
  <1>1. ExistsBijection(1..Cardinality(S), S) /\ Cardinality(S) \in Nat
    BY FS_CardinalityType
  <1>2. PICK f \in [1..Cardinality(S) -> S] : IsInjective(f)
    BY <1>1 DEF ExistsBijection, Bijection, Injection
  <1>3. SetToSeq(S) \in [1..Cardinality(S) -> S]
    BY <1>2 DEF SetToSeq
  <1>. QED  BY <1>1, <1>3

(* Jobs made of the swaps of a finite set, in some order.                  *)
LEMMA ListOfJobs ==
  ASSUME NEW kind \in JobKinds, NEW S \in SUBSET StxSwaps
  PROVE  /\ JobsFor(kind, S) \in Seq(Jobs)
         /\ \A i \in 1..Len(JobsFor(kind, S)) : \E s \in S : JobsFor(kind, S)[i] = Job(kind, s, TRUE)
  <1>. DEFINE q == JobsFor(kind, S)
              T == {Job(kind, s, TRUE) : s \in S}
              f == [s \in S |-> Job(kind, s, TRUE)]
  <1>1. IsFiniteSet(S)
    BY FS_Subset, StacksAssumption
  <1>2. f \in Bijection(S, T)
    <2>1. f \in [S -> T]
      OBVIOUS
    <2>2. \A a, b \in S : f[a] = f[b] => a = b
      BY DEF Job
    <2>3. \A t \in T : \E s \in S : f[s] = t
      OBVIOUS
    <2>. QED  BY <2>1, <2>2, <2>3 DEF Bijection, Injection, Surjection, IsInjective
  <1>3. IsFiniteSet(T)
    BY <1>1, <1>2, FS_Bijection DEF ExistsBijection
  <1>4. q \in Seq(T) /\ \A i \in 1..Len(q) : q[i] \in T
    <2>1. q = SetToSeq(T)
      BY DEF JobsFor
    <2>. HIDE DEF q, T
    <2>. QED  BY <1>3, <2>1, ListOfSet
  <1>5. ASSUME NEW j \in T PROVE j \in Jobs
    <2>1. PICK s \in S : j = Job(kind, s, TRUE)
      OBVIOUS
    <2>. QED  BY <2>1 DEF Job, Jobs
  <1>6. q \in Seq(Jobs)
    <2>. HIDE DEF T
    <2>. QED  BY <1>4, <1>5
  <1>. QED  BY <1>4, <1>6

-----------------------------------------------------------------------------
(* The queues *)

LockTypeOK == queue \in [Locks -> Seq(Jobs)] /\ at \in [Locks -> Awaits]

(* The handler that holds a lock is the first of its queue.                *)
LEMMA HeadFacts ==
  ASSUME LockTypeOK, NEW l \in Locks, queue[l] # << >>
  PROVE  /\ Len(queue[l]) \in Nat /\ 1 \in 1..Len(queue[l])
         /\ HeadOf(l) = queue[l][1] /\ HeadOf(l) \in Jobs /\ HeadOf(l) \in Queued(l)
         /\ HeadOf(l).swap \in StxSwaps /\ HeadOf(l).kind \in JobKinds
         /\ HeadOf(l).sent \in BOOLEAN
  <1>1. queue[l] \in Seq(Jobs)
    BY DEF LockTypeOK
  <1>2. Len(queue[l]) \in Nat /\ 1 \in 1..Len(queue[l])
    BY <1>1
  <1>3. HeadOf(l) = queue[l][1] /\ HeadOf(l) \in Jobs
    BY <1>1 DEF HeadOf
  <1>. QED  BY <1>2, <1>3 DEF Queued, Jobs

LEMMA AppendType ==
  ASSUME NEW q \in Seq(Jobs), NEW j \in Jobs
  PROVE  Append(q, j) \in Seq(Jobs)
  OBVIOUS

LEMMA NewQueue ==
  ASSUME LockTypeOK, NEW l \in Locks, NEW q \in Seq(Jobs), queue' = [queue EXCEPT ![l] = q]
  PROVE  queue' \in [Locks -> Seq(Jobs)] /\ queue'[l] = q
  BY DEF LockTypeOK

(* A new job waits behind the others.                                      *)
Joined(s, j) ==
  LET l == LockOf(s) IN
    /\ queue'[l] # << >> /\ Len(queue'[l]) = Len(queue[l]) + 1
    /\ queue'[l][Len(queue[l]) + 1] = j
    /\ \A i \in 1..Len(queue[l]) : queue'[l][i] = queue[l][i]
    /\ \A m \in Locks : queue[m] # << >> => HeadOf(m)' = HeadOf(m) /\ queue'[m] # << >>
    /\ \A m \in Locks : m # l => queue'[m] = queue[m]
    /\ \A m \in Locks : Queued(m)' \subseteq Queued(m) \union {j}
    /\ \A m \in Locks : m # l => Queued(m)' = Queued(m)

LEMMA EnqueueFacts ==
  ASSUME LockTypeOK, NEW kind \in JobKinds, NEW s \in StxSwaps, NEW sent \in BOOLEAN,
         Enqueue(kind, s, sent)
  PROVE  /\ queue' \in [Locks -> Seq(Jobs)] /\ LockOf(s) \in Locks
         /\ Joined(s, Job(kind, s, sent))
  <1>. DEFINE l == LockOf(s)
              j == Job(kind, s, sent)
  <1>1. l \in Locks /\ j \in Jobs
    BY DEF LockOf, Locks, Job, Jobs
  <1>2. queue[l] \in Seq(Jobs) /\ queue'[l] = Append(queue[l], j)
    BY <1>1 DEF Enqueue, LockTypeOK
  <1>3. \A m \in Locks : m # l => queue'[m] = queue[m]
    BY <1>1 DEF Enqueue, LockTypeOK
  <1>4. queue' \in [Locks -> Seq(Jobs)]
    BY <1>1, <1>2 DEF Enqueue, LockTypeOK
  <1>5. /\ queue'[l] # << >> /\ Len(queue'[l]) = Len(queue[l]) + 1
        /\ queue'[l][Len(queue[l]) + 1] = j
        /\ \A i \in 1..Len(queue[l]) : queue'[l][i] = queue[l][i]
    BY <1>1, <1>2
  <1>6. ASSUME NEW m \in Locks, queue[m] # << >>
        PROVE  HeadOf(m)' = HeadOf(m) /\ queue'[m] # << >>
    <2>1. CASE m = l
      BY <2>1, <1>1, <1>2, <1>6 DEF HeadOf
    <2>2. CASE m # l
      BY <2>2, <1>3, <1>6 DEF HeadOf
    <2>. QED  BY <2>1, <2>2
  <1>7. \A m \in Locks : m # l => Queued(m)' = Queued(m)
    BY <1>3 DEF Queued
  <1>8. Queued(l)' \subseteq Queued(l) \union {j}
    <2>. SUFFICES ASSUME NEW i \in 1..Len(queue'[l]) PROVE queue'[l][i] \in Queued(l) \union {j}
      BY DEF Queued
    <2>1. i \in 1..Len(queue[l]) \/ i = Len(queue[l]) + 1
      BY <1>2, <1>5
    <2>. QED  BY <2>1, <1>5 DEF Queued
  <1>. HIDE DEF l, j
  <1>9. \A m \in Locks : Queued(m)' \subseteq Queued(m) \union {j}
    BY <1>7, <1>8
  <1>. QED  BY <1>1, <1>3, <1>4, <1>5, <1>6, <1>7, <1>9 DEF Joined, l, j

(* Whoever gives a lock back takes the first job, or the first few, along. *)
Left(l) ==
  /\ at'[l] = "start"
  /\ \E k \in 1..Len(queue[l]) :
       /\ Len(queue'[l]) = Len(queue[l]) - k
       /\ \A i \in 1..Len(queue'[l]) : queue'[l][i] = queue[l][i + k]
  /\ \A m \in Locks : m # l => queue'[m] = queue[m] /\ at'[m] = at[m] /\ HeadOf(m)' = HeadOf(m)
  /\ \A m \in Locks : Queued(m)' \subseteq Queued(m)

LEMMA ReleaseFacts ==
  ASSUME LockTypeOK, NEW l \in Locks, queue[l] # << >>, Release(l) \/ Throw(l)
  PROVE  LockTypeOK' /\ Left(l)
  <1>1. queue[l] \in Seq(Jobs) /\ Len(queue[l]) \in Nat /\ Len(queue[l]) >= 1
    BY HeadFacts DEF LockTypeOK
  <1>2. PICK n \in 2..(Len(queue[l]) + 1) :
          queue' = [queue EXCEPT ![l] = SubSeq(queue[l], n, Len(queue[l]))]
    <2>1. CASE Release(l) \/ Head(queue[l]).kind # "retry"
      <3>1. Tail(queue[l]) = SubSeq(queue[l], 2, Len(queue[l]))
        BY <1>1, TailIsSubSeq
      <3>2. queue' = [queue EXCEPT ![l] = Tail(queue[l])]
        <4>1. CASE Release(l)
          BY <4>1 DEF Release
        <4>2. CASE ~Release(l) /\ Head(queue[l]).kind # "retry"
          BY <4>2 DEF Throw
        <4>. QED  BY <2>1, <4>1, <4>2
      <3>3. queue' = [queue EXCEPT ![l] = SubSeq(queue[l], 2, Len(queue[l]))]
        BY <3>1, <3>2, Zenon
      <3>4. 2 \in 2..(Len(queue[l]) + 1)
        BY <1>1
      <3>. QED  BY <3>3, <3>4, Zenon
    <2>2. CASE Throw(l) /\ Head(queue[l]).kind = "retry"
      <3>1. IsFiniteSet(1..Len(queue[l])) /\ Cardinality(1..Len(queue[l])) = Len(queue[l])
        BY <1>1, FS_Interval, SMTT(30)
      <3>2. IsFiniteSet(Retries(l)) /\ Cardinality(Retries(l)) <= Len(queue[l])
        BY <3>1, FS_Subset DEF Retries
      <3>3. 1 \in Retries(l)
        BY <1>1, <2>2 DEF Retries
      <3>4. Cardinality(Retries(l)) \in Nat /\ Cardinality(Retries(l)) # 0
        BY <3>2, <3>3, FS_EmptySet, FS_CardinalityType
      <3>5. queue' = [queue EXCEPT ![l] = SubSeq(queue[l], Cardinality(Retries(l)) + 1, Len(queue[l]))]
        BY <2>2 DEF Throw
      <3>6. Cardinality(Retries(l)) + 1 \in 2..(Len(queue[l]) + 1)
        BY <1>1, <3>2, <3>4
      <3>. QED  BY <3>5, <3>6, Zenon
    <2>. QED  BY <2>1, <2>2
  <1>. DEFINE k == n - 1
  <1>3. /\ queue'[l] \in Seq(Jobs) /\ Len(queue'[l]) = Len(queue[l]) - k
        /\ \A i \in 1..Len(queue'[l]) : queue'[l][i] = queue[l][i + k]
    <2>1. queue'[l] = SubSeq(queue[l], n, Len(queue[l]))
      BY <1>2 DEF LockTypeOK
    <2>2. \A i \in n..Len(queue[l]) : queue[l][i] \in Jobs
      BY <1>1
    <2>. QED  BY <1>1, <2>1, <2>2, SubSeqProperties, SMTT(30)
  <1>4. at' = [at EXCEPT ![l] = "start"]
    BY DEF Release, Throw
  <1>5. LockTypeOK'
    <2>1. queue' \in [Locks -> Seq(Jobs)]
      BY <1>2, <1>3 DEF LockTypeOK
    <2>. QED  BY <1>4, <2>1 DEF LockTypeOK, Awaits
  <1>6. at'[l] = "start" /\ \A m \in Locks : m # l => queue'[m] = queue[m] /\ at'[m] = at[m]
    BY <1>2, <1>4 DEF LockTypeOK
  <1>7. Queued(l)' \subseteq Queued(l)
    <2>. SUFFICES ASSUME NEW i \in 1..Len(queue'[l]) PROVE queue'[l][i] \in Queued(l)
      BY DEF Queued
    <2>1. i + k \in 1..Len(queue[l])
      BY <1>1, <1>3
    <2>. QED  BY <2>1, <1>3 DEF Queued
  <1>8. \A m \in Locks : Queued(m)' \subseteq Queued(m)
    BY <1>6, <1>7, ZenonT(60) DEF Queued
  <1>9. k \in 1..Len(queue[l])
    BY <1>1
  <1>. HIDE DEF k
  <1>. QED  BY <1>3, <1>5, <1>6, <1>8, <1>9 DEF Left, HeadOf

(* The handler goes on to its next await.                                  *)
LEMMA GotoFacts ==
  ASSUME LockTypeOK, NEW l \in Locks, NEW await \in Awaits, Goto(l, await)
  PROVE  /\ LockTypeOK' /\ at'[l] = await
         /\ \A m \in Locks : m # l => at'[m] = at[m]
         /\ \A m \in Locks : queue'[m] = queue[m] /\ Queued(m)' = Queued(m) /\ HeadOf(m)' = HeadOf(m)
  BY DEF Goto, LockTypeOK, Queued, HeadOf

-----------------------------------------------------------------------------
(* Types *)

LEMMA LockTypes == StacksTypeOK => LockTypeOK
  BY DEF StacksTypeOK, LockTypeOK

(* The bound on mishaps.                                                   *)
LEMMA RoomFacts ==
  ASSUME StacksTypeOK, Room
  PROVE  mishaps + 1 \in 0..MaxLoad
  <1>1. IsFiniteSet(Begun) /\ IsFiniteSet(Foreign)
    <2>1. Begun \subseteq StxSwaps /\ Foreign \subseteq StxSwaps
      BY DEF Begun, Foreign, StxSwaps
    <2>. QED  BY <2>1, FS_Subset, StacksAssumption
  <1>2. Cardinality(Begun) \in Nat /\ Cardinality(Foreign) \in Nat
    BY <1>1, FS_CardinalityType
  <1>. QED  BY <1>2, StacksAssumption DEF Room, Load, StacksTypeOK

(* Lookup tables and events.                                               *)
LEMMA TableFacts ==
  /\ \A op \in Ops : ResultOf[op] \in {"locked", "claimed", "refunded"}
  /\ \A op \in Ops : Unanswered[op] \in Awaits
  /\ \A kind \in JobKinds : OpOf(kind) \in Ops
  /\ \A op \in Ops, s \in StxSwaps : EventsOf(op, s) \subseteq Notes
  <1>1. /\ \A op \in Ops : ResultOf[op] \in {"locked", "claimed", "refunded"}
        /\ \A op \in Ops : Unanswered[op] \in Awaits
    BY DEF Ops, ResultOf, Unanswered, Awaits
  <1>2. \A kind \in JobKinds : OpOf(kind) \in Ops
    BY DEF Ops, OpOf
  <1>3. \A op \in Ops, s \in StxSwaps : EventsOf(op, s) \subseteq Notes
    <2>. SUFFICES ASSUME NEW op \in Ops, NEW s \in StxSwaps, NEW e \in EventsOf(op, s)
                  PROVE  e \in Notes
      OBVIOUS
    <2>1. op \in {"lock", "claim"} /\ e = [event |-> op, swap |-> s, found |-> FALSE]
      BY DEF EventsOf
    <2>. QED  BY <2>1 DEF Notes
  <1>. QED  BY <1>1, <1>2, <1>3

(* Users, LND and the chain.                                               *)
LEMMA OutsideType ==
  ASSUME StacksTypeOK, Outside
  PROVE  StacksTypeOK'
  <1>. USE DEF StacksTypeOK, db, chain, node, acct, lock
  <1>1. ASSUME NEW c \in mempool, ExecuteCall(c) PROVE StacksTypeOK'
    <2>1. c \in Calls /\ c.op \in Ops /\ c.swap \in StxSwaps /\ c.nonce \in Nonces
      BY DEF Calls
    <2>2. executed' \in 1..(MaxNonce + 1) /\ mempool' \subseteq Calls
      BY <1>1, <2>1, StacksAssumption DEF ExecuteCall, Nonces
    <2>3. CASE Succeeds(c.op, c.swap)
      <3>1. SetEntry(c.swap, ResultOf[c.op])
        BY <1>1, <2>3 DEF ExecuteCall
      <3>2. /\ entry' \in [StxSwaps -> {"none", "locked", "claimed", "refunded"}]
            /\ past' \in [StxSwaps -> SUBSET {"locked", "claimed", "refunded"}]
        <4>1. ResultOf[c.op] \in {"locked", "claimed", "refunded"}
          BY <2>1, TableFacts
        <4>. QED  BY <2>1, <3>1, <4>1 DEF SetEntry
      <3>3. lockedBy' \in [StxSwaps -> 0..MaxNonce]
        <4>1. /\ lockedBy' = [lockedBy EXCEPT ![c.swap] = lockedBy'[c.swap]]
              /\ lockedBy'[c.swap] \in {c.nonce, lockedBy[c.swap]}
          BY <1>1, <2>1, <2>3 DEF ExecuteCall
        <4>2. lockedBy'[c.swap] \in 0..MaxNonce
          BY <2>1, <4>1 DEF Nonces
        <4>. QED  BY <4>1, <4>2, Zenon
      <3>4. notes' \subseteq Notes /\ aborted' = aborted
        BY <1>1, <2>1, <2>3, TableFacts DEF ExecuteCall
      <3>. QED  BY <1>1, <2>2, <3>2, <3>3, <3>4 DEF ExecuteCall
    <2>4. CASE ~Succeeds(c.op, c.swap)
      BY <1>1, <2>1, <2>2, <2>4 DEF ExecuteCall
    <2>. QED  BY <2>3, <2>4
  <1>2. ASSUME MineBlock PROVE StacksTypeOK'
    BY <1>2, StacksAssumption DEF MineBlock
  <1>3. ASSUME NEW s \in StxSwaps, PayHoldInvoice(s) PROVE StacksTypeOK'
    BY <1>3 DEF PayHoldInvoice
  <1>4. ASSUME NEW s \in StxSwaps, UserClaims(s) PROVE StacksTypeOK'
    <2>1. EventsOf("claim", s) \subseteq Notes
      BY TableFacts DEF Ops
    <2>. QED  BY <1>4, <2>1 DEF UserClaims, SetEntry
  <1>5. ASSUME NEW s \in StxSwaps, UserRefunds(s) PROVE StacksTypeOK'
    BY <1>5 DEF UserRefunds, SetEntry
  <1>6. ASSUME NEW s \in StxSwaps, NEW chosen \in SUBSET LockupTerms, UserLocks(s, chosen) PROVE StacksTypeOK'
    <2>1. EventsOf("lock", s) \subseteq Notes
      BY TableFacts DEF Ops
    <2>. QED  BY <1>6, <2>1 DEF UserLocks, SetEntry
  <1>7. ASSUME NEW s \in StxSwaps, NEW result \in {"paid", "rejected", "unpaid"},
               PaymentEnds(s, result)
        PROVE  StacksTypeOK'
    BY <1>7 DEF PaymentEnds
  <1>. QED  BY <1>1, <1>2, <1>3, <1>4, <1>5, <1>6, <1>7 DEF Outside

(* StacksNursery, the subscription and the two timers.                     *)
LEMMA NurseryType ==
  ASSUME StacksTypeOK, Nursery
  PROVE  StacksTypeOK'
  <1>. USE LockTypes DEF StacksTypeOK, db, chain, node, acct, lock
  <1>1. ASSUME NEW s \in StxSwaps, InvoicePaid(s) PROVE StacksTypeOK'
    <2>1. queue' \in [Locks -> Seq(Jobs)]
      BY <1>1, EnqueueFacts DEF InvoicePaid, JobKinds
    <2>. QED  BY <1>1, <2>1 DEF InvoicePaid
  <1>2. ASSUME NEW s \in StxSwaps, CheckExpired(s) PROVE StacksTypeOK'
    <2>1. queue' \in [Locks -> Seq(Jobs)]
      <3>1. (txid[s] # 0) \in BOOLEAN /\ TRUE \in BOOLEAN
        OBVIOUS
      <3>2. "swap.expired" \in JobKinds /\ "reverseSwap.expired" \in JobKinds
        BY DEF JobKinds
      <3>. QED  BY <1>2, <3>1, <3>2, EnqueueFacts DEF CheckExpired
    <2>. QED  BY <1>2, <2>1 DEF CheckExpired
  <1>3. ASSUME NEW e \in notes, OnLockup(e) PROVE StacksTypeOK'
    <2>1. [e EXCEPT !.found = TRUE] \in Notes
      BY DEF Notes
    <2>. QED  BY <1>3, <2>1 DEF OnLockup
  <1>4. ASSUME NEW e \in notes, ConfirmOwnLockup(e) PROVE StacksTypeOK'
    BY <1>4 DEF ConfirmOwnLockup, SetRow, RowStates
  <1>5. ASSUME NEW e \in notes, StoreUserLockup(e) PROVE StacksTypeOK'
    <2>1. e.swap \in StxSwaps
      BY DEF Notes
    <2>2. (IF Sufficient(e.swap) THEN "eth.lockup" ELSE "lockup.failed") \in JobKinds
      BY DEF JobKinds
    <2>3. queue' \in [Locks -> Seq(Jobs)]
      BY <1>5, <2>1, <2>2, EnqueueFacts DEF StoreUserLockup
    <2>. QED  BY <1>5, <2>3 DEF StoreUserLockup, SetRow, RowStates
  <1>6. ASSUME NEW e \in notes, OnClaim(e) PROVE StacksTypeOK'
    <2>1. queue' \in [Locks -> Seq(Jobs)]
      <3>1. e.swap \in StxSwaps /\ "claim" \in JobKinds
        BY DEF Notes, JobKinds
      <3>. QED  BY <1>6, <3>1, EnqueueFacts DEF OnClaim
    <2>. QED  BY <1>6, <2>1 DEF OnClaim
  <1>7. ASSUME RetryTimer PROVE StacksTypeOK'
    <2>1. queue' \in [Locks -> Seq(Jobs)]
      <3>1. "retryTimer" \in JobKinds /\ Incoming \subseteq StxSwaps
        BY DEF JobKinds, StxSwaps
      <3>. QED  BY <1>7, <3>1, EnqueueFacts DEF RetryTimer
    <2>. QED  BY <1>7, <2>1 DEF RetryTimer
  <1>8. ASSUME AskNonces PROVE StacksTypeOK'
    BY <1>8 DEF AskNonces
  <1>9. ASSUME ApplyNonces PROVE StacksTypeOK'
    <2>1. PICK p \in poll : nonce' = IF p.missing # 0 THEN p.missing
                                     ELSE IF p.next > nonce THEN p.next ELSE nonce
      BY <1>9 DEF ApplyNonces
    <2>2. p.missing \in 0..MaxNonce /\ p.next \in 1..(MaxNonce + 1)
      BY StacksAssumption DEF Replies, Nonces
    <2>3. nonce' \in 1..(MaxNonce + 1)
      BY <2>1, <2>2, StacksAssumption
    <2>4. skewed' \in BOOLEAN
      BY <1>9 DEF ApplyNonces
    <2>. QED  BY <1>9, <2>3, <2>4 DEF ApplyNonces
  <1>. QED  BY <1>1, <1>2, <1>3, <1>4, <1>5, <1>6, <1>7, <1>8, <1>9 DEF Nursery

(* Contract calls.                                                         *)
LEMMA SubmitType ==
  ASSUME StacksTypeOK, NEW l \in Locks, queue[l] # << >>, Accepts(used[l]), Submit(l)
  PROVE  mempool' \subseteq Calls
  <1>1. HeadOf(l).kind \in JobKinds /\ HeadOf(l).swap \in StxSwaps
    BY HeadFacts, LockTypes
  <1>2. used[l] \in Nonces
    BY StacksAssumption DEF StacksTypeOK, Accepts, Nonces
  <1>. QED  BY <1>1, <1>2, TableFacts DEF Submit, Calls, StacksTypeOK

LEMMA CallType ==
  ASSUME StacksTypeOK, NEW l \in Locks, CallSteps(l) \/ LoseAnswer(l)
  PROVE  StacksTypeOK'
  <1>. USE LockTypes DEF StacksTypeOK, db, chain, node, acct, lock
  <1>1. CASE Sign(l)
    <2>1. LockTypeOK'
      BY <1>1, GotoFacts DEF Sign, Awaits
    <2>2. used' \in [Locks -> 0..MaxNonce] /\ skewed' \in BOOLEAN
      BY <1>1, StacksAssumption DEF Sign
    <2>. QED  BY <1>1, <2>1, <2>2 DEF Sign, LockTypeOK
  <1>2. CASE CallAccepted(l)
    <2>1. LockTypeOK'
      BY <1>2, GotoFacts DEF CallAccepted, Awaits
    <2>2. mempool' \subseteq Calls
      BY <1>2, SubmitType DEF CallAccepted
    <2>. QED  BY <1>2, <2>1, <2>2 DEF CallAccepted, LockTypeOK
  <1>3. CASE CallRefused(l)
    <2>1. queue[l] # << >> /\ HeadOf(l).swap \in StxSwaps /\ OpOf(HeadOf(l).kind) \in Ops
      BY <1>3, HeadFacts, TableFacts DEF CallRefused
    <2>2. LockTypeOK'
      BY <1>3, <2>1, TableFacts, GotoFacts DEF CallRefused
    <2>3. refused' \subseteq Ops \X StxSwaps
      BY <1>3, <2>1 DEF CallRefused
    <2>. QED  BY <1>3, <2>2, <2>3 DEF CallRefused, LockTypeOK
  <1>4. CASE IncrementNonce(l)
    <2>1. LockTypeOK'
      BY <1>4, GotoFacts DEF IncrementNonce, Awaits
    <2>2. nonce' \in 1..(MaxNonce + 1)
      <3>1. nonce' = nonce + 1 /\ nonce <= MaxNonce
        BY <1>4 DEF IncrementNonce
      <3>. QED  BY <3>1, StacksAssumption
    <2>. QED  BY <1>4, <2>1, <2>2 DEF IncrementNonce, LockTypeOK
  <1>5. CASE LoseAnswer(l)
    <2>1. queue[l] # << >> /\ "sendFailed" \in Awaits
      BY <1>5 DEF LoseAnswer, Awaits
    <2>2. LockTypeOK'
      BY <1>5, <2>1, GotoFacts, ReleaseFacts DEF LoseAnswer
    <2>3. mempool' \subseteq Calls /\ skewed' \in BOOLEAN
      BY <1>5, <2>1, SubmitType DEF LoseAnswer
    <2>4. mishaps' \in 0..MaxLoad
      BY <1>5, RoomFacts DEF LoseAnswer
    <2>. QED  BY <1>5, <2>2, <2>3, <2>4 DEF LoseAnswer, LockTypeOK
  <1>. QED  BY <1>1, <1>2, <1>3, <1>4, <1>5 DEF CallSteps

(* Handlers under reverseSwapLock.                                         *)
LEMMA ReverseType ==
  ASSUME StacksTypeOK, ReverseSteps \/ (\E l \in Locks : SetSwapExpired(l))
  PROVE  StacksTypeOK'
  <1>. USE LockTypes DEF StacksTypeOK, db, chain, node, acct, lock
  <1>. DEFINE l == "reverse"
  <1>0. l \in Locks
    BY DEF Locks
  <1>. HIDE DEF l
  <1>1. ASSUME NEW value \in RowStates, ListenLockup(l, value) PROVE StacksTypeOK'
    <2>1. LockTypeOK'
      BY <1>0, <1>1, GotoFacts DEF ListenLockup, Awaits
    <2>. QED  BY <1>1, <2>1 DEF ListenLockup, SetRow, LockTypeOK
  <1>2. ASSUME NEW value \in RowStates, ListenRefusedLockup(l, value) PROVE StacksTypeOK'
    <2>1. queue[l] # << >> /\ HeadOf(l).swap \in StxSwaps
      BY <1>0, <1>2, HeadFacts DEF ListenRefusedLockup
    <2>2. Job("lockup.failedToSend", HeadOf(l).swap, TRUE) \in Jobs
      BY <2>1 DEF Job, Jobs, JobKinds
    <2>3. queue' \in [Locks -> Seq(Jobs)]
      <3>1. queue' = [queue EXCEPT ![l] = Append(@, Job("lockup.failedToSend", HeadOf(l).swap, TRUE))]
        BY <1>2 DEF ListenRefusedLockup
      <3>2. Append(queue[l], Job("lockup.failedToSend", HeadOf(l).swap, TRUE)) \in Seq(Jobs)
        <4>1. queue[l] \in Seq(Jobs)
          BY <1>0
        <4>. QED  BY <2>2, <4>1, AppendType
      <3>. QED  BY <1>0, <3>1, <3>2, NewQueue
    <2>. QED  BY <1>0, <1>2, <2>3 DEF ListenRefusedLockup, SetRow, Awaits
  <1>3. CASE SetLockupTransaction(l)
    <2>1. LockTypeOK'
      BY <1>0, <1>3, GotoFacts, ReleaseFacts DEF SetLockupTransaction, Running, Awaits
    <2>2. row' \in [StxSwaps -> RowStates]
      BY <1>3 DEF SetLockupTransaction, SetRow, RowStates
    <2>3. txid' \in [Outgoing -> 0..MaxNonce]
      <3>1. txid' = [txid EXCEPT ![HeadOf(l).swap] = used[l]] /\ used[l] \in 0..MaxNonce
        BY <1>0, <1>3 DEF SetLockupTransaction
      <3>. QED  BY <3>1, Zenon
    <2>. QED  BY <1>3, <2>1, <2>2, <2>3 DEF SetLockupTransaction, LockTypeOK
  <1>4. CASE SendFailed(l)
    <2>1. LockTypeOK'
      BY <1>0, <1>4, GotoFacts, ReleaseFacts DEF SendFailed, Running, Awaits
    <2>. QED  BY <1>4, <2>1 DEF SendFailed, LockTypeOK
  <1>5. CASE MarkFailed(l)
    <2>1. LockTypeOK'
      BY <1>0, <1>5, GotoFacts, ReleaseFacts DEF MarkFailed, Running, Awaits
    <2>. QED  BY <1>5, <2>1 DEF MarkFailed, SetRow, RowStates, LockTypeOK
  <1>6. CASE SettleInvoice(l)
    <2>1. LockTypeOK'
      BY <1>0, <1>6, GotoFacts, ReleaseFacts DEF SettleInvoice, Running, Awaits
    <2>. QED  BY <1>6, <2>1 DEF SettleInvoice, LockTypeOK
  <1>7. CASE SetInvoiceSettled(l)
    <2>1. LockTypeOK'
      BY <1>0, <1>7, GotoFacts, ReleaseFacts DEF SetInvoiceSettled, Running, Awaits
    <2>. QED  BY <1>7, <2>1 DEF SetInvoiceSettled, SetRow, RowStates, LockTypeOK
  <1>8. CASE ExpireReverseSwap(l)
    <2>1. LockTypeOK'
      BY <1>0, <1>8, GotoFacts, ReleaseFacts DEF ExpireReverseSwap, Running, Awaits
    <2>. QED  BY <1>8, <2>1 DEF ExpireReverseSwap, LockTypeOK
  <1>9. CASE SetTransactionRefunded(l)
    <2>1. LockTypeOK'
      BY <1>0, <1>9, GotoFacts, ReleaseFacts DEF SetTransactionRefunded, Running, Awaits
    <2>. QED  BY <1>9, <2>1 DEF SetTransactionRefunded, SetRow, RowStates, LockTypeOK
  <1>10. CASE CancelInvoice(l)
    <2>1. LockTypeOK'
      BY <1>0, <1>10, GotoFacts, ReleaseFacts DEF CancelInvoice, Running, Awaits
    <2>. QED  BY <1>10, <2>1 DEF CancelInvoice, LockTypeOK
  <1>11. ASSUME NEW k \in Locks, SetSwapExpired(k) PROVE StacksTypeOK'
    <2>1. LockTypeOK'
      BY <1>11, GotoFacts, ReleaseFacts DEF SetSwapExpired, Awaits
    <2>. QED  BY <1>11, <2>1 DEF SetSwapExpired, SetRow, RowStates, LockTypeOK
  <1>. QED  BY <1>1, <1>2, <1>3, <1>4, <1>5, <1>6, <1>7, <1>8, <1>9, <1>10, <1>11 DEF ReverseSteps, l

(* Handlers under swapLock.                                                *)
LEMMA SwapType ==
  ASSUME StacksTypeOK, SwapSteps
  PROVE  StacksTypeOK'
  <1>. USE LockTypes DEF StacksTypeOK, db, chain, node, acct, lock
  <1>. DEFINE l == "swap"
  <1>0. l \in Locks
    BY DEF Locks
  <1>. HIDE DEF l
  <1>1. CASE ClaimStx(l)
    <2>1. LockTypeOK'
      BY <1>0, <1>1, GotoFacts, ReleaseFacts DEF ClaimStx, Running, Awaits
    <2>. QED  BY <1>1, <2>1 DEF ClaimStx, LockTypeOK
  <1>2. CASE SetInvoicePending(l)
    <2>1. LockTypeOK'
      BY <1>0, <1>2, GotoFacts, ReleaseFacts DEF SetInvoicePending, Running, Awaits
    <2>. QED  BY <1>2, <2>1 DEF SetInvoicePending, SetRow, RowStates, LockTypeOK
  <1>3. CASE SendPayment(l)
    <2>1. LockTypeOK'
      BY <1>0, <1>3, GotoFacts, ReleaseFacts DEF SendPayment, Running, Awaits
    <2>. QED  BY <1>3, <2>1 DEF SendPayment, LockTypeOK
  <1>4. CASE PaymentAnswered(l)
    <2>1. LockTypeOK'
      BY <1>0, <1>4, GotoFacts, ReleaseFacts DEF PaymentAnswered, Running, Awaits
    <2>. QED  BY <1>4, <2>1 DEF PaymentAnswered, SetRow, RowStates, LockTypeOK
  <1>5. CASE SetMinerFee(l)
    <2>1. LockTypeOK'
      BY <1>0, <1>5, GotoFacts, ReleaseFacts DEF SetMinerFee, Running, Awaits
    <2>. QED  BY <1>5, <2>1 DEF SetMinerFee, SetRow, RowStates, LockTypeOK
  <1>6. CASE LockupFailed(l)
    <2>1. LockTypeOK'
      BY <1>0, <1>6, GotoFacts, ReleaseFacts DEF LockupFailed, Running, Awaits
    <2>. QED  BY <1>6, <2>1 DEF LockupFailed, SetRow, RowStates, LockTypeOK
  <1>7. CASE ExpireSwap(l)
    <2>1. LockTypeOK'
      BY <1>0, <1>7, GotoFacts, ReleaseFacts DEF ExpireSwap, Running, Awaits
    <2>. QED  BY <1>7, <2>1 DEF ExpireSwap, LockTypeOK
  <1>8. CASE RetryQuery(l)
    <2>. DEFINE S == {s \in Incoming : row[s] = "InvoicePending"}
                q == JobsFor("retry", S)
    <2>1. q \in Seq(Jobs)
      <3>1. S \in SUBSET StxSwaps
        BY DEF StxSwaps
      <3>2. "retry" \in JobKinds
        BY DEF JobKinds
      <3>3. q \in Seq(Jobs)
        BY <3>1, <3>2, ListOfJobs
      <3>. QED  BY <3>3
    <2>2. queue[l] \in Seq(Jobs) /\ queue[l] # << >>
      BY <1>0, <1>8 DEF RetryQuery, Running
    <2>3. Tail(queue[l]) \in Seq(Jobs)
      BY <2>2
    <2>4. queue' = [queue EXCEPT ![l] = q \o Tail(queue[l])]
      BY <1>8 DEF RetryQuery
    <2>. HIDE DEF q
    <2>5. queue' \in [Locks -> Seq(Jobs)]
      <3>1. q \o Tail(queue[l]) \in Seq(Jobs)
        BY <2>1, <2>3
      <3>. QED  BY <1>0, <2>4, <3>1, NewQueue
    <2>. QED  BY <1>8, <2>5 DEF RetryQuery
  <1>. QED  BY <1>1, <1>2, <1>3, <1>4, <1>5, <1>6, <1>7, <1>8 DEF SwapSteps, l

(* A lost event, and a restart.                                            *)
LEMMA FaultType ==
  ASSUME StacksTypeOK, Restart \/ (\E e \in notes : LoseNote(e))
  PROVE  StacksTypeOK'
  <1>1. ASSUME NEW e \in notes, LoseNote(e) PROVE StacksTypeOK'
    <2>1. mishaps' \in 0..MaxLoad
      BY <1>1, RoomFacts DEF LoseNote
    <2>. QED  BY <1>1, <2>1 DEF LoseNote, StacksTypeOK, db, chain, node, acct, lock
  <1>2. ASSUME Restart PROVE StacksTypeOK'
    <2>1. mishaps' \in 0..MaxLoad
      BY <1>2, RoomFacts DEF Restart
    <2>2. row' \in [StxSwaps -> RowStates]
      <3>1. \A s \in StxSwaps : RowAfterInit(s) \in RowStates
        BY DEF StacksTypeOK, RowAfterInit, RowStates
      <3>. QED  BY <1>2, <3>1 DEF Restart, StacksTypeOK
    <2>3. queue' \in [Locks -> Seq(Jobs)]
      <3>. DEFINE S == {r \in Outgoing : FoundFailed(r)}
                  q == JobsFor("lockup.failedToSend", S)
      <3>1. S \in SUBSET StxSwaps
        BY DEF StxSwaps
      <3>2. "lockup.failedToSend" \in JobKinds
        BY DEF JobKinds
      <3>3. q \in Seq(Jobs)
        BY <3>1, <3>2, ListOfJobs
      <3>4. queue' = [l \in Locks |-> IF l = "swap" THEN << >> ELSE q]
        BY <1>2 DEF Restart
      <3>. HIDE DEF q
      <3>. QED  BY <3>3, <3>4 DEF Locks
    <2>4. at' \in [Locks -> Awaits]
      BY <1>2 DEF Restart, Awaits
    <2>5. notes' \subseteq Notes
      <3>1. Rescannable \subseteq Notes
        BY TableFacts DEF Rescannable, Ops
      <3>. QED  BY <1>2, <3>1 DEF Restart
    <2>6. sub' \subseteq Outgoing /\ poll' = {} /\ nonce' = executed /\ skewed' \in BOOLEAN
      BY <1>2 DEF Restart, StacksTypeOK
    <2>7. UNCHANGED <<txid, invoice, height, entry, past, lockedBy, terms, executed, mempool,
                      aborted, refused, used>>
      BY <1>2 DEF Restart, chain, node
    <2>. QED  BY <2>1, <2>2, <2>3, <2>4, <2>5, <2>6, <2>7 DEF StacksTypeOK
  <1>. QED  BY <1>1, <1>2

LEMMA StepType == StacksTypeOK /\ StacksNext => StacksTypeOK'
  BY OutsideType, NurseryType, CallType, ReverseType, SwapType, FaultType DEF StacksNext

(* Every variable of the model of swaps on Stacks has its type, for any    *)
(* number of swaps and any bounds.                                         *)
THEOREM StacksTypeCorrect == StacksSpec => []StacksTypeOK
  <1>1. StacksInit => StacksTypeOK
    <2>. SUFFICES ASSUME StacksInit PROVE StacksTypeOK
      OBVIOUS
    <2>1. /\ row \in [StxSwaps -> RowStates] /\ txid \in [Outgoing -> 0..MaxNonce]
          /\ sub \subseteq Outgoing /\ height \in 0..MaxHeight
      BY StacksAssumption DEF StacksInit, RowStates
    <2>2. /\ invoice \in [StxSwaps -> {"open", "held", "settled", "canceled",
                                      "unpaid", "flying", "paid", "rejected"}]
          /\ entry \in [StxSwaps -> {"none", "locked", "claimed", "refunded"}]
          /\ past \in [StxSwaps -> SUBSET {"locked", "claimed", "refunded"}]
          /\ lockedBy \in [StxSwaps -> 0..MaxNonce] /\ terms \in [Incoming -> SUBSET LockupTerms]
      BY StacksAssumption DEF StacksInit
    <2>3. /\ executed \in 1..(MaxNonce + 1) /\ nonce \in 1..(MaxNonce + 1)
          /\ mishaps \in 0..MaxLoad
      <3>1. MaxNonce \in Nat /\ MaxLoad \in Nat
        BY StacksAssumption
      <3>2. executed = 1 /\ nonce = 1 /\ mishaps = 0
        BY DEF StacksInit
      <3>. QED  BY <3>1, <3>2
    <2>4. /\ mempool = {} /\ aborted = {} /\ refused = {} /\ poll = {} /\ notes = {}
          /\ skewed \in BOOLEAN
      BY DEF StacksInit
    <2>5. /\ queue \in [Locks -> Seq(Jobs)] /\ at \in [Locks -> Awaits]
          /\ used \in [Locks -> 0..MaxNonce]
      BY StacksAssumption DEF StacksInit, Awaits
    <2>. QED  BY <2>1, <2>2, <2>3, <2>4, <2>5 DEF StacksTypeOK
  <1>2. StacksTypeOK /\ UNCHANGED stxVars => StacksTypeOK'
    BY DEF StacksTypeOK, stxVars, db, chain, node, acct, lock
  <1>. QED  BY <1>1, <1>2, StepType, PTL DEF StacksSpec

-----------------------------------------------------------------------------
(* What a step can change *)

(* Only users and blocks change the contract.                              *)
LEMMA ContractFrame ==
  ASSUME StacksNext, ~Outside
  PROVE  UNCHANGED chain
  <1>1. Nursery => UNCHANGED chain
    BY DEF Nursery, InvoicePaid, CheckExpired, OnLockup, ConfirmOwnLockup, StoreUserLockup, OnClaim,
           RetryTimer, AskNonces, ApplyNonces
  <1>2. \A l \in Locks : CallSteps(l) \/ SetSwapExpired(l) \/ LoseAnswer(l) => UNCHANGED chain
    BY DEF CallSteps, Sign, CallAccepted, CallRefused, IncrementNonce, SetSwapExpired, LoseAnswer
  <1>3. ReverseSteps => UNCHANGED chain
    BY DEF ReverseSteps, ListenLockup, ListenRefusedLockup, SetLockupTransaction, SendFailed, MarkFailed,
           SettleInvoice, SetInvoiceSettled, ExpireReverseSwap, SetTransactionRefunded, CancelInvoice
  <1>4. SwapSteps => UNCHANGED chain
    BY DEF SwapSteps, ClaimStx, SetInvoicePending, SendPayment, PaymentAnswered, SetMinerFee,
           LockupFailed, ExpireSwap, RetryQuery
  <1>5. Restart \/ (\E e \in notes : LoseNote(e)) => UNCHANGED chain
    BY DEF Restart, LoseNote
  <1>. QED  BY <1>1, <1>2, <1>3, <1>4, <1>5 DEF StacksNext

(* The history of an entry only grows, the terms of a lockup stay, and an  *)
(* entry is never new again.                                               *)
LEMMA ContractGrows ==
  ASSUME StacksTypeOK, ChainInv, StacksNext
  PROVE  /\ \A s \in StxSwaps : past[s] \subseteq past'[s]
         /\ \A s \in Incoming : Good(s) => Good(s)'
         /\ \A s \in StxSwaps : entry'[s] = "none" => past'[s] = {}
  <1>. DEFINE Goal == /\ \A s \in StxSwaps : past[s] \subseteq past'[s]
                      /\ \A s \in Incoming : Good(s) => Good(s)'
                      /\ \A s \in StxSwaps : entry'[s] = "none" => past'[s] = {}
  <1>. USE DEF chain
  <1>1. ASSUME NEW s \in StxSwaps, NEW v \in {"locked", "claimed", "refunded"}, SetEntry(s, v),
               terms' = terms
        PROVE  Goal
    BY <1>1 DEF StacksTypeOK, ChainInv, SetEntry, Good, Sufficient, StxSwaps
  <1>2. ASSUME UNCHANGED chain PROVE Goal
    BY <1>2 DEF ChainInv, Good, Sufficient
  <1>3. ASSUME NEW c \in mempool, ExecuteCall(c) PROVE Goal
    <2>1. c.swap \in StxSwaps /\ c.op \in Ops
      BY DEF StacksTypeOK, Calls
    <2>2. ResultOf[c.op] \in {"locked", "claimed", "refunded"}
      BY <2>1, TableFacts
    <2>3. CASE Succeeds(c.op, c.swap)
      <3>1. SetEntry(c.swap, ResultOf[c.op]) /\ terms' = terms
        BY <1>3, <2>3 DEF ExecuteCall
      <3>. QED  BY <1>1, <2>1, <2>2, <3>1
    <2>4. CASE ~Succeeds(c.op, c.swap)
      <3>1. entry' = entry /\ past' = past /\ terms' = terms
        BY <1>3, <2>4 DEF ExecuteCall
      <3>. QED  BY <3>1 DEF ChainInv, Good, Sufficient
    <2>. QED  BY <2>3, <2>4
  <1>4. ASSUME NEW s \in StxSwaps, UserClaims(s) \/ UserRefunds(s) PROVE Goal
    <2>1. terms' = terms /\ (SetEntry(s, "claimed") \/ SetEntry(s, "refunded"))
      BY <1>4 DEF UserClaims, UserRefunds
    <2>. QED  BY <1>1, <2>1
  <1>5. ASSUME NEW s \in StxSwaps, NEW chosen \in SUBSET LockupTerms, UserLocks(s, chosen) PROVE Goal
    <2>1. entry[s] = "none" /\ past[s] = {} /\ SetEntry(s, "locked")
          /\ terms' = [terms EXCEPT ![s] = chosen]
      BY <1>5 DEF UserLocks, ChainInv
    <2>. QED  BY <2>1 DEF StacksTypeOK, ChainInv, SetEntry, Good, Sufficient, StxSwaps
  <1>6. ASSUME NEW s \in StxSwaps,
               PayHoldInvoice(s) \/ (\E result \in {"paid", "rejected", "unpaid"} :
                                                     PaymentEnds(s, result))
        PROVE  Goal
    BY <1>6, <1>2 DEF PayHoldInvoice, PaymentEnds
  <1>7. ASSUME MineBlock PROVE Goal
    BY <1>7, <1>2 DEF MineBlock
  <1>. HIDE DEF Goal
  <1>8. ASSUME Outside PROVE Goal
    BY <1>8, <1>3, <1>4, <1>5, <1>6, <1>7 DEF Outside
  <1>9. ASSUME ~Outside PROVE Goal
    BY <1>9, <1>2, ContractFrame
  <1>. QED  BY <1>8, <1>9 DEF Goal

(* Where a job comes from: it was there, it does not move coins, or it is  *)
(* for an event or a pending row.                                          *)
Begets(l, j) ==
  /\ LockOf(j.swap) = l
  /\ \/ j.kind \notin {"claim"} \union ClaimKinds
     \/ j.kind = "claim" /\ \E e \in notes : e.event = "claim" /\ e.swap = j.swap
     \/ /\ j.kind = "eth.lockup" /\ j.swap \in Incoming /\ Sufficient(j.swap)
        /\ \E e \in notes : e.found /\ e.swap = j.swap
     \/ j.kind = "retry" /\ j.swap \in Incoming /\ row[j.swap] = "InvoicePending"

Fresh == \A l \in Locks : \A j \in Queued(l)' : j \in Queued(l) \/ Begets(l, j)

(* An event or a timer adds one job.                                       *)
LEMMA OneFresh ==
  ASSUME LockTypeOK, NEW kind \in JobKinds, NEW s \in StxSwaps, NEW sent \in BOOLEAN,
         Enqueue(kind, s, sent), Begets(LockOf(s), Job(kind, s, sent))
  PROVE  Fresh
  <1>1. Joined(s, Job(kind, s, sent)) /\ LockOf(s) \in Locks
    BY EnqueueFacts
  <1>. QED  BY <1>1, Zenon DEF Joined, Fresh

LEMMA NurseryJobs ==
  ASSUME StacksTypeOK, Nursery
  PROVE  Fresh
  <1>. USE LockTypes DEF JobKinds
  <1>0. ASSUME UNCHANGED queue PROVE Fresh
    BY <1>0 DEF Fresh, Queued
  <1>1. ASSUME NEW kind \in JobKinds, kind \notin {"claim"} \union ClaimKinds,
               NEW s \in StxSwaps, NEW sent \in BOOLEAN, Enqueue(kind, s, sent)
        PROVE  Fresh
    <2>1. Begets(LockOf(s), Job(kind, s, sent))
      BY <1>1 DEF Begets, Job
    <2>. QED  BY <1>1, <2>1, OneFresh
  <1>2. ASSUME NEW s \in StxSwaps, InvoicePaid(s) PROVE Fresh
    BY <1>2, <1>1 DEF InvoicePaid, ClaimKinds
  <1>3. ASSUME NEW s \in StxSwaps, CheckExpired(s) PROVE Fresh
    <2>1. (txid[s] # 0) \in BOOLEAN
      OBVIOUS
    <2>. QED  BY <1>3, <2>1, <1>1 DEF CheckExpired, ClaimKinds
  <1>4. ASSUME NEW e \in notes, StoreUserLockup(e) PROVE Fresh
    <2>1. e.swap \in StxSwaps
      BY DEF StacksTypeOK, Notes
    <2>2. CASE Sufficient(e.swap)
      <3>1. Enqueue("eth.lockup", e.swap, TRUE) /\ e.found /\ e.swap \in Incoming
        BY <1>4, <2>2 DEF StoreUserLockup
      <3>2. Begets(LockOf(e.swap), Job("eth.lockup", e.swap, TRUE))
        BY <2>2, <3>1 DEF Begets, Job, Sufficient
      <3>. QED  BY <2>1, <3>1, <3>2, OneFresh
    <2>3. CASE ~Sufficient(e.swap)
      BY <1>4, <2>1, <2>3, <1>1 DEF StoreUserLockup, ClaimKinds
    <2>. QED  BY <2>2, <2>3
  <1>5. ASSUME NEW e \in notes, OnClaim(e) PROVE Fresh
    <2>1. e.swap \in StxSwaps /\ e.event = "claim"
      BY <1>5 DEF StacksTypeOK, Notes, OnClaim
    <2>2. Begets(LockOf(e.swap), Job("claim", e.swap, TRUE))
      BY <2>1 DEF Begets, Job
    <2>. QED  BY <1>5, <1>0, <2>1, <2>2, OneFresh DEF OnClaim
  <1>6. ASSUME RetryTimer PROVE Fresh
    BY <1>6, <1>1 DEF RetryTimer, ClaimKinds, StxSwaps
  <1>7. ASSUME (\E e \in notes : OnLockup(e) \/ ConfirmOwnLockup(e)) \/ AskNonces \/ ApplyNonces
        PROVE  Fresh
    BY <1>7, <1>0 DEF OnLockup, ConfirmOwnLockup, AskNonces, ApplyNonces, lock
  <1>. QED  BY <1>2, <1>3, <1>4, <1>5, <1>6, <1>7 DEF Nursery

(* A handler adds no job but what it cannot do itself.                     *)
LEMMA HandlerJobs ==
  ASSUME StacksTypeOK, JobInv,
         ReverseSteps \/ SwapSteps \/ \E l \in Locks : CallSteps(l) \/ SetSwapExpired(l) \/ LoseAnswer(l)
  PROVE  Fresh
  <1>. USE LockTypes
  <1>1. ASSUME NEW l \in Locks, queue[l] # << >>,
               Release(l) \/ Throw(l) \/ \E await \in Awaits : Goto(l, await)
        PROVE  Fresh
    <2>1. \A m \in Locks : Queued(m)' \subseteq Queued(m)
      BY <1>1, ReleaseFacts, GotoFacts DEF Left
    <2>. QED  BY <2>1 DEF Fresh
  <1>2. ASSUME NEW l \in Locks, CallSteps(l) \/ SetSwapExpired(l) \/ LoseAnswer(l) PROVE Fresh
    <2>1. queue[l] # << >>
      BY <1>2 DEF CallSteps, SetSwapExpired, LoseAnswer, Sign, Running, CallAccepted, CallRefused,
                  IncrementNonce
    <2>2. ASSUME Sign(l) \/ CallAccepted(l) \/ IncrementNonce(l) \/ SetSwapExpired(l) \/ LoseAnswer(l)
          PROVE  Fresh
      BY <2>1, <2>2, <1>1 DEF Sign, CallAccepted, IncrementNonce, SetSwapExpired, LoseAnswer, Awaits
    <2>3. ASSUME CallRefused(l) PROVE Fresh
      <3>1. \E await \in Awaits : Goto(l, await)
        BY <2>1, <2>3, HeadFacts, TableFacts DEF CallRefused
      <3>. QED  BY <2>1, <3>1, <1>1
    <2>. QED  BY <1>2, <2>2, <2>3 DEF CallSteps
  <1>3. ASSUME ReverseSteps PROVE Fresh
    <2>. DEFINE l == "reverse"
    <2>0. l \in Locks
      BY DEF Locks
    <2>. HIDE DEF l
    <2>1. ASSUME NEW value \in RowStates, ListenRefusedLockup(l, value) PROVE Fresh
      <3>1. HeadOf(l).swap \in StxSwaps /\ LockOf(HeadOf(l).swap) = l
        BY <2>0, <2>1, HeadFacts DEF ListenRefusedLockup, JobInv
      <3>2. Enqueue("lockup.failedToSend", HeadOf(l).swap, TRUE)
        BY <2>1, <3>1 DEF ListenRefusedLockup, Enqueue
      <3>3. Begets(LockOf(HeadOf(l).swap), Job("lockup.failedToSend", HeadOf(l).swap, TRUE))
        BY DEF Begets, Job, ClaimKinds
      <3>4. "lockup.failedToSend" \in JobKinds
        BY DEF JobKinds
      <3>. QED  BY <3>1, <3>2, <3>3, <3>4, OneFresh
    <2>2. ASSUME \/ \E value \in RowStates : ListenLockup(l, value)
                 \/ SetLockupTransaction(l) \/ SendFailed(l) \/ MarkFailed(l) \/ SettleInvoice(l)
          PROVE  Fresh
      BY <2>0, <2>2, <1>1 DEF ListenLockup, SetLockupTransaction, SendFailed, MarkFailed, SettleInvoice,
         Running, Awaits
    <2>3. ASSUME \/ SetInvoiceSettled(l) \/ ExpireReverseSwap(l) \/ SetTransactionRefunded(l)
                 \/ CancelInvoice(l)
          PROVE  Fresh
      BY <2>0, <2>3, <1>1 DEF SetInvoiceSettled, ExpireReverseSwap, SetTransactionRefunded,
         CancelInvoice, Running, Awaits
    <2>. QED  BY <1>3, <2>1, <2>2, <2>3 DEF ReverseSteps, l
  <1>4. ASSUME SwapSteps PROVE Fresh
    <2>. DEFINE l == "swap"
    <2>0. l \in Locks
      BY DEF Locks
    <2>. HIDE DEF l
    <2>1. ASSUME RetryQuery(l) PROVE Fresh
      <3>. DEFINE P == {s \in Incoming : row[s] = "InvoicePending"}
      <3>1. PICK q : /\ q = JobsFor("retry", P)
                     /\ queue' = [queue EXCEPT ![l] = q \o Tail(queue[l])]
        BY <2>1 DEF RetryQuery
      <3>2. /\ q \in Seq(Jobs)
            /\ \A i \in 1..Len(q) :
                 \E s \in Incoming : row[s] = "InvoicePending" /\ q[i] = Job("retry", s, TRUE)
        <4>1. P \in SUBSET StxSwaps /\ "retry" \in JobKinds
          BY DEF StxSwaps, JobKinds
        <4>2. q = JobsFor("retry", P)
          BY <3>1
        <4>3. \A s \in P : s \in Incoming /\ row[s] = "InvoicePending"
          OBVIOUS
        <4>. HIDE DEF P
        <4>4. q \in Seq(Jobs) /\ \A i \in 1..Len(q) : \E s \in P : q[i] = Job("retry", s, TRUE)
          BY <4>1, <4>2, ListOfJobs
        <4>. QED  BY <4>3, <4>4
      <3>3. queue[l] \in Seq(Jobs) /\ queue[l] # << >>
        BY <2>0, <2>1 DEF RetryQuery, Running, LockTypeOK
      <3>4. queue'[l] = q \o Tail(queue[l]) /\ \A m \in Locks : m # l => queue'[m] = queue[m]
        BY <2>0, <3>1 DEF LockTypeOK
      <3>5. ASSUME NEW i \in 1..Len(queue'[l])
            PROVE  \/ \E k \in 1..Len(q) : queue'[l][i] = q[k]
                   \/ \E k \in 1..Len(queue[l]) : queue'[l][i] = queue[l][k]
        <4>1. CASE i <= Len(q)
          BY <3>2, <3>3, <3>4, <4>1
        <4>2. CASE i > Len(q)
          <5>1. Tail(queue[l]) \in Seq(Jobs) /\ Len(Tail(queue[l])) = Len(queue[l]) - 1
            BY <3>3
          <5>2. /\ i - Len(q) \in 1..Len(Tail(queue[l]))
                /\ queue'[l][i] = Tail(queue[l])[i - Len(q)]
            BY <3>2, <3>4, <4>2, <5>1
          <5>3. Tail(queue[l])[i - Len(q)] = queue[l][i - Len(q) + 1]
            BY <3>3, <5>2
          <5>4. i - Len(q) + 1 \in 1..Len(queue[l])
            BY <3>2, <3>3, <5>1, <5>2
          <5>. QED  BY <5>2, <5>3, <5>4, Zenon
        <4>. QED  BY <3>2, <4>1, <4>2
      <3>6. ASSUME NEW s \in Incoming, row[s] = "InvoicePending"
            PROVE  Begets(l, Job("retry", s, TRUE))
        BY <3>6, StacksAssumption DEF Begets, Job, LockOf, l
      <3>7. \A j \in Queued(l)' : j \in Queued(l) \/ Begets(l, j)
        <4>. SUFFICES ASSUME NEW i \in 1..Len(queue'[l])
                      PROVE  queue'[l][i] \in Queued(l) \/ Begets(l, queue'[l][i])
          BY DEF Queued
        <4>1. CASE \E k \in 1..Len(queue[l]) : queue'[l][i] = queue[l][k]
          BY <4>1 DEF Queued
        <4>2. CASE \E k \in 1..Len(q) : queue'[l][i] = q[k]
          <5>1. \E s \in Incoming : row[s] = "InvoicePending" /\ queue'[l][i] = Job("retry", s, TRUE)
            BY <3>2, <4>2
          <5>. QED  BY <3>6, <5>1
        <4>. QED  BY <3>5, <4>1, <4>2
      <3>. QED  BY <3>4, <3>7, ZenonT(60) DEF Fresh, Queued
    <2>2. ASSUME ClaimStx(l) \/ SetInvoicePending(l) \/ SendPayment(l) \/ PaymentAnswered(l) PROVE Fresh
      BY <2>0, <2>2, <1>1 DEF ClaimStx, SetInvoicePending, SendPayment, PaymentAnswered, Running, Awaits
    <2>3. ASSUME SetMinerFee(l) \/ LockupFailed(l) \/ ExpireSwap(l) PROVE Fresh
      BY <2>0, <2>3, <1>1 DEF SetMinerFee, LockupFailed, ExpireSwap, Running, Awaits
    <2>. QED  BY <1>4, <2>1, <2>2, <2>3 DEF SwapSteps, l
  <1>. QED  BY <1>2, <1>3, <1>4

(* Every job of the next state is an old one or has its reason.            *)
LEMMA JobMoves ==
  ASSUME StacksTypeOK, JobInv, StacksNext
  PROVE  Fresh
  <1>1. ASSUME Outside \/ \E e \in notes : LoseNote(e) PROVE Fresh
    <2>1. UNCHANGED queue
      BY <1>1 DEF Outside, ExecuteCall, MineBlock, PayHoldInvoice, UserClaims, UserRefunds, UserLocks,
         PaymentEnds, LoseNote, lock
    <2>. QED  BY <2>1 DEF Fresh, Queued
  <1>2. ASSUME Restart PROVE Fresh
    <2>. DEFINE P == {r \in Outgoing : FoundFailed(r)}
    <2>1. PICK q : /\ q = JobsFor("lockup.failedToSend", P)
                   /\ queue' = [l \in Locks |-> IF l = "swap" THEN << >> ELSE q]
      BY <1>2 DEF Restart
    <2>2. /\ q \in Seq(Jobs)
          /\ \A i \in 1..Len(q) :
               \E s \in Outgoing : q[i] = Job("lockup.failedToSend", s, TRUE)
      <3>1. P \in SUBSET StxSwaps /\ "lockup.failedToSend" \in JobKinds
        BY DEF StxSwaps, JobKinds
      <3>2. q = JobsFor("lockup.failedToSend", P)
        BY <2>1
      <3>3. P \subseteq Outgoing
        OBVIOUS
      <3>. HIDE DEF P
      <3>4. /\ q \in Seq(Jobs)
            /\ \A i \in 1..Len(q) : \E s \in P : q[i] = Job("lockup.failedToSend", s, TRUE)
        BY <3>1, <3>2, ListOfJobs
      <3>. QED  BY <3>3, <3>4
    <2>3. ASSUME NEW s \in Outgoing PROVE Begets("reverse", Job("lockup.failedToSend", s, TRUE))
      BY DEF Begets, Job, LockOf, ClaimKinds
    <2>4. \A j \in Queued("reverse")' : Begets("reverse", j)
      BY <2>1, <2>2, <2>3 DEF Queued, Locks
    <2>5. Queued("swap")' = {}
      BY <2>1 DEF Queued, Locks
    <2>. QED  BY <2>4, <2>5 DEF Fresh, Locks
  <1>. QED  BY <1>1, <1>2, NurseryJobs, HandlerJobs DEF StacksNext

-----------------------------------------------------------------------------
(* Money *)

(* What waits to be handled stands for what happened in the contract.      *)
LEMMA JobStep ==
  ASSUME StacksTypeOK, JobInv, ChainInv, PayInv, StacksNext
  PROVE  JobInv'
  <1>. SUFFICES ASSUME NEW l \in Locks, NEW j \in Queued(l)'
                PROVE  /\ LockOf(j.swap) = l
                       /\ j.kind = "claim" => "claimed" \in past'[j.swap]
                       /\ j.kind \in ClaimKinds => j.swap \in Incoming /\ Good(j.swap)'
    BY DEF JobInv, LockOf, ClaimKinds
  <1>1. queue' \in [Locks -> Seq(Jobs)]
    BY StepType DEF StacksTypeOK
  <1>2. j.swap \in StxSwaps
    <2>1. PICK i \in 1..Len(queue'[l]) : j = queue'[l][i]
      BY DEF Queued
    <2>2. queue'[l] \in Seq(Jobs)
      BY <1>1
    <2>3. j \in Jobs
      BY <2>1, <2>2
    <2>. QED  BY <2>3 DEF Jobs
  <1>3. CASE j \in Queued(l)
    BY <1>2, <1>3, ContractGrows DEF JobInv
  <1>4. CASE Begets(l, j)
    <2>1. j.kind = "claim" => "claimed" \in past[j.swap]
      BY <1>4 DEF Begets, ChainInv, ClaimKinds
    <2>2. j.kind \in ClaimKinds => j.swap \in Incoming /\ Good(j.swap)
      BY <1>4 DEF Begets, ChainInv, PayInv, Good, ClaimKinds
    <2>. QED  BY <1>2, <1>4, <2>1, <2>2, ContractGrows DEF Begets
  <1>. QED  BY <1>3, <1>4, JobMoves DEF Fresh

(* An event is about something that has happened.                          *)
Happened(e) ==
  /\ e.event = "claim" => "claimed" \in past[e.swap]
  /\ e.event = "lock" => "locked" \in past[e.swap]
  /\ e.found => e.event = "lock"

LEMMA EventFacts ==
  ASSUME NEW op \in Ops, NEW s \in StxSwaps, NEW e \in EventsOf(op, s)
  PROVE  e.event = op /\ e.swap = s /\ e.found = FALSE
  <1>1. e = [event |-> op, swap |-> s, found |-> FALSE]
    BY DEF EventsOf
  <1>. QED  BY <1>1

LEMMA NewEvents ==
  ASSUME StacksTypeOK, ChainInv, StacksNext, NEW e \in notes', e \notin notes
  PROVE  Happened(e)'
  <1>0. \A s \in StxSwaps : past[s] \subseteq past'[s]
    BY ContractGrows
  <1>1. ASSUME NEW op \in {"lock", "claim"}, NEW s \in StxSwaps, e \in EventsOf(op, s),
               ResultOf[op] \in past'[s]
        PROVE  Happened(e)'
    <2>1. e.event = op /\ e.swap = s /\ e.found = FALSE
      <3>1. op \in Ops
        BY DEF Ops
      <3>. QED  BY <1>1, <3>1, EventFacts
    <2>2. ResultOf["claim"] = "claimed" /\ ResultOf["lock"] = "locked"
      BY DEF ResultOf
    <2>. QED  BY <1>1, <2>1, <2>2 DEF Happened
  <1>2. ASSUME NEW c \in mempool, ExecuteCall(c) PROVE Happened(e)'
    <2>1. c.op \in Ops /\ c.swap \in StxSwaps
      BY DEF StacksTypeOK, Calls
    <2>2. SetEntry(c.swap, ResultOf[c.op]) /\ e \in EventsOf(c.op, c.swap)
      BY <1>2 DEF ExecuteCall
    <2>3. c.op \in {"lock", "claim"}
      BY <2>2 DEF EventsOf
    <2>4. ResultOf[c.op] \in past'[c.swap]
      BY <2>1, <2>2 DEF SetEntry, StacksTypeOK
    <2>. QED  BY <1>1, <2>1, <2>2, <2>3, <2>4
  <1>3. ASSUME NEW s \in StxSwaps, UserClaims(s) PROVE Happened(e)'
    <2>1. "claimed" \in past'[s] /\ e \in EventsOf("claim", s)
      BY <1>3 DEF UserClaims, SetEntry, StacksTypeOK
    <2>. QED  BY <1>1, <2>1 DEF ResultOf
  <1>4. ASSUME NEW s \in StxSwaps, NEW chosen \in SUBSET LockupTerms, UserLocks(s, chosen) PROVE Happened(e)'
    <2>1. "locked" \in past'[s] /\ e \in EventsOf("lock", s)
      BY <1>4 DEF UserLocks, SetEntry, StacksTypeOK
    <2>. QED  BY <1>1, <2>1 DEF ResultOf
  <1>5. ASSUME NEW d \in notes, OnLockup(d) PROVE Happened(e)'
    <2>1. d.event = "lock" /\ e = [d EXCEPT !.found = TRUE] /\ past' = past
      BY <1>5 DEF OnLockup, chain
    <2>2. e.event = "lock" /\ e.swap = d.swap
      BY <2>1 DEF StacksTypeOK, Notes
    <2>. QED  BY <2>1, <2>2 DEF ChainInv, Happened
  <1>6. ASSUME Restart PROVE Happened(e)'
    <2>1. e \in Rescannable /\ past' = past
      BY <1>6 DEF Restart, chain
    <2>2. PICK p \in {"lock", "claim"} \X StxSwaps : ResultOf[p[1]] \in past[p[2]] /\ e \in EventsOf(p[1], p[2])
      BY <2>1 DEF Rescannable
    <2>. QED  BY <1>1, <2>1, <2>2
  <1>7. ASSUME notes' \subseteq notes PROVE FALSE
    BY <1>7
  <1>8. CASE Outside
    BY <1>8, <1>2, <1>3, <1>4, <1>7 DEF Outside, MineBlock, PayHoldInvoice, UserRefunds, PaymentEnds
  <1>9. CASE Nursery
    BY <1>9, <1>5, <1>7 DEF Nursery, InvoicePaid, CheckExpired, ConfirmOwnLockup, StoreUserLockup, OnClaim,
       RetryTimer, AskNonces, ApplyNonces
  <1>10. CASE \E l \in Locks : CallSteps(l) \/ SetSwapExpired(l) \/ LoseAnswer(l)
    BY <1>10, <1>7 DEF CallSteps, Sign, CallAccepted, CallRefused, IncrementNonce, SetSwapExpired, LoseAnswer
  <1>11. CASE ReverseSteps
    BY <1>11, <1>7 DEF ReverseSteps, ListenLockup, ListenRefusedLockup, SetLockupTransaction, SendFailed,
       MarkFailed, SettleInvoice, SetInvoiceSettled, ExpireReverseSwap, SetTransactionRefunded, CancelInvoice
  <1>12. CASE SwapSteps
    BY <1>12, <1>7 DEF SwapSteps, ClaimStx, SetInvoicePending, SendPayment, PaymentAnswered, SetMinerFee,
       LockupFailed, ExpireSwap, RetryQuery
  <1>13. CASE \E d \in notes : LoseNote(d)
    BY <1>13, <1>7 DEF LoseNote
  <1>. QED  BY <1>6, <1>8, <1>9, <1>10, <1>11, <1>12, <1>13 DEF StacksNext

LEMMA ChainStep ==
  ASSUME StacksTypeOK, ChainInv, StacksNext
  PROVE  ChainInv'
  <1>1. ASSUME NEW e \in notes' PROVE Happened(e)'
    <2>1. CASE e \in notes
      <3>1. e.swap \in StxSwaps
        BY <2>1 DEF StacksTypeOK, Notes
      <3>. QED  BY <2>1, <3>1, ContractGrows DEF ChainInv, Happened
    <2>. QED  BY <2>1, NewEvents
  <1>. QED  BY <1>1, ContractGrows DEF ChainInv, Happened

(* Whom the handlers pay, and whose payment they take.                     *)
Holds(l, kinds, s) == queue[l] # << >> /\ HeadOf(l).kind \in kinds /\ HeadOf(l).swap = s

LEMMA MoneyMoves ==
  ASSUME StacksTypeOK, StacksNext
  PROVE  /\ \A s \in Incoming : row'[s] = "InvoicePending" =>
              row[s] = "InvoicePending" \/ Holds("swap", ClaimKinds, s)
         /\ \A s \in Incoming : invoice'[s] \in {"flying", "paid"} =>
              invoice[s] \in {"flying", "paid"} \/ Holds("swap", ClaimKinds, s)
         /\ \A s \in Outgoing : invoice'[s] = "settled" =>
              invoice[s] = "settled" \/ Holds("reverse", {"claim"}, s)
  <1>. DEFINE Rows == \A s \in Incoming : row'[s] = "InvoicePending" =>
                        row[s] = "InvoicePending" \/ Holds("swap", ClaimKinds, s)
              Payments == \A s \in Incoming : invoice'[s] \in {"flying", "paid"} =>
                        invoice[s] \in {"flying", "paid"} \/ Holds("swap", ClaimKinds, s)
              Settled == \A s \in Outgoing : invoice'[s] = "settled" =>
                        invoice[s] = "settled" \/ Holds("reverse", {"claim"}, s)
  <1>1. ASSUME UNCHANGED row PROVE Rows
    BY <1>1
  <1>2. ASSUME UNCHANGED invoice PROVE Payments /\ Settled
    BY <1>2
  <1>3. ASSUME NEW s, NEW v, SetRow(s, v), v # "InvoicePending" PROVE Rows
    BY <1>3 DEF SetRow, StacksTypeOK, StxSwaps
  <1>4. ASSUME NEW s, NEW v, invoice' = [invoice EXCEPT ![s] = v], v \notin {"flying", "paid"}
        PROVE  Payments
    BY <1>4 DEF StacksTypeOK, StxSwaps
  <1>5. ASSUME NEW s, NEW v, invoice' = [invoice EXCEPT ![s] = v], v # "settled" PROVE Settled
    BY <1>5 DEF StacksTypeOK, StxSwaps
  <1>. HIDE DEF Rows, Payments, Settled
  <1>6. ASSUME NEW s \in StxSwaps, PayHoldInvoice(s) \/ UserClaims(s) \/ UserRefunds(s)
        PROVE  Rows /\ Payments /\ Settled
    BY <1>6, <1>1, <1>2, <1>4, <1>5 DEF PayHoldInvoice, UserClaims, UserRefunds, db
  <1>7. ASSUME NEW s \in StxSwaps, NEW chosen \in SUBSET LockupTerms,
               UserLocks(s, chosen)
        PROVE  Rows /\ Payments /\ Settled
    BY <1>7, <1>1, <1>2 DEF UserLocks, db
  <1>8. ASSUME NEW s \in StxSwaps, NEW result \in {"paid", "rejected", "unpaid"}, PaymentEnds(s, result)
        PROVE  Rows /\ Payments /\ Settled
    <2>1. Rows /\ Settled
      BY <1>8, <1>1, <1>5 DEF PaymentEnds, db
    <2>2. Payments
      BY <1>8 DEF PaymentEnds, Payments, StacksTypeOK, StxSwaps
    <2>. QED  BY <2>1, <2>2
  <1>9. ASSUME Nursery PROVE Rows /\ Payments /\ Settled
    <2>1. UNCHANGED invoice
      BY <1>9 DEF Nursery, InvoicePaid, CheckExpired, OnLockup, ConfirmOwnLockup, StoreUserLockup, OnClaim,
         RetryTimer, AskNonces, ApplyNonces
    <2>2. UNCHANGED row \/ \E e \in notes : SetRow(e.swap, "TransactionConfirmed")
      BY <1>9 DEF Nursery, InvoicePaid, CheckExpired, OnLockup, ConfirmOwnLockup, StoreUserLockup, OnClaim,
         RetryTimer, AskNonces, ApplyNonces, db
    <2>. QED  BY <2>1, <2>2, <1>1, <1>2, <1>3
  <1>10. ASSUME NEW l \in Locks, CallSteps(l) \/ SetSwapExpired(l) \/ LoseAnswer(l)
         PROVE  Rows /\ Payments /\ Settled
    <2>1. UNCHANGED invoice
      BY <1>10 DEF CallSteps, Sign, CallAccepted, CallRefused, IncrementNonce, SetSwapExpired, LoseAnswer
    <2>2. UNCHANGED row \/ SetRow(HeadOf(l).swap, "SwapExpired")
      BY <1>10 DEF CallSteps, Sign, CallAccepted, CallRefused, IncrementNonce, SetSwapExpired, LoseAnswer, db
    <2>. QED  BY <2>1, <2>2, <1>1, <1>2, <1>3
  <1>11. ASSUME ReverseSteps PROVE Rows /\ Payments /\ Settled
    <2>1. ASSUME SettleInvoice("reverse") PROVE Rows /\ Payments /\ Settled
      <3>1. Rows /\ Payments
        BY <2>1, <1>1, <1>2, <1>4 DEF SettleInvoice, db
      <3>2. Settled
        BY <2>1 DEF SettleInvoice, Settled, Running, Holds, StacksTypeOK, StxSwaps
      <3>. QED  BY <3>1, <3>2
    <2>2. ASSUME SendFailed("reverse") PROVE Rows /\ Payments /\ Settled
      BY <2>2, <1>1, <1>2, <1>4, <1>5 DEF SendFailed, db
    <2>3. ASSUME CancelInvoice("reverse") PROVE Rows /\ Payments /\ Settled
      <3>1. Rows
        BY <2>3, <1>1 DEF CancelInvoice, db
      <3>2. Payments /\ Settled
        BY <2>3 DEF CancelInvoice, Payments, Settled, StacksTypeOK, StxSwaps
      <3>. QED  BY <3>1, <3>2
    <2>4. ASSUME \/ \E v \in RowStates : ListenLockup("reverse", v) \/ ListenRefusedLockup("reverse", v)
                 \/ SetLockupTransaction("reverse") \/ MarkFailed("reverse")
          PROVE  Rows /\ Payments /\ Settled
      BY <2>4, <1>1, <1>2, <1>3 DEF ListenLockup, ListenRefusedLockup, SetLockupTransaction, MarkFailed
    <2>5. ASSUME \/ SetInvoiceSettled("reverse") \/ ExpireReverseSwap("reverse")
                 \/ SetTransactionRefunded("reverse")
          PROVE  Rows /\ Payments /\ Settled
      BY <2>5, <1>1, <1>2, <1>3 DEF SetInvoiceSettled, ExpireReverseSwap, SetTransactionRefunded, db
    <2>. QED  BY <1>11, <2>1, <2>2, <2>3, <2>4, <2>5 DEF ReverseSteps
  <1>12. ASSUME SwapSteps PROVE Rows /\ Payments /\ Settled
    <2>1. ASSUME SetInvoicePending("swap") PROVE Rows /\ Payments /\ Settled
      <3>1. Payments /\ Settled
        BY <2>1, <1>2 DEF SetInvoicePending
      <3>2. Rows
        BY <2>1 DEF SetInvoicePending, SetRow, Running, Rows, Holds, StacksTypeOK, StxSwaps
      <3>. QED  BY <3>1, <3>2
    <2>2. ASSUME SendPayment("swap") PROVE Rows /\ Payments /\ Settled
      <3>1. Rows /\ Settled
        BY <2>2, <1>1, <1>2, <1>5 DEF SendPayment, db
      <3>2. Payments
        BY <2>2 DEF SendPayment, Running, Payments, Holds, StacksTypeOK, StxSwaps
      <3>. QED  BY <3>1, <3>2
    <2>3. ASSUME \/ PaymentAnswered("swap") \/ SetMinerFee("swap") \/ LockupFailed("swap")
          PROVE  Rows /\ Payments /\ Settled
      BY <2>3, <1>1, <1>2, <1>3 DEF PaymentAnswered, SetMinerFee, LockupFailed
    <2>4. ASSUME ClaimStx("swap") \/ ExpireSwap("swap") \/ RetryQuery("swap")
          PROVE  Rows /\ Payments /\ Settled
      BY <2>4, <1>1, <1>2 DEF ClaimStx, ExpireSwap, RetryQuery, db
    <2>. QED  BY <1>12, <2>1, <2>2, <2>3, <2>4 DEF SwapSteps
  <1>13. ASSUME Restart \/ \E e \in notes : LoseNote(e) PROVE Rows /\ Payments /\ Settled
    <2>1. Payments /\ Settled
      BY <1>13, <1>2 DEF Restart, LoseNote
    <2>2. ASSUME Restart PROVE Rows
      BY <2>2, StacksAssumption DEF Restart, Rows, StxSwaps
    <2>. QED  BY <1>13, <2>1, <2>2, <1>1 DEF LoseNote, db
  <1>14. ASSUME MineBlock \/ (\E c \in mempool : ExecuteCall(c)) PROVE Rows /\ Payments /\ Settled
    BY <1>14, <1>1, <1>2 DEF MineBlock, ExecuteCall, db
  <1>15. ASSUME Outside PROVE Rows /\ Payments /\ Settled
    BY <1>15, <1>6, <1>7, <1>8, <1>14 DEF Outside
  <1>. QED  BY <1>9, <1>10, <1>11, <1>12, <1>13, <1>15 DEF StacksNext, Rows, Payments, Settled

(* What is paid for is good, and what is taken was claimed.                *)
LEMMA PayStep ==
  ASSUME StacksTypeOK, MoneyInv, StacksNext
  PROVE  PayInv' /\ TakenOnlyForClaim'
  <1>1. \A l \in Locks : queue[l] # << >> => HeadOf(l) \in Queued(l)
    BY HeadFacts, LockTypes
  <1>2. ASSUME NEW s \in Incoming, row'[s] = "InvoicePending" \/ invoice'[s] \in {"flying", "paid"}
        PROVE  Good(s)'
    <2>1. Good(s)
      BY <1>1, <1>2, MoneyMoves DEF MoneyInv, PayInv, JobInv, Holds, Locks
    <2>. QED  BY <2>1, ContractGrows DEF MoneyInv
  <1>3. ASSUME NEW s \in Outgoing, invoice'[s] = "settled"
        PROVE  "claimed" \in past'[s]
    <2>1. "claimed" \in past[s]
      BY <1>1, <1>3, MoneyMoves DEF MoneyInv, TakenOnlyForClaim, JobInv, Holds, Locks
    <2>. QED  BY <2>1, ContractGrows DEF MoneyInv, StxSwaps
  <1>. QED  BY <1>2, <1>3 DEF PayInv, TakenOnlyForClaim

(* All of it holds in every reachable state.                               *)
THEOREM StacksInductive == StacksSpec => []MoneyInv
  <1>1. StacksInit => MoneyInv
    <2>. SUFFICES ASSUME StacksInit PROVE MoneyInv
      OBVIOUS
    <2>1. JobInv /\ ChainInv
      BY DEF StacksInit, JobInv, ChainInv, Queued
    <2>2. PayInv /\ TakenOnlyForClaim
      BY StacksAssumption DEF StacksInit, PayInv, TakenOnlyForClaim, StxSwaps
    <2>. QED  BY <2>1, <2>2 DEF MoneyInv
  <1>2. StacksTypeOK /\ MoneyInv /\ StacksNext => MoneyInv'
    BY JobStep, ChainStep, PayStep DEF MoneyInv
  <1>3. MoneyInv /\ UNCHANGED stxVars => MoneyInv'
    BY DEF MoneyInv, JobInv, ChainInv, PayInv, TakenOnlyForClaim, Good, Sufficient, Queued, stxVars, db, chain, lock
  <1>. QED  BY <1>1, <1>2, <1>3, StacksTypeCorrect, PTL DEF StacksSpec

(* A payment for a reverse swap is taken only for coins that were claimed. *)
THEOREM TakesForClaims == StacksSpec => []TakenOnlyForClaim
  <1>1. MoneyInv => TakenOnlyForClaim
    BY DEF MoneyInv
  <1>. QED  BY <1>1, StacksInductive, PTL

(* An invoice is paid only for coins locked with the terms of the swap.    *)
THEOREM PaysForLockups == StacksSpec => []PaysOnlyGoodLockups
  <1>1. MoneyInv => PaysOnlyGoodLockups
    BY DEF MoneyInv, PayInv, PaysOnlyGoodLockups, Good, Sufficient
  <1>. QED  BY <1>1, StacksInductive, PTL

-----------------------------------------------------------------------------
(* Calls and what rows say of them *)

CallAwaits == {"signed", "recordLock", "accepted", "refusedLock", "recordClaim", "recordRefund"}

(* A step in which lock l has nothing to do with a call: it stays as it is *)
(* (another job may come to wait), is given back, or goes to another await.*)
Quietly(l) ==
  \/ at'[l] = at[l] /\ \/ queue[l] = << >>
                       \/ queue'[l] # << >> /\ HeadOf(l)' = HeadOf(l)
                       \/ at[l] = "start"
  \/ at[l] \notin {"signed", "recordLock", "accepted"} /\ at'[l] = "start"
  \/ at[l] \notin {"signed", "recordLock", "accepted"} /\ queue'[l] # << >> /\ at'[l] \notin CallAwaits

AllQuiet == (\A l \in Locks : Quietly(l)) /\ UNCHANGED <<node, acct, used>>

LEMMA QuietFrame ==
  ASSUME UNCHANGED <<queue, at>>
  PROVE  \A l \in Locks : Quietly(l)
  BY DEF Quietly, HeadOf

LEMMA QuietEnqueue ==
  ASSUME LockTypeOK, NEW kind \in JobKinds, NEW s \in StxSwaps, NEW sent \in BOOLEAN,
         Enqueue(kind, s, sent), UNCHANGED at
  PROVE  \A l \in Locks : Quietly(l)
  <1>1. Joined(s, Job(kind, s, sent))
    BY EnqueueFacts
  <1>. QED  BY <1>1 DEF Joined, Quietly

LEMMA QuietHandler ==
  ASSUME LockTypeOK, NEW l \in Locks, queue[l] # << >>,
         at[l] \notin {"signed", "recordLock", "accepted"},
         Release(l) \/ Throw(l) \/ \E await \in Awaits \ CallAwaits : Goto(l, await)
  PROVE  \A m \in Locks : Quietly(m)
  <1>1. CASE Release(l) \/ Throw(l)
    <2>1. Left(l)
      BY <1>1, ReleaseFacts
    <2>. QED  BY <2>1 DEF Left, Quietly
  <1>2. ASSUME NEW await \in Awaits \ CallAwaits, Goto(l, await) PROVE \A m \in Locks : Quietly(m)
    <2>1. /\ at'[l] = await /\ \A m \in Locks : m # l => at'[m] = at[m]
          /\ \A m \in Locks : queue'[m] = queue[m] /\ HeadOf(m)' = HeadOf(m)
      BY <1>2, GotoFacts
    <2>. QED  BY <1>2, <2>1 DEF Quietly
  <1>. QED  BY <1>1, <1>2

(* Every step is one of these.                                             *)
LEMMA StepKinds ==
  ASSUME StacksTypeOK, JobInv, StacksNext
  PROVE  \/ AllQuiet
         \/ UNCHANGED <<queue, at, used>> /\ \/ \E c \in mempool : ExecuteCall(c)
                                             \/ AskNonces \/ ApplyNonces
         \/ \E l \in Locks : CallSteps(l) \/ LoseAnswer(l)
         \/ \E value \in RowStates : ListenLockup("reverse", value)
         \/ Restart
  <1>. USE LockTypes DEF node, acct, lock
  <1>1. ASSUME Outside, ~\E c \in mempool : ExecuteCall(c) PROVE AllQuiet
    <2>1. UNCHANGED <<queue, at, used, node, acct>>
      BY <1>1 DEF Outside, MineBlock, PayHoldInvoice, UserClaims, UserRefunds, UserLocks, PaymentEnds
    <2>. QED  BY <2>1, QuietFrame DEF AllQuiet
  <1>2. ASSUME NEW c \in mempool, ExecuteCall(c) PROVE UNCHANGED <<queue, at, used>>
    BY <1>2 DEF ExecuteCall
  <1>3. AskNonces \/ ApplyNonces => UNCHANGED <<queue, at, used>>
    BY DEF AskNonces, ApplyNonces
  <1>4. ASSUME Nursery, ~AskNonces, ~ApplyNonces PROVE AllQuiet
    <2>1. UNCHANGED <<node, acct, used, at>>
      BY <1>4 DEF Nursery, InvoicePaid, CheckExpired, OnLockup, ConfirmOwnLockup, StoreUserLockup, OnClaim,
         RetryTimer
    <2>2. \/ UNCHANGED queue
          \/ \E kind \in JobKinds, s \in StxSwaps, sent \in BOOLEAN : Enqueue(kind, s, sent)
      <3>1. ASSUME NEW e \in notes, OnLockup(e) \/ ConfirmOwnLockup(e) PROVE UNCHANGED queue
        BY <3>1 DEF OnLockup, ConfirmOwnLockup
      <3>2. ASSUME NEW e \in notes, StoreUserLockup(e) \/ OnClaim(e)
            PROVE  \/ UNCHANGED queue
                   \/ \E kind \in JobKinds, s \in StxSwaps, sent \in BOOLEAN : Enqueue(kind, s, sent)
        <4>1. e.swap \in StxSwaps
          BY DEF StacksTypeOK, Notes
        <4>. QED  BY <3>2, <4>1 DEF StoreUserLockup, OnClaim, JobKinds
      <3>3. ASSUME RetryTimer
            PROVE  \E kind \in JobKinds, s \in StxSwaps, sent \in BOOLEAN : Enqueue(kind, s, sent)
        BY <3>3 DEF RetryTimer, JobKinds, StxSwaps
      <3>4. ASSUME NEW s \in StxSwaps, InvoicePaid(s) \/ CheckExpired(s)
            PROVE  \E kind \in JobKinds, sent \in BOOLEAN : Enqueue(kind, s, sent)
        <4>1. (txid[s] # 0) \in BOOLEAN
          OBVIOUS
        <4>. QED  BY <3>4, <4>1 DEF InvoicePaid, CheckExpired, JobKinds
      <3>. QED  BY <1>4, <3>1, <3>2, <3>3, <3>4 DEF Nursery
    <2>. QED  BY <2>1, <2>2, QuietFrame, QuietEnqueue DEF AllQuiet
  <1>5. ASSUME NEW l \in Locks, SetSwapExpired(l) PROVE AllQuiet
    <2>1. UNCHANGED <<node, acct, used>>
      BY <1>5 DEF SetSwapExpired
    <2>2. queue[l] # << >> /\ at[l] = "expire" /\ (Release(l) \/ Goto(l, "cancel"))
      BY <1>5 DEF SetSwapExpired
    <2>. QED  BY <2>1, <2>2, QuietHandler DEF AllQuiet, Awaits, CallAwaits
  <1>6. ASSUME ReverseSteps, ~\E value \in RowStates : ListenLockup("reverse", value) PROVE AllQuiet
    <2>1. UNCHANGED <<node, acct, used>>
      BY <1>6 DEF ReverseSteps, ListenRefusedLockup, SetLockupTransaction, SendFailed, MarkFailed,
         SettleInvoice, SetInvoiceSettled, ExpireReverseSwap, SetTransactionRefunded, CancelInvoice
    <2>2. "reverse" \in Locks
      BY DEF Locks
    <2>3. ASSUME \/ SetLockupTransaction("reverse") \/ SendFailed("reverse") \/ MarkFailed("reverse")
                 \/ SettleInvoice("reverse") \/ SetInvoiceSettled("reverse")
          PROVE  \A l \in Locks : Quietly(l)
      <3>1. /\ queue["reverse"] # << >> /\ at["reverse"] \notin {"signed", "recordLock", "accepted"}
            /\ \/ Release("reverse") \/ Throw("reverse")
               \/ Goto("reverse", "markFailed") \/ Goto("reverse", "settled")
        BY <2>3 DEF SetLockupTransaction, SendFailed, MarkFailed, SettleInvoice, SetInvoiceSettled, Running
      <3>. QED  BY <2>2, <3>1, QuietHandler DEF Awaits, CallAwaits
    <2>4. ASSUME ExpireReverseSwap("reverse") \/ SetTransactionRefunded("reverse") \/ CancelInvoice("reverse")
          PROVE  \A l \in Locks : Quietly(l)
      <3>1. /\ queue["reverse"] # << >> /\ at["reverse"] \notin {"signed", "recordLock", "accepted"}
            /\ \/ Release("reverse") \/ Goto("reverse", "refund")
               \/ Goto("reverse", "expire") \/ Goto("reverse", "cancel")
        BY <2>4 DEF ExpireReverseSwap, SetTransactionRefunded, CancelInvoice, Running
      <3>. QED  BY <2>2, <3>1, QuietHandler DEF Awaits, CallAwaits
    <2>5. ASSUME NEW value \in RowStates, ListenRefusedLockup("reverse", value)
          PROVE  \A l \in Locks : Quietly(l)
      <3>. DEFINE s == HeadOf("reverse").swap
      <3>1. s \in StxSwaps /\ LockOf(s) = "reverse"
        BY <2>2, <2>5, HeadFacts DEF ListenRefusedLockup, JobInv
      <3>2. Enqueue("lockup.failedToSend", s, TRUE)
        BY <2>5, <3>1 DEF ListenRefusedLockup, Enqueue
      <3>3. Joined(s, Job("lockup.failedToSend", s, TRUE))
        BY <3>1, <3>2, EnqueueFacts DEF JobKinds
      <3>4. at' = [at EXCEPT !["reverse"] = "record"] /\ at["reverse"] = "refusedLock"
        BY <2>5 DEF ListenRefusedLockup
      <3>. QED  BY <2>2, <3>1, <3>3, <3>4 DEF Joined, Quietly, CallAwaits, LockTypeOK
    <2>. QED  BY <1>6, <2>1, <2>3, <2>4, <2>5 DEF ReverseSteps, AllQuiet
  <1>7. ASSUME SwapSteps PROVE AllQuiet
    <2>1. UNCHANGED <<node, acct, used>>
      BY <1>7 DEF SwapSteps, ClaimStx, SetInvoicePending, SendPayment, PaymentAnswered, SetMinerFee,
         LockupFailed, ExpireSwap, RetryQuery
    <2>2. "swap" \in Locks
      BY DEF Locks
    <2>3. ASSUME ~RetryQuery("swap") PROVE \A l \in Locks : Quietly(l)
      <3>1. /\ queue["swap"] # << >> /\ at["swap"] \notin {"signed", "recordLock", "accepted"}
            /\ \/ Release("swap")
               \/ \E await \in {"pay", "send", "paying", "claim", "expire"} : Goto("swap", await)
        BY <1>7, <2>3 DEF SwapSteps, ClaimStx, SetInvoicePending, SendPayment, PaymentAnswered, SetMinerFee,
           LockupFailed, ExpireSwap, Running
      <3>. QED  BY <2>2, <3>1, QuietHandler DEF Awaits, CallAwaits
    <2>4. ASSUME RetryQuery("swap") PROVE \A l \in Locks : Quietly(l)
      <3>1. /\ at' = at /\ at["swap"] = "start"
            /\ \A l \in Locks : l # "swap" => queue'[l] = queue[l]
        BY <2>4 DEF RetryQuery, Running, LockTypeOK
      <3>. QED  BY <3>1 DEF Quietly, HeadOf
    <2>. QED  BY <2>1, <2>3, <2>4 DEF AllQuiet
  <1>8. ASSUME NEW e \in notes, LoseNote(e) PROVE AllQuiet
    <2>1. UNCHANGED <<queue, at, used, node, acct>>
      BY <1>8 DEF LoseNote
    <2>. QED  BY <2>1, QuietFrame DEF AllQuiet
  <1>. QED  BY <1>1, <1>2, <1>3, <1>4, <1>5, <1>6, <1>7, <1>8 DEF StacksNext, Nursery

(* A call that was made stays known: it waits, was executed, failed or was *)
(* refused.                                                                *)
LEMMA NodeGrows ==
  ASSUME StacksTypeOK, JobInv, StacksNext
  PROVE  /\ refused \subseteq refused' /\ aborted \subseteq aborted'
         /\ mempool \subseteq mempool' \/ \E c \in mempool : ExecuteCall(c)
  <1>1. ASSUME AllQuiet PROVE UNCHANGED node
    BY <1>1 DEF AllQuiet
  <1>2. AskNonces \/ ApplyNonces \/ Restart => UNCHANGED node
    BY DEF AskNonces, ApplyNonces, Restart
  <1>3. ASSUME NEW value \in RowStates, ListenLockup("reverse", value) PROVE UNCHANGED node
    BY <1>3 DEF ListenLockup
  <1>4. ASSUME NEW c \in mempool, ExecuteCall(c) PROVE refused' = refused /\ aborted \subseteq aborted'
    BY <1>4 DEF ExecuteCall
  <1>5. ASSUME NEW l \in Locks, CallSteps(l) \/ LoseAnswer(l)
        PROVE  refused \subseteq refused' /\ aborted' = aborted /\ mempool \subseteq mempool'
    BY <1>5 DEF CallSteps, Sign, CallAccepted, CallRefused, IncrementNonce, LoseAnswer, Submit, node
  <1>. QED  BY <1>1, <1>2, <1>3, <1>4, <1>5, StepKinds DEF node

LEMMA ExplainedStays ==
  ASSUME StacksTypeOK, JobInv, ChainInv, StacksNext, NEW op \in Ops, NEW s \in StxSwaps, Explained(op, s)
  PROVE  Explained(op, s)'
  <1>1. /\ refused \subseteq refused' /\ aborted \subseteq aborted' /\ past[s] \subseteq past'[s]
        /\ mempool \subseteq mempool' \/ \E c \in mempool : ExecuteCall(c)
    BY NodeGrows, ContractGrows
  <1>2. ASSUME ResultOf[op] \in past[s] \/ <<op, s>> \in refused \/ \E c \in aborted : c.op = op /\ c.swap = s
        PROVE  Explained(op, s)'
    BY <1>1, <1>2 DEF Explained
  <1>3. ASSUME Live(op, s), mempool \subseteq mempool' PROVE Explained(op, s)'
    BY <1>3 DEF Explained, Live
  <1>4. ASSUME NEW c \in mempool, ExecuteCall(c), Live(op, s) PROVE Explained(op, s)'
    <2>1. PICK d \in mempool : d.op = op /\ d.swap = s
      BY <1>4 DEF Live
    <2>2. mempool' = mempool \ {c}
      BY <1>4 DEF ExecuteCall
    <2>3. CASE d # c
      BY <2>1, <2>2, <2>3 DEF Explained, Live
    <2>4. CASE d = c
      <3>1. CASE Succeeds(c.op, c.swap)
        <4>1. SetEntry(s, ResultOf[op])
          BY <1>4, <2>1, <2>4, <3>1 DEF ExecuteCall
        <4>2. ResultOf[op] \in past'[s]
          BY <4>1 DEF SetEntry, StacksTypeOK
        <4>. QED  BY <4>2 DEF Explained
      <3>2. CASE ~Succeeds(c.op, c.swap)
        <4>1. c \in aborted'
          BY <1>4, <3>2 DEF ExecuteCall
        <4>. QED  BY <2>1, <2>4, <4>1 DEF Explained
      <3>. QED  BY <3>1, <3>2
    <2>. QED  BY <2>3, <2>4
  <1>. QED  BY <1>1, <1>2, <1>3, <1>4 DEF Explained

(* What the handler that holds lock l knows of its call.                   *)
CallKnown(l) ==
  IF queue[l] = << >> THEN at[l] = "start"
  ELSE /\ at[l] \in {"recordLock", "accepted"} => Explained(OpOf(HeadOf(l).kind), HeadOf(l).swap)
       /\ at[l] \in {"recordLock", "refusedLock"} => OpOf(HeadOf(l).kind) = "lock"
       /\ at[l] = "recordClaim" => Explained("claim", HeadOf(l).swap)
       /\ at[l] = "recordRefund" => Explained("refund", HeadOf(l).swap)

LEMMA QuietlyKnown ==
  ASSUME StacksTypeOK, JobInv, ChainInv, StacksNext, NEW l \in Locks, CallKnown(l), Quietly(l)
  PROVE  CallKnown(l)'
  <1>1. CASE at'[l] = "start"
    BY <1>1 DEF CallKnown
  <1>2. CASE queue'[l] # << >> /\ at'[l] \notin CallAwaits
    BY <1>2 DEF CallKnown, CallAwaits
  <1>3. CASE at'[l] = at[l] /\ queue[l] # << >> /\ queue'[l] # << >> /\ HeadOf(l)' = HeadOf(l)
    <2>1. PICK s \in StxSwaps, kind \in JobKinds : HeadOf(l).swap = s /\ HeadOf(l).kind = kind
      BY <1>3, HeadFacts, LockTypes
    <2>2. HeadOf(l)'.swap = s /\ HeadOf(l)'.kind = kind
      BY <1>3, <2>1
    <2>3. OpOf(kind) \in Ops /\ "claim" \in Ops /\ "refund" \in Ops
      BY TableFacts DEF Ops
    <2>4. \A op \in Ops : Explained(op, s) => Explained(op, s)'
      BY ExplainedStays
    <2>. QED  BY <1>3, <2>1, <2>2, <2>3, <2>4 DEF CallKnown
  <1>4. CASE at'[l] = at[l] /\ (queue[l] = << >> \/ at[l] = "start")
    BY <1>4 DEF CallKnown
  <1>. QED  BY <1>1, <1>2, <1>3, <1>4 DEF Quietly

(* The steps of a call and the await each leads to.                        *)
LEMMA CallMoves ==
  ASSUME LockTypeOK, NEW l \in Locks, CallSteps(l),
         NEW s \in StxSwaps, NEW kind \in JobKinds, HeadOf(l).swap = s, HeadOf(l).kind = kind
  PROVE  /\ Sign(l) => Goto(l, "signed")
         /\ CallAccepted(l) => Goto(l, IF OpOf(kind) = "lock" THEN "recordLock" ELSE "accepted")
         /\ CallRefused(l) => Goto(l, Unanswered[OpOf(kind)])
         /\ IncrementNonce(l) => Goto(l, CASE OpOf(kind) = "lock"  -> "record"
                                           [] OpOf(kind) = "claim" -> "recordClaim"
                                           [] OTHER                -> "recordRefund")
         /\ \E await \in Awaits : Goto(l, await)
  <1>. USE DEF Awaits
  <1>1. CASE Sign(l)
    BY <1>1 DEF Sign, CallAccepted, CallRefused, IncrementNonce, Running
  <1>0. OpOf(HeadOf(l).kind) = OpOf(kind) /\ Unanswered[OpOf(kind)] \in Awaits
    BY TableFacts
  <1>2. CallAccepted(l) => Goto(l, IF OpOf(kind) = "lock" THEN "recordLock" ELSE "accepted")
    BY <1>0, Zenon DEF CallAccepted
  <1>3. CallRefused(l) => Goto(l, Unanswered[OpOf(kind)])
    BY <1>0, Zenon DEF CallRefused
  <1>4. IncrementNonce(l) => Goto(l, CASE OpOf(kind) = "lock"  -> "record"
                                       [] OpOf(kind) = "claim" -> "recordClaim"
                                       [] OTHER                -> "recordRefund")
    BY <1>0 DEF IncrementNonce
  <1>5. Sign(l) => Goto(l, "signed")
    BY DEF Sign
  <1>6. CallAccepted(l) => \E await \in Awaits : Goto(l, await)
    BY <1>2
  <1>7. CallRefused(l) => \E await \in Awaits : Goto(l, await)
    BY <1>0, <1>3
  <1>8. IncrementNonce(l) => \E await \in Awaits : Goto(l, await)
    BY <1>4
  <1>. QED  BY <1>2, <1>3, <1>4, <1>5, <1>6, <1>7, <1>8 DEF CallSteps

(* A call that was answered has been made or refused.                      *)
LEMMA CallStep ==
  ASSUME StacksTypeOK, MoneyInv, StacksNext, CallInv
  PROVE  CallInv'
  <1>. USE LockTypes
  <1>0. JobInv /\ ChainInv /\ \A l \in Locks : CallKnown(l)
    BY DEF MoneyInv, CallInv, CallKnown
  <1>. SUFFICES \A l \in Locks : CallKnown(l)'
    BY DEF CallInv, CallKnown
  <1>1. ASSUME \A l \in Locks : Quietly(l) PROVE \A l \in Locks : CallKnown(l)'
    BY <1>0, <1>1, QuietlyKnown
  <1>2. ASSUME UNCHANGED <<queue, at>> PROVE \A l \in Locks : CallKnown(l)'
    BY <1>1, <1>2, QuietFrame
  <1>3. ASSUME NEW l \in Locks, queue[l] # << >>, NEW await \in Awaits, Goto(l, await), CallKnown(l)'
        PROVE  \A m \in Locks : CallKnown(m)'
    <2>1. \A m \in Locks : m # l => at'[m] = at[m] /\ queue'[m] = queue[m] /\ HeadOf(m)' = HeadOf(m)
      BY <1>3, GotoFacts
    <2>2. \A m \in Locks : m # l => Quietly(m)
      BY <2>1 DEF Quietly
    <2>. QED  BY <1>0, <1>3, <2>2, QuietlyKnown
  <1>4. ASSUME NEW l \in Locks, CallSteps(l) PROVE CallKnown(l)'
    <2>1. queue[l] # << >>
      BY <1>4 DEF CallSteps, Sign, Running, CallAccepted, CallRefused, IncrementNonce
    <2>2. PICK s \in StxSwaps, kind \in JobKinds : HeadOf(l).swap = s /\ HeadOf(l).kind = kind
      BY <2>1, HeadFacts
    <2>3. OpOf(kind) \in Ops
      BY TableFacts
    <2>4. \E await \in Awaits : Goto(l, await)
      BY <1>4, <2>2, CallMoves
    <2>5. queue'[l] # << >> /\ HeadOf(l)'.swap = s /\ HeadOf(l)'.kind = kind
      BY <2>1, <2>2, <2>4, GotoFacts
    <2>6. CASE Sign(l)
      <3>1. at'[l] = "signed"
        BY <2>6, GotoFacts DEF Sign, Awaits
      <3>. QED  BY <2>5, <3>1 DEF CallKnown
    <2>7. CASE CallAccepted(l)
      <3>1. Explained(OpOf(kind), s)'
        <4>1. [nonce |-> used[l], op |-> OpOf(kind), swap |-> s] \in mempool'
          <5>1. OpOf(HeadOf(l).kind) = OpOf(kind) /\ HeadOf(l).swap = s
            BY <2>2
          <5>2. Submit(l)
            BY <2>7 DEF CallAccepted
          <5>. QED  BY <5>1, <5>2 DEF Submit
        <4>2. Live(OpOf(kind), s)'
          BY <4>1 DEF Live
        <4>. QED  BY <4>2 DEF Explained
      <3>2. at'[l] = IF OpOf(kind) = "lock" THEN "recordLock" ELSE "accepted"
        <4>1. Goto(l, IF OpOf(kind) = "lock" THEN "recordLock" ELSE "accepted")
          BY <1>4, <2>2, <2>7, CallMoves
        <4>. QED  BY <4>1, GotoFacts DEF Awaits
      <3>. QED  BY <2>5, <3>1, <3>2 DEF CallKnown
    <2>8. CASE CallRefused(l)
      <3>1. Explained(OpOf(kind), s)'
        BY <2>2, <2>8 DEF CallRefused, Explained
      <3>2. at'[l] = Unanswered[OpOf(kind)]
        BY <2>2, <2>3, <2>8, TableFacts, GotoFacts DEF CallRefused
      <3>3. \/ OpOf(kind) = "lock" /\ at'[l] = "refusedLock"
            \/ OpOf(kind) = "claim" /\ at'[l] = "recordClaim"
            \/ OpOf(kind) = "refund" /\ at'[l] = "recordRefund"
        BY <2>3, <3>2 DEF Unanswered, Ops
      <3>. QED  BY <2>5, <3>1, <3>3 DEF CallKnown
    <2>9. CASE IncrementNonce(l)
      <3>1. Explained(OpOf(kind), s)'
        <4>1. Explained(OpOf(kind), s)
          BY <1>0, <2>1, <2>2, <2>9 DEF CallKnown, IncrementNonce
        <4>. QED  BY <1>0, <2>3, <4>1, ExplainedStays
      <3>2. \/ OpOf(kind) = "lock" /\ at'[l] = "record"
            \/ OpOf(kind) = "claim" /\ at'[l] = "recordClaim"
            \/ OpOf(kind) = "refund" /\ at'[l] = "recordRefund"
        <4>1. Goto(l, CASE OpOf(kind) = "lock"  -> "record"
                        [] OpOf(kind) = "claim" -> "recordClaim"
                        [] OTHER                -> "recordRefund")
          BY <1>4, <2>2, <2>9, CallMoves
        <4>. QED  BY <2>3, <4>1, GotoFacts DEF Awaits, Ops
      <3>. QED  BY <2>5, <3>1, <3>2 DEF CallKnown
    <2>. QED  BY <1>4, <2>6, <2>7, <2>8, <2>9 DEF CallSteps
  <1>5. ASSUME NEW l \in Locks, CallSteps(l) PROVE \A m \in Locks : CallKnown(m)'
    <2>1. queue[l] # << >>
      BY <1>5 DEF CallSteps, Sign, Running, CallAccepted, CallRefused, IncrementNonce
    <2>2. \E await \in Awaits : Goto(l, await)
      BY <1>5, <2>1, HeadFacts, CallMoves
    <2>. QED  BY <1>3, <1>4, <1>5, <2>1, <2>2
  <1>6. ASSUME NEW l \in Locks, LoseAnswer(l) PROVE \A m \in Locks : CallKnown(m)'
    <2>1. queue[l] # << >> /\ (Throw(l) \/ Goto(l, "sendFailed"))
      BY <1>6 DEF LoseAnswer
    <2>2. CASE Throw(l)
      <3>1. Left(l)
        BY <2>1, <2>2, ReleaseFacts
      <3>2. \A m \in Locks : m # l => Quietly(m)
        BY <3>1 DEF Left, Quietly
      <3>3. CallKnown(l)'
        BY <3>1 DEF Left, CallKnown
      <3>. QED  BY <1>0, <3>2, <3>3, QuietlyKnown
    <2>3. CASE Goto(l, "sendFailed")
      <3>1. at'[l] = "sendFailed" /\ queue'[l] = queue[l]
        BY <2>3, GotoFacts DEF Awaits
      <3>2. CallKnown(l)'
        BY <2>1, <3>1 DEF CallKnown
      <3>. QED  BY <1>3, <2>1, <2>3, <3>2 DEF Awaits
    <2>. QED  BY <2>1, <2>2, <2>3
  <1>7. ASSUME NEW value \in RowStates, ListenLockup("reverse", value) PROVE \A m \in Locks : CallKnown(m)'
    <2>1. "reverse" \in Locks /\ queue["reverse"] # << >> /\ Goto("reverse", "accepted")
          /\ at["reverse"] = "recordLock"
      BY <1>7 DEF ListenLockup, Locks
    <2>2. PICK s \in StxSwaps, kind \in JobKinds : HeadOf("reverse").swap = s /\ HeadOf("reverse").kind = kind
      BY <2>1, HeadFacts
    <2>3. OpOf(kind) \in Ops /\ Explained(OpOf(kind), s)
      BY <1>0, <2>1, <2>2, TableFacts DEF CallKnown
    <2>4. Explained(OpOf(kind), s)'
      BY <1>0, <2>3, ExplainedStays
    <2>5. /\ at'["reverse"] = "accepted" /\ queue'["reverse"] # << >>
          /\ HeadOf("reverse")'.swap = s /\ HeadOf("reverse")'.kind = kind
      BY <2>1, <2>2, GotoFacts DEF Awaits
    <2>6. CallKnown("reverse")'
      BY <2>4, <2>5 DEF CallKnown
    <2>. QED  BY <1>3, <2>1, <2>6 DEF Awaits
  <1>8. ASSUME Restart PROVE \A m \in Locks : CallKnown(m)'
    BY <1>8 DEF Restart, CallKnown
  <1>9. AllQuiet => \A m \in Locks : CallKnown(m)'
    BY <1>1 DEF AllQuiet
  <1>10. (\E l \in Locks : CallSteps(l) \/ LoseAnswer(l)) => \A m \in Locks : CallKnown(m)'
    BY <1>5, <1>6
  <1>11. (\E value \in RowStates : ListenLockup("reverse", value)) => \A m \in Locks : CallKnown(m)'
    BY <1>7
  <1>12. UNCHANGED <<queue, at, used>> => \A m \in Locks : CallKnown(m)'
    BY <1>2
  <1>14. StacksTypeOK /\ JobInv /\ StacksNext
    BY <1>0
  <1>13. \/ AllQuiet \/ UNCHANGED <<queue, at, used>> \/ Restart
         \/ \E l \in Locks : CallSteps(l) \/ LoseAnswer(l)
         \/ \E value \in RowStates : ListenLockup("reverse", value)
    BY <1>14, StepKinds
  <1>. QED  BY <1>8, <1>9, <1>10, <1>11, <1>12, <1>13

(* A row comes to say that coins were claimed or refunded only at the end  *)
(* of a call.                                                              *)
Recorded(s) ==
  \/ row'[s] = row[s] \/ row'[s] \notin {"TransactionClaimed", "TransactionRefunded"}
  \/ \E l \in Locks :
       /\ queue[l] # << >> /\ HeadOf(l).swap = s
       /\ \/ at[l] = "recordClaim" /\ row'[s] = "TransactionClaimed"
          \/ at[l] = "recordRefund" /\ row'[s] = "TransactionRefunded"

LEMMA RowSet ==
  ASSUME StacksTypeOK, NEW t \in StxSwaps, NEW value, SetRow(t, value),
         value \notin {"TransactionClaimed", "TransactionRefunded"}
  PROVE  \A s \in StxSwaps : Recorded(s)
  BY DEF SetRow, StacksTypeOK, Recorded

LEMMA HeadRowSet ==
  ASSUME StacksTypeOK, NEW l \in Locks, queue[l] # << >>, NEW value, SetRow(HeadOf(l).swap, value),
         \/ value \notin {"TransactionClaimed", "TransactionRefunded"}
         \/ value = "TransactionClaimed" /\ at[l] = "recordClaim"
         \/ value = "TransactionRefunded" /\ at[l] = "recordRefund"
  PROVE  \A s \in StxSwaps : Recorded(s)
  <1>1. row' = [row EXCEPT ![HeadOf(l).swap] = value] /\ row \in [StxSwaps -> RowStates]
    BY DEF SetRow, StacksTypeOK
  <1>. QED  BY <1>1 DEF Recorded

LEMMA RowMoves ==
  ASSUME StacksTypeOK, StacksNext
  PROVE  \A s \in StxSwaps : Recorded(s)
  <1>. USE DEF db, Locks
  <1>0. UNCHANGED row => \A s \in StxSwaps : Recorded(s)
    BY DEF Recorded
  <1>1. CASE Outside
    BY <1>0, <1>1 DEF Outside, ExecuteCall, MineBlock, PayHoldInvoice, UserClaims, UserRefunds,
       UserLocks, PaymentEnds
  <1>2. CASE Nursery
    <2>1. ASSUME NEW e \in notes, ConfirmOwnLockup(e) \/ StoreUserLockup(e)
          PROVE  \A s \in StxSwaps : Recorded(s)
      <3>1. e.swap \in StxSwaps
        BY DEF StacksTypeOK, Notes
      <3>2. SetRow(e.swap, "TransactionConfirmed")
        BY <2>1 DEF ConfirmOwnLockup, StoreUserLockup
      <3>. QED  BY <3>1, <3>2, RowSet
    <2>2. ASSUME ~\E e \in notes : ConfirmOwnLockup(e) \/ StoreUserLockup(e) PROVE UNCHANGED row
      BY <1>2, <2>2 DEF Nursery, InvoicePaid, CheckExpired, OnLockup, OnClaim, RetryTimer,
         AskNonces, ApplyNonces
    <2>. QED  BY <1>0, <2>1, <2>2
  <1>3. ASSUME NEW l \in Locks, CallSteps(l) \/ LoseAnswer(l) PROVE UNCHANGED row
    BY <1>3 DEF CallSteps, Sign, CallAccepted, CallRefused, IncrementNonce, LoseAnswer
  <1>4. ASSUME NEW l \in Locks, SetSwapExpired(l) PROVE \A s \in StxSwaps : Recorded(s)
    BY <1>4, HeadRowSet DEF SetSwapExpired
  <1>5. CASE ReverseSteps
    <2>1. ASSUME NEW value \in RowStates,
                 ListenLockup("reverse", value) \/ ListenRefusedLockup("reverse", value)
          PROVE  \A s \in StxSwaps : Recorded(s)
      BY <2>1, HeadRowSet DEF ListenLockup, ListenRefusedLockup
    <2>2. CASE \/ SetLockupTransaction("reverse") \/ MarkFailed("reverse")
               \/ SetInvoiceSettled("reverse") \/ SetTransactionRefunded("reverse")
      BY <2>2, HeadRowSet DEF SetLockupTransaction, MarkFailed, SetInvoiceSettled,
         SetTransactionRefunded, Running
    <2>3. CASE \/ SendFailed("reverse") \/ SettleInvoice("reverse")
               \/ ExpireReverseSwap("reverse") \/ CancelInvoice("reverse")
      BY <1>0, <2>3 DEF SendFailed, SettleInvoice, ExpireReverseSwap, CancelInvoice
    <2>. QED  BY <1>5, <2>1, <2>2, <2>3 DEF ReverseSteps
  <1>6. CASE SwapSteps
    <2>1. CASE SetInvoicePending("swap") \/ PaymentAnswered("swap")
      BY <1>0, <2>1, HeadRowSet DEF SetInvoicePending, PaymentAnswered, Running
    <2>2. CASE SetMinerFee("swap") \/ LockupFailed("swap")
      BY <2>2, HeadRowSet DEF SetMinerFee, LockupFailed, Running
    <2>3. CASE \/ ClaimStx("swap") \/ SendPayment("swap") \/ ExpireSwap("swap")
               \/ RetryQuery("swap")
      BY <1>0, <2>3 DEF ClaimStx, SendPayment, ExpireSwap, RetryQuery
    <2>. QED  BY <1>6, <2>1, <2>2, <2>3 DEF SwapSteps
  <1>7. ASSUME NEW e \in notes, LoseNote(e) PROVE UNCHANGED row
    BY <1>7 DEF LoseNote
  <1>8. CASE Restart
    BY <1>8 DEF Restart, RowAfterInit, StacksTypeOK, Recorded
  <1>. QED  BY <1>0, <1>1, <1>2, <1>3, <1>4, <1>5, <1>6, <1>7, <1>8 DEF StacksNext

LEMMA RowStep ==
  ASSUME StacksTypeOK, MoneyInv, RecordInv, StacksNext
  PROVE  RecordInv'
  <1>. USE LockTypes
  <1>0. JobInv /\ ChainInv /\ CallInv
    BY DEF MoneyInv, RecordInv
  <1>1. CallInv'
    BY <1>0, CallStep
  <1>2. ASSUME NEW s \in StxSwaps
        PROVE  /\ row'[s] = "TransactionClaimed" => Explained("claim", s)
               /\ row'[s] = "TransactionRefunded" => Explained("refund", s)
    <2>1. CASE \/ row'[s] = row[s]
               \/ row'[s] \notin {"TransactionClaimed", "TransactionRefunded"}
      BY <2>1 DEF RecordInv, RowExplained
    <2>2. ASSUME NEW l \in Locks, queue[l] # << >>, HeadOf(l).swap = s,
                 \/ at[l] = "recordClaim" /\ row'[s] = "TransactionClaimed"
                 \/ at[l] = "recordRefund" /\ row'[s] = "TransactionRefunded"
          PROVE  /\ row'[s] = "TransactionClaimed" => Explained("claim", s)
                 /\ row'[s] = "TransactionRefunded" => Explained("refund", s)
      BY <1>0, <2>2 DEF CallInv
    <2>3. Recorded(s)
      BY RowMoves
    <2>. QED  BY <2>1, <2>2, <2>3 DEF Recorded
  <1>3. ASSUME NEW s \in StxSwaps, NEW op \in {"claim", "refund"}, Explained(op, s)
        PROVE  Explained(op, s)'
    BY <1>0, <1>3, ExplainedStays DEF Ops
  <1>4. RowExplained'
    BY <1>2, <1>3 DEF RowExplained
  <1>. QED  BY <1>1, <1>4 DEF RecordInv

(* The status column never invents a claim or a refund: whatever crashes,  *)
(* lost answers and late events there are, TransactionClaimed and          *)
(* TransactionRefunded stand for a call that was made.                     *)
THEOREM RowsExplained == StacksSpec => []RowExplained
  <1>1. StacksInit => RecordInv
    BY DEF StacksInit, RecordInv, CallInv, RowExplained, Locks
  <1>2. StacksTypeOK /\ MoneyInv /\ RecordInv /\ [StacksNext]_stxVars => RecordInv'
    <2>1. ASSUME UNCHANGED stxVars, RecordInv PROVE RecordInv'
      BY <2>1 DEF stxVars, db, chain, node, acct, lock, RecordInv, CallInv, RowExplained,
         Explained, Live, HeadOf
    <2>. QED  BY <2>1, RowStep
  <1>3. RecordInv => RowExplained
    BY DEF RecordInv
  <1>. QED  BY <1>1, <1>2, <1>3, StacksTypeCorrect, StacksInductive, PTL DEF StacksSpec

-----------------------------------------------------------------------------
(* Nonces *)

Answered(l) == at[l] \in {"recordLock", "accepted"}

(* What the node says of the account while calls are made one at a time.   *)
LEMMA SerialNonces ==
  ASSUME StacksTypeOK, Serial
  PROVE  /\ Missing = {} /\ \A n \in Nat : NextNonce(n) => n = Taken + 1
         /\ NextNonce(Taken + 1) /\ \A n : FirstMissing(n) => n = 0
         /\ nonce \in Nat /\ executed \in Nat /\ Taken \in Int
  <1>1. nonce \in Nat /\ executed \in Nat /\ executed >= 1 /\ Taken \in Int
    BY StacksAssumption DEF StacksTypeOK, Taken
  <1>2. executed..Taken \subseteq Nonces
    BY DEF Serial, NoncesOf, StacksTypeOK, Calls
  <1>3. Pending = executed..Taken
    BY <1>1, <1>2 DEF Serial, Pending
  <1>4. Missing = {}
    BY <1>1, <1>3 DEF Missing, Nonces
  <1>5. executed <= Taken + 1
    BY DEF Serial
  <1>6. CASE executed <= Taken
    <2>1. Taken \in Pending /\ Pending # {} /\ Pending \subseteq Int
      BY <1>1, <1>3, <1>6
    <2>2. \A m \in Pending : m < Taken + 1
      BY <1>1, <1>3
    <2>3. ASSUME NEW n \in Nat, n - 1 \in Pending, \A m \in Pending : m < n PROVE n = Taken + 1
      <3>1. Taken < n /\ n - 1 \in executed..Taken
        BY <1>3, <2>1, <2>3
      <3>. QED  BY <1>1, <3>1
    <2>. QED  BY <1>1, <1>4, <2>1, <2>2, <2>3 DEF NextNonce, FirstMissing
  <1>7. CASE executed = Taken + 1
    BY <1>1, <1>3, <1>4, <1>7 DEF NextNonce, FirstMissing
  <1>. QED  BY <1>1, <1>4, <1>5, <1>6, <1>7

(* The last nonce taken, seen from the one handler that is calling.        *)
LEMMA TakenByOne ==
  ASSUME Serial, NEW l \in Locks, Calling(l)
  PROVE  Taken = IF Answered(l) THEN nonce ELSE nonce - 1
  BY DEF Serial, Calling, Answered, Taken

LEMMA TakenByNone ==
  ASSUME \A l \in Locks : ~Calling(l)
  PROVE  Taken = nonce - 1
  BY DEF Calling, Taken

(* A step that no call takes part in.                                      *)
LEMMA SerialFrame ==
  ASSUME Serial, UNCHANGED <<node, nonce, poll>>,
         \A l \in Locks : Calling(l)' => Calling(l) /\ used'[l] = used[l],
         \A l \in Locks : Answered(l)' <=> Answered(l)
  PROVE  Serial'
  <1>1. Taken' = Taken
    BY DEF Taken, Answered
  <1>. QED  BY <1>1 DEF Serial, node, NoncesOf

LEMMA QuietSerial ==
  ASSUME Serial, AllQuiet
  PROVE  Serial'
  <1>1. \A l \in Locks : (Calling(l)' => Calling(l)) /\ (Answered(l)' <=> Answered(l))
    BY DEF AllQuiet, Quietly, Calling, Answered, CallAwaits
  <1>2. UNCHANGED <<node, nonce, poll, used>>
    BY DEF AllQuiet, acct
  <1>. QED  BY <1>1, <1>2, SerialFrame

(* The next call is executed.                                              *)
LEMMA ExecuteSerial ==
  ASSUME StacksTypeOK, OneCallPerNonce, Serial, NEW c \in mempool, ExecuteCall(c)
  PROVE  Serial'
  <1>1. nonce \in Nat /\ executed \in Nat /\ Taken \in Int
    BY SerialNonces
  <1>2. /\ c.nonce = executed /\ executed' = executed + 1 /\ mempool' = mempool \ {c}
        /\ UNCHANGED <<refused, nonce, poll, queue, at, used>>
    BY DEF ExecuteCall, acct, lock
  <1>3. Taken' = Taken
    BY <1>2 DEF Taken
  <1>4. executed \in executed..Taken
    BY <1>2 DEF Serial, NoncesOf
  <1>5. NoncesOf(mempool)' = (executed + 1)..Taken
    <2>1. ASSUME NEW n \in (executed + 1)..Taken PROVE n \in NoncesOf(mempool)'
      <3>1. n \in NoncesOf(mempool)
        BY <1>1, <2>1 DEF Serial
      <3>2. PICK d \in mempool : d.nonce = n
        BY <3>1 DEF NoncesOf
      <3>3. d # c
        BY <1>1, <1>2, <3>2
      <3>. QED  BY <1>2, <3>2, <3>3 DEF NoncesOf
    <2>2. ASSUME NEW d \in mempool' PROVE d.nonce \in (executed + 1)..Taken
      <3>1. d \in mempool /\ d # c
        BY <1>2
      <3>2. d.nonce \in executed..Taken /\ d.nonce # executed
        BY <1>2, <3>1 DEF OneCallPerNonce, Serial, NoncesOf
      <3>. QED  BY <1>1, <3>2
    <2>. QED  BY <2>1, <2>2 DEF NoncesOf
  <1>. QED  BY <1>1, <1>2, <1>3, <1>4, <1>5 DEF Serial, Calling

(* The API is asked, and its answer is applied.                            *)
LEMMA PollSerial ==
  ASSUME StacksTypeOK, Serial, AskNonces \/ (ApplyNonces /\ \A l \in Locks : ~Calling(l))
  PROVE  Serial'
  <1>1. nonce \in Nat /\ Taken \in Int
    BY SerialNonces
  <1>2. UNCHANGED <<executed, mempool, refused, at, used>>
    BY DEF AskNonces, ApplyNonces, node, lock
  <1>3. CASE AskNonces
    <2>1. UNCHANGED nonce /\ \E reply \in Replies :
            poll' = {reply} /\ NextNonce(reply.next) /\ FirstMissing(reply.missing)
      BY <1>3 DEF AskNonces
    <2>2. \A p \in poll' : p.missing = 0 /\ p.next = Taken + 1
      <3>1. \A reply \in Replies : reply.next \in Nat
        BY StacksAssumption DEF Replies, Nonces
      <3>. QED  BY <2>1, <3>1, SerialNonces
    <2>3. Taken' = Taken
      BY <1>2, <2>1 DEF Taken
    <2>. QED  BY <1>1, <1>2, <2>1, <2>2, <2>3 DEF Serial, Calling, NoncesOf
  <1>4. CASE ApplyNonces /\ \A l \in Locks : ~Calling(l)
    <2>1. Taken = nonce - 1
      BY <1>4, TakenByNone
    <2>2. poll' = {} /\ nonce' = nonce
      <3>1. PICK p \in poll : nonce' = IF p.missing # 0 THEN p.missing
                                       ELSE IF p.next > nonce THEN p.next ELSE nonce
        BY <1>4 DEF ApplyNonces
      <3>2. p.missing = 0 /\ p.next <= Taken + 1 /\ p.next \in Nat
        BY StacksAssumption DEF Serial, StacksTypeOK, Replies, Nonces
      <3>3. nonce' = nonce
        BY <1>1, <2>1, <3>1, <3>2
      <3>4. poll' = {}
        BY <1>4 DEF ApplyNonces
      <3>. QED  BY <3>3, <3>4
    <2>3. Taken' = Taken
      BY <1>2, <2>2 DEF Taken
    <2>. QED  BY <1>2, <2>2, <2>3 DEF Serial, Calling, NoncesOf
  <1>. QED  BY <1>3, <1>4

(* The steps of a call.                                                    *)
LEMMA OtherLock ==
  ASSUME NEW l \in Locks
  PROVE  \A k \in Locks : k # l => k = Other(l)
  BY DEF Locks, Other

LEMMA SignSerial ==
  ASSUME StacksTypeOK, Serial, NEW l \in Locks, Sign(l), ~Calling(Other(l))
  PROVE  Serial'
  <1>. USE LockTypes
  <1>1. /\ UNCHANGED <<executed, mempool, refused, nonce, poll>>
        /\ used' = [used EXCEPT ![l] = nonce] /\ Goto(l, "signed")
        /\ at[l] \in {"start", "claim", "refund"}
    BY DEF Sign, Running, node
  <1>2. at'[l] = "signed" /\ \A m \in Locks : m # l => at'[m] = at[m]
    BY <1>1, GotoFacts DEF Awaits
  <1>3. used'[l] = nonce /\ \A m \in Locks : m # l => used'[m] = used[m]
    BY <1>1 DEF StacksTypeOK
  <1>4. \A m \in Locks : m # l => ~Calling(m) /\ ~Calling(m)'
    BY <1>2, OtherLock DEF Calling
  <1>5. Taken = nonce - 1 /\ Taken' = nonce' - 1
    BY <1>1, <1>2, <1>4 DEF Taken, Calling
  <1>. QED  BY <1>1, <1>3, <1>4, <1>5 DEF Serial, NoncesOf

LEMMA AcceptSerial ==
  ASSUME StacksTypeOK, Serial, NEW l \in Locks, CallAccepted(l)
  PROVE  Serial'
  <1>. USE LockTypes
  <1>1. nonce \in Nat /\ executed \in Nat
    BY SerialNonces
  <1>2. at[l] = "signed" /\ Calling(l) /\ used[l] = nonce /\ Taken = nonce - 1
    BY <1>1, TakenByOne DEF CallAccepted, Calling, Serial, Answered
  <1>3. /\ UNCHANGED <<executed, refused, nonce, poll, used>>
        /\ \E await \in {"recordLock", "accepted"} : Goto(l, await)
    BY DEF CallAccepted, acct
  <1>4. /\ at'[l] \in {"recordLock", "accepted"} /\ \A m \in Locks : m # l => at'[m] = at[m]
    BY <1>3, GotoFacts DEF Awaits
  <1>5. Taken' = nonce
    BY <1>3, <1>4 DEF Taken
  <1>6. PICK c : c.nonce = nonce /\ mempool' = mempool \union {c}
    BY <1>2 DEF CallAccepted, Submit
  <1>7. NoncesOf(mempool)' = NoncesOf(mempool) \union {nonce}
    BY <1>6 DEF NoncesOf
  <1>8. executed <= nonce /\ executed..nonce = executed..(nonce - 1) \union {nonce}
    BY <1>1, <1>2 DEF Serial
  <1>9. \A m \in Locks : Calling(m)' <=> Calling(m)
    BY <1>2, <1>4 DEF Calling
  <1>10. \A p \in poll' : p.missing = 0 /\ p.next <= nonce + 1
    <2>1. \A p \in poll : p.next \in Nat
      BY StacksAssumption DEF StacksTypeOK, Replies, Nonces
    <2>. QED  BY <1>1, <1>2, <1>3, <2>1 DEF Serial
  <1>. QED  BY <1>1, <1>2, <1>3, <1>5, <1>7, <1>8, <1>9, <1>10 DEF Serial

LEMMA NoRefusal ==
  ASSUME StacksTypeOK, Serial, NEW l \in Locks
  PROVE  ~CallRefused(l)
  <1>. SUFFICES ASSUME CallRefused(l) PROVE FALSE
    OBVIOUS
  <1>1. nonce \in Nat /\ executed \in Nat
    BY SerialNonces
  <1>2. Calling(l) /\ used[l] = nonce /\ Taken = nonce - 1
    BY TakenByOne DEF CallRefused, Calling, Serial, Answered
  <1>3. nonce >= executed /\ nonce \notin NoncesOf(mempool)
    BY <1>1, <1>2 DEF Serial
  <1>. QED  BY <1>2, <1>3 DEF CallRefused, Accepts

LEMMA IncrementSerial ==
  ASSUME StacksTypeOK, Serial, NEW l \in Locks, IncrementNonce(l)
  PROVE  Serial'
  <1>. USE LockTypes
  <1>1. nonce \in Nat /\ nonce' = nonce + 1
    BY SerialNonces DEF IncrementNonce
  <1>2. Calling(l) /\ Taken = nonce /\ \A m \in Locks : m # l => ~Calling(m)
    BY TakenByOne DEF IncrementNonce, Calling, Serial, Answered
  <1>3. /\ UNCHANGED <<executed, mempool, refused, poll, used>>
        /\ \E await \in {"record", "recordClaim", "recordRefund"} : Goto(l, await)
    BY DEF IncrementNonce, node
  <1>4. at'[l] \in {"record", "recordClaim", "recordRefund"} /\ \A m \in Locks : m # l => at'[m] = at[m]
    BY <1>3, GotoFacts DEF Awaits
  <1>5. \A m \in Locks : ~Calling(m)'
    BY <1>2, <1>4 DEF Calling
  <1>6. Taken' = Taken
    BY <1>1, <1>2, <1>5 DEF Taken, Calling
  <1>. QED  BY <1>3, <1>5, <1>6 DEF Serial, NoncesOf

LEMMA LostSerial ==
  ASSUME StacksTypeOK, Serial, NEW l \in Locks, LoseAnswer(l), UNCHANGED mempool
  PROVE  Serial'
  <1>. USE LockTypes
  <1>1. at[l] = "signed" /\ queue[l] # << >> /\ (Throw(l) \/ Goto(l, "sendFailed"))
        /\ UNCHANGED <<executed, aborted, refused, nonce, poll, used>>
    BY DEF LoseAnswer
  <1>2. at'[l] \in {"start", "sendFailed"} /\ \A m \in Locks : m # l => at'[m] = at[m]
    <2>1. CASE Throw(l)
      BY <1>1, <2>1, ReleaseFacts DEF Left
    <2>2. CASE Goto(l, "sendFailed")
      BY <2>2, GotoFacts DEF Awaits
    <2>. QED  BY <1>1, <2>1, <2>2
  <1>3. \A m \in Locks : (Calling(m)' => Calling(m)) /\ (Answered(m)' <=> Answered(m))
    BY <1>1, <1>2 DEF Calling, Answered
  <1>. QED  BY <1>1, <1>3, SerialFrame DEF node

LEMMA ListenSerial ==
  ASSUME StacksTypeOK, Serial, NEW value \in RowStates, ListenLockup("reverse", value)
  PROVE  Serial'
  <1>. USE LockTypes
  <1>1. "reverse" \in Locks /\ at["reverse"] = "recordLock" /\ Goto("reverse", "accepted")
        /\ UNCHANGED <<node, nonce, poll, used>>
    BY DEF ListenLockup, acct, Locks
  <1>2. at'["reverse"] = "accepted" /\ \A m \in Locks : m # "reverse" => at'[m] = at[m]
    BY <1>1, GotoFacts DEF Awaits
  <1>3. \A m \in Locks : (Calling(m)' => Calling(m)) /\ (Answered(m)' <=> Answered(m))
    BY <1>1, <1>2 DEF Calling, Answered
  <1>. QED  BY <1>1, <1>3, SerialFrame

LEMMA RestartSerial ==
  ASSUME StacksTypeOK, Serial, Restart, mempool = {}
  PROVE  Serial'
  <1>1. nonce \in Nat /\ executed \in Nat
    BY SerialNonces
  <1>2. /\ nonce' = executed /\ poll' = {} /\ UNCHANGED <<executed, mempool, refused>>
        /\ \A l \in Locks : at'[l] = "start"
    BY DEF Restart, node
  <1>3. Taken' = executed - 1 /\ \A l \in Locks : ~Calling(l)'
    BY <1>2 DEF Taken, Calling
  <1>4. NoncesOf(mempool)' = {} /\ executed..(executed - 1) = {}
    BY <1>1, <1>2 DEF NoncesOf
  <1>5. NoncesOf(mempool)' = executed'..Taken' /\ executed' <= Taken' + 1
    <2>1. executed' = executed
      BY <1>2
    <2>2. executed'..Taken' = {}
      BY <1>3, <1>4, <2>1
    <2>3. executed' <= Taken' + 1
      BY <1>1, <1>3, <2>1
    <2>. QED  BY <1>4, <2>2, <2>3
  <1>6. refused' = {}
    BY <1>2 DEF Serial
  <1>. QED  BY <1>2, <1>3, <1>5, <1>6, Zenon DEF Serial

(* The node keeps one call per nonce, whatever the process does.           *)
LEMMA OneCallStep ==
  ASSUME StacksTypeOK, JobInv, OneCallPerNonce, StacksNext
  PROVE  OneCallPerNonce'
  <1>1. mempool' \subseteq mempool => OneCallPerNonce'
    BY DEF OneCallPerNonce
  <1>2. ASSUME NEW l \in Locks, Accepts(used[l]), Submit(l) PROVE OneCallPerNonce'
    <2>1. PICK c : c.nonce = used[l] /\ mempool' = mempool \union {c}
      BY <1>2 DEF Submit
    <2>2. \A d \in mempool : d.nonce # c.nonce
      BY <1>2, <2>1 DEF Accepts, NoncesOf
    <2>. QED  BY <2>1, <2>2 DEF OneCallPerNonce
  <1>3. ASSUME NEW l \in Locks, CallSteps(l) \/ LoseAnswer(l) PROVE OneCallPerNonce'
    <2>1. mempool' = mempool \/ (Accepts(used[l]) /\ Submit(l))
      BY <1>3 DEF CallSteps, Sign, CallAccepted, CallRefused, IncrementNonce, LoseAnswer, node
    <2>. QED  BY <1>1, <1>2, <2>1
  <1>4. ASSUME NEW c \in mempool, ExecuteCall(c) PROVE mempool' \subseteq mempool
    BY <1>4 DEF ExecuteCall
  <1>5. AskNonces \/ ApplyNonces \/ Restart \/ AllQuiet => mempool' = mempool
    BY DEF AskNonces, ApplyNonces, Restart, AllQuiet, node
  <1>6. ASSUME NEW value \in RowStates, ListenLockup("reverse", value) PROVE mempool' = mempool
    BY <1>6 DEF ListenLockup, node
  <1>. QED  BY <1>1, <1>3, <1>4, <1>5, <1>6, StepKinds

(* What comes between two uses of the nonce is remembered.                 *)
LEMMA SkewStays ==
  ASSUME StacksTypeOK, JobInv, StacksNext, skewed = TRUE
  PROVE  skewed' = TRUE
  <1>1. AllQuiet => skewed' = skewed
    BY DEF AllQuiet, acct
  <1>2. AskNonces => skewed' = skewed
    BY DEF AskNonces
  <1>3. ApplyNonces => skewed' = TRUE
    BY DEF ApplyNonces
  <1>4. Restart => skewed' = TRUE
    BY DEF Restart
  <1>5. ASSUME NEW c \in mempool, ExecuteCall(c) PROVE skewed' = skewed
    BY <1>5 DEF ExecuteCall, acct
  <1>6. ASSUME NEW value \in RowStates, ListenLockup("reverse", value) PROVE skewed' = skewed
    BY <1>6 DEF ListenLockup, acct
  <1>7. ASSUME NEW l \in Locks, CallSteps(l) \/ LoseAnswer(l) PROVE skewed' = TRUE
    <2>1. Sign(l) => skewed' = TRUE
      BY DEF Sign
    <2>2. CallAccepted(l) \/ CallRefused(l) \/ IncrementNonce(l) => skewed' = skewed
      BY DEF CallAccepted, CallRefused, IncrementNonce, acct
    <2>3. LoseAnswer(l) => skewed' \in {TRUE, skewed}
      BY DEF LoseAnswer
    <2>. QED  BY <1>7, <2>1, <2>2, <2>3 DEF CallSteps
  <1>. QED  BY <1>1, <1>2, <1>3, <1>4, <1>5, <1>6, <1>7, StepKinds

LEMMA SkewSeen ==
  ASSUME StacksTypeOK, skewed' = FALSE
  PROVE  /\ ApplyNonces => \A l \in Locks : ~Calling(l)
         /\ \A l \in Locks : Sign(l) => ~Calling(Other(l))
         /\ \A l \in Locks : LoseAnswer(l) => UNCHANGED mempool
         /\ Restart => mempool = {}
  <1>1. ApplyNonces => \A l \in Locks : ~Calling(l)
    BY DEF ApplyNonces
  <1>2. \A l \in Locks : Sign(l) => ~Calling(Other(l))
    BY DEF Sign
  <1>3. \A l \in Locks : LoseAnswer(l) => UNCHANGED mempool
    BY DEF LoseAnswer
  <1>4. Restart => mempool = {}
    BY DEF Restart
  <1>. QED  BY <1>1, <1>2, <1>3, <1>4

LEMMA SerialStep ==
  ASSUME StacksTypeOK, JobInv, OneCallPerNonce, Serial, StacksNext, skewed' = FALSE
  PROVE  Serial'
  <1>1. ASSUME NEW l \in Locks, CallSteps(l) PROVE Serial'
    BY <1>1, SkewSeen, SignSerial, AcceptSerial, NoRefusal, IncrementSerial DEF CallSteps
  <1>2. ASSUME NEW l \in Locks, LoseAnswer(l) PROVE Serial'
    BY <1>2, SkewSeen, LostSerial
  <1>3. ASSUME NEW c \in mempool, ExecuteCall(c) PROVE Serial'
    BY <1>3, ExecuteSerial
  <1>4. ASSUME NEW value \in RowStates, ListenLockup("reverse", value) PROVE Serial'
    BY <1>4, ListenSerial
  <1>5. AskNonces \/ ApplyNonces => Serial'
    BY SkewSeen, PollSerial
  <1>6. Restart => Serial'
    BY SkewSeen, RestartSerial
  <1>7. AllQuiet => Serial'
    BY QuietSerial
  <1>. QED  BY <1>1, <1>2, <1>3, <1>4, <1>5, <1>6, <1>7, StepKinds

LEMMA NonceStep ==
  ASSUME StacksTypeOK, StacksTypeOK', JobInv, NonceInv, StacksNext
  PROVE  NonceInv'
  <1>1. OneCallPerNonce'
    BY OneCallStep DEF NonceInv
  <1>2. ASSUME skewed' = FALSE PROVE Serial'
    <2>1. skewed = FALSE
      BY <1>2, SkewStays DEF StacksTypeOK
    <2>2. Serial
      BY <2>1 DEF NonceInv
    <2>. QED  BY <1>2, <2>2, SerialStep DEF NonceInv
  <1>3. skewed' \in BOOLEAN
    BY DEF StacksTypeOK
  <1>. QED  BY <1>1, <1>2, <1>3 DEF NonceInv

(* One nonce suffices for calls made one at a time, however many swaps and *)
(* blocks there are: the node refuses none of them, none waits behind a    *)
(* gap, and between two calls the nonce is the next one of the account.    *)
THEOREM SerialCalls == StacksSpec => []SerialCallsAccepted
  <1>1. StacksInit => NonceInv
    <2>. SUFFICES ASSUME StacksInit PROVE NonceInv
      OBVIOUS
    <2>1. mempool = {} /\ refused = {} /\ poll = {} /\ executed = 1 /\ nonce = 1
          /\ \A l \in Locks : at[l] = "start"
      BY DEF StacksInit
    <2>2. Taken = 0 /\ \A l \in Locks : ~Calling(l)
      BY <2>1 DEF Taken, Calling
    <2>3. NoncesOf(mempool) = {} /\ executed..Taken = {}
      BY <2>1, <2>2 DEF NoncesOf
    <2>. QED  BY <2>1, <2>2, <2>3 DEF NonceInv, OneCallPerNonce, Serial
  <1>2. StacksTypeOK /\ StacksTypeOK' /\ MoneyInv /\ NonceInv /\ [StacksNext]_stxVars => NonceInv'
    <2>1. ASSUME UNCHANGED stxVars, NonceInv PROVE NonceInv'
      BY <2>1 DEF stxVars, node, acct, lock, NonceInv, OneCallPerNonce, Serial, NoncesOf, Taken, Calling
    <2>. QED  BY <2>1, NonceStep DEF MoneyInv
  <1>3. StacksTypeOK /\ NonceInv => SerialCallsAccepted
    <2>. SUFFICES ASSUME StacksTypeOK, Serial
                  PROVE  /\ refused = {} /\ Missing = {}
                         /\ (\A l \in Locks : ~Calling(l)) => NextNonce(nonce)
      BY DEF NonceInv, SerialCallsAccepted
    <2>1. ASSUME \A l \in Locks : ~Calling(l) PROVE NextNonce(nonce)
      <3>1. Taken + 1 = nonce
        BY <2>1, TakenByNone, SerialNonces
      <3>. QED  BY <3>1, SerialNonces
    <2>. QED  BY <2>1, SerialNonces DEF Serial
  <1>. QED  BY <1>1, <1>2, <1>3, StacksTypeCorrect, StacksInductive, PTL DEF StacksSpec

-----------------------------------------------------------------------------
(* Payments given back *)

LEMMA PaidKind ==
  ASSUME NEW kind \in JobKinds
  PROVE  OpOf(kind) = "lock" <=> kind = "invoice.paid"
  BY DEF OpOf

(* The head of the reverse queue.                                          *)
LEMMA HeadPaid ==
  ASSUME StacksTypeOK, NEW s \in StxSwaps
  PROVE  1 \in Paying(s) <=> /\ queue["reverse"] # << >> /\ HeadOf("reverse").kind = "invoice.paid"
                             /\ HeadOf("reverse").swap = s
  <1>1. queue["reverse"] \in Seq(Jobs)
    BY DEF StacksTypeOK, Locks
  <1>2. 1 \in 1..Len(queue["reverse"]) <=> queue["reverse"] # << >>
    BY <1>1
  <1>3. queue["reverse"] # << >> => HeadOf("reverse") = queue["reverse"][1]
    BY <1>1 DEF HeadOf
  <1>. QED  BY <1>2, <1>3 DEF Paying

LEMMA OwnJobs ==
  ASSUME StacksTypeOK, JobInv
  PROVE  /\ \A j \in Queued("reverse") : j.swap \in Outgoing /\ j \in Jobs
         /\ queue["reverse"] # << >> => /\ HeadOf("reverse").swap \in Outgoing
                                        /\ HeadOf("reverse").kind \in JobKinds
                                        /\ HeadOf("reverse") \in Queued("reverse")
         /\ "reverse" \in Locks /\ queue["reverse"] \in Seq(Jobs) /\ Len(queue["reverse"]) \in Nat
  <1>1. "reverse" \in Locks /\ queue["reverse"] \in Seq(Jobs) /\ Len(queue["reverse"]) \in Nat
    BY DEF StacksTypeOK, Locks
  <1>2. \A j \in Queued("reverse") : j \in Jobs
    BY <1>1 DEF Queued
  <1>3. \A s \in StxSwaps : LockOf(s) = "reverse" => s \in Outgoing
    BY DEF LockOf
  <1>4. \A j \in Queued("reverse") : j.swap \in Outgoing
    BY <1>1, <1>2, <1>3 DEF JobInv, Jobs
  <1>. QED  BY <1>1, <1>2, <1>4, HeadFacts, LockTypes

(* A behaviour that has seen no mishap has not had a crash or a fault.     *)
LEMMA NoMishap ==
  ASSUME StacksTypeOK, StacksNext, mishaps' = 0
  PROVE  /\ mishaps = 0 /\ ~Restart
         /\ \A l \in Locks : ~LoseAnswer(l)
         /\ \A e \in notes : ~LoseNote(e)
  <1>1. mishaps + 1 # 0
    BY DEF StacksTypeOK
  <1>2. ~Restart /\ (\A l \in Locks : ~LoseAnswer(l)) /\ (\A e \in notes : ~LoseNote(e))
    BY <1>1 DEF Restart, LoseAnswer, LoseNote
  <1>3. ASSUME Outside PROVE mishaps' = mishaps
    BY <1>3 DEF Outside, ExecuteCall, MineBlock, PayHoldInvoice, UserClaims, UserRefunds, UserLocks,
       PaymentEnds
  <1>4. ASSUME Nursery PROVE mishaps' = mishaps
    BY <1>4 DEF Nursery, InvoicePaid, CheckExpired, OnLockup, ConfirmOwnLockup, StoreUserLockup, OnClaim,
       RetryTimer, AskNonces, ApplyNonces
  <1>5. ASSUME \E l \in Locks : CallSteps(l) \/ SetSwapExpired(l) PROVE mishaps' = mishaps
    BY <1>5 DEF CallSteps, Sign, CallAccepted, CallRefused, IncrementNonce, SetSwapExpired
  <1>6. ASSUME ReverseSteps PROVE mishaps' = mishaps
    BY <1>6 DEF ReverseSteps, ListenLockup, ListenRefusedLockup, SetLockupTransaction, SendFailed,
       MarkFailed, SettleInvoice, SetInvoiceSettled, ExpireReverseSwap, SetTransactionRefunded, CancelInvoice
  <1>7. ASSUME SwapSteps PROVE mishaps' = mishaps
    BY <1>7 DEF SwapSteps, ClaimStx, SetInvoicePending, SendPayment, PaymentAnswered, SetMinerFee,
       LockupFailed, ExpireSwap, RetryQuery
  <1>. QED  BY <1>2, <1>3, <1>4, <1>5, <1>6, <1>7 DEF StacksNext

(* Coins that nobody locked stay so until the backend's call is accepted.  *)
LEMMA UnlockedMoves ==
  ASSUME StacksTypeOK, JobInv, StacksNext, mishaps' = 0, NEW s \in Outgoing, Unlocked(s)
  PROVE  Unlocked(s)' \/ (CallAccepted("reverse") /\ 1 \in Paying(s))
  <1>0. s \in StxSwaps /\ s \notin Incoming
    BY StacksAssumption DEF StxSwaps
  <1>1. ASSUME mempool' \subseteq mempool, past'[s] \subseteq past[s] \union {"claimed", "refunded"}
        PROVE  Unlocked(s)'
    BY <1>1 DEF Unlocked, Live
  <1>2. CASE UNCHANGED <<mempool, past>>
    BY <1>1, <1>2
  <1>3. ASSUME NEW c \in mempool, ExecuteCall(c) PROVE Unlocked(s)'
    <2>1. c.op \in Ops /\ c.swap \in StxSwaps /\ ~(c.op = "lock" /\ c.swap = s)
      BY DEF StacksTypeOK, Calls, Unlocked, Live
    <2>2. past' = past \/ past' = [past EXCEPT ![c.swap] = @ \union {ResultOf[c.op]}]
      BY <1>3 DEF ExecuteCall, SetEntry
    <2>3. c.swap = s => ResultOf[c.op] \in {"claimed", "refunded"}
      BY <2>1 DEF Ops, ResultOf
    <2>4. past'[s] \subseteq past[s] \union {"claimed", "refunded"}
      BY <1>0, <2>2, <2>3 DEF StacksTypeOK
    <2>. QED  BY <1>1, <1>3, <2>4 DEF ExecuteCall
  <1>4. ASSUME NEW t \in StxSwaps, UserClaims(t) \/ UserRefunds(t) PROVE Unlocked(s)'
    <2>1. mempool' = mempool /\ \E v \in {"claimed", "refunded"} : past' = [past EXCEPT ![t] = @ \union {v}]
      BY <1>4 DEF UserClaims, UserRefunds, SetEntry, node
    <2>. QED  BY <1>0, <1>1, <2>1 DEF StacksTypeOK
  <1>5. ASSUME NEW t \in StxSwaps, NEW chosen \in SUBSET LockupTerms, UserLocks(t, chosen) PROVE Unlocked(s)'
    <2>1. mempool' = mempool /\ past' = [past EXCEPT ![t] = @ \union {"locked"}] /\ t # s
      BY <1>0, <1>5 DEF UserLocks, SetEntry, node
    <2>. QED  BY <1>0, <1>1, <2>1 DEF StacksTypeOK
  <1>6. ASSUME NEW l \in Locks, CallAccepted(l)
        PROVE  Unlocked(s)' \/ (CallAccepted("reverse") /\ 1 \in Paying(s))
    <2>1. queue[l] # << >> /\ past' = past /\ Submit(l)
      BY <1>6 DEF CallAccepted, chain
    <2>2. PICK t \in StxSwaps, kind \in JobKinds : HeadOf(l).swap = t /\ HeadOf(l).kind = kind
      BY <2>1, HeadFacts, LockTypes
    <2>3. mempool' = mempool \union {[nonce |-> used[l], op |-> OpOf(kind), swap |-> t]}
      BY <2>1, <2>2 DEF Submit
    <2>4. CASE OpOf(kind) = "lock" /\ t = s
      <3>1. kind = "invoice.paid"
        BY <2>4, PaidKind
      <3>2. l = "reverse"
        BY <2>1, <2>2, <2>4, HeadFacts, LockTypes DEF JobInv, LockOf
      <3>. QED  BY <1>0, <1>6, <2>1, <2>2, <2>4, <3>1, <3>2, HeadPaid
    <2>5. CASE ~(OpOf(kind) = "lock" /\ t = s)
      BY <2>1, <2>3, <2>5 DEF Unlocked, Live
    <2>. QED  BY <2>4, <2>5
  <1>7. CASE Outside
    <2>1. ASSUME MineBlock \/ (\E t \in StxSwaps : PayHoldInvoice(t)) \/
                 \E t \in StxSwaps, result \in {"paid", "rejected", "unpaid"} : PaymentEnds(t, result)
          PROVE  UNCHANGED <<mempool, past>>
      BY <2>1 DEF MineBlock, PayHoldInvoice, PaymentEnds, node, chain
    <2>. QED  BY <1>2, <1>3, <1>4, <1>5, <1>7, <2>1 DEF Outside
  <1>8. Nursery => UNCHANGED <<mempool, past>>
    BY DEF Nursery, InvoicePaid, CheckExpired, OnLockup, ConfirmOwnLockup, StoreUserLockup, OnClaim,
       RetryTimer, AskNonces, ApplyNonces, node, chain
  <1>9. ASSUME NEW l \in Locks, CallSteps(l) \/ SetSwapExpired(l), ~CallAccepted(l)
        PROVE  UNCHANGED <<mempool, past>>
    BY <1>9 DEF CallSteps, Sign, CallRefused, IncrementNonce, SetSwapExpired, node, chain
  <1>10. ReverseSteps => UNCHANGED <<mempool, past>>
    BY DEF ReverseSteps, ListenLockup, ListenRefusedLockup, SetLockupTransaction, SendFailed, MarkFailed,
       SettleInvoice, SetInvoiceSettled, ExpireReverseSwap, SetTransactionRefunded, CancelInvoice, node, chain
  <1>11. SwapSteps => UNCHANGED <<mempool, past>>
    BY DEF SwapSteps, ClaimStx, SetInvoicePending, SendPayment, PaymentAnswered, SetMinerFee, LockupFailed,
       ExpireSwap, RetryQuery, node, chain
  <1>. QED  BY <1>2, <1>6, <1>7, <1>8, <1>9, <1>10, <1>11, NoMishap DEF StacksNext

(* The columns of a reverse swap say that its lockup is in the mempool, and*)
(* which it is, only while the job of its payment runs.                    *)
PayingNow(s) ==
  /\ queue["reverse"] # << >> /\ HeadOf("reverse").swap = s
  /\ \/ at["reverse"] \in {"recordLock", "refusedLock"}
     \/ at["reverse"] = "record" /\ HeadOf("reverse").kind = "invoice.paid"

LEMMA ReverseRow ==
  ASSUME StacksTypeOK, StacksNext, mishaps' = 0, NEW s \in Outgoing
  PROVE  /\ row'[s] = "TransactionMempool" => row[s] = "TransactionMempool" \/ PayingNow(s)
         /\ txid'[s] = txid[s] \/ (SetLockupTransaction("reverse") /\ PayingNow(s))
  <1>. DEFINE Rows == row'[s] = "TransactionMempool" => row[s] = "TransactionMempool" \/ PayingNow(s)
  <1>0. s \in StxSwaps
    BY DEF StxSwaps
  <1>1. ASSUME NEW t, NEW v, SetRow(t, v), v # "TransactionMempool" PROVE Rows
    BY <1>0, <1>1 DEF SetRow, StacksTypeOK
  <1>2. ASSUME UNCHANGED row PROVE Rows
    BY <1>2
  <1>3. ASSUME NEW v, SetRow(HeadOf("reverse").swap, v), queue["reverse"] # << >>,
               \/ at["reverse"] \in {"recordLock", "refusedLock"}
               \/ at["reverse"] = "record" /\ HeadOf("reverse").kind = "invoice.paid"
        PROVE  Rows
    <2>1. row' = [row EXCEPT ![HeadOf("reverse").swap] = v] /\ row \in [StxSwaps -> RowStates]
      BY <1>3 DEF SetRow, StacksTypeOK
    <2>. QED  BY <1>0, <1>3, <2>1 DEF PayingNow
  <1>. HIDE DEF Rows
  <1>4. ASSUME Outside PROVE Rows /\ UNCHANGED txid
    <2>1. UNCHANGED <<row, txid>>
      BY <1>4 DEF Outside, ExecuteCall, MineBlock, PayHoldInvoice, UserClaims, UserRefunds, UserLocks,
         PaymentEnds, db
    <2>. QED  BY <2>1, <1>2
  <1>5. ASSUME Nursery PROVE Rows /\ UNCHANGED txid
    <2>1. UNCHANGED txid
      BY <1>5 DEF Nursery, InvoicePaid, CheckExpired, OnLockup, ConfirmOwnLockup, StoreUserLockup, OnClaim,
         RetryTimer, AskNonces, ApplyNonces, db
    <2>2. UNCHANGED row \/ \E e \in notes : SetRow(e.swap, "TransactionConfirmed")
      BY <1>5 DEF Nursery, InvoicePaid, CheckExpired, OnLockup, ConfirmOwnLockup, StoreUserLockup, OnClaim,
         RetryTimer, AskNonces, ApplyNonces, db
    <2>. QED  BY <2>1, <2>2, <1>1, <1>2
  <1>6. ASSUME NEW l \in Locks, CallSteps(l) \/ SetSwapExpired(l) PROVE Rows /\ UNCHANGED txid
    <2>1. UNCHANGED txid
      BY <1>6 DEF CallSteps, Sign, CallAccepted, CallRefused, IncrementNonce, SetSwapExpired, db
    <2>2. UNCHANGED row \/ SetRow(HeadOf(l).swap, "SwapExpired")
      BY <1>6 DEF CallSteps, Sign, CallAccepted, CallRefused, IncrementNonce, SetSwapExpired, db
    <2>. QED  BY <2>1, <2>2, <1>1, <1>2
  <1>7. ASSUME ReverseSteps, ~SetLockupTransaction("reverse") PROVE Rows /\ UNCHANGED txid
    <2>1. UNCHANGED txid
      BY <1>7 DEF ReverseSteps, ListenLockup, ListenRefusedLockup, SendFailed, MarkFailed,
         SettleInvoice, SetInvoiceSettled, ExpireReverseSwap, SetTransactionRefunded, CancelInvoice, db
    <2>2. ASSUME NEW v \in RowStates, ListenLockup("reverse", v) \/ ListenRefusedLockup("reverse", v) PROVE Rows
      BY <1>3, <2>2 DEF ListenLockup, ListenRefusedLockup
    <2>3. ASSUME \/ MarkFailed("reverse") \/ SetInvoiceSettled("reverse") \/ SetTransactionRefunded("reverse")
          PROVE  Rows
      BY <1>1, <2>3 DEF MarkFailed, SetInvoiceSettled, SetTransactionRefunded
    <2>4. ASSUME \/ SendFailed("reverse") \/ SettleInvoice("reverse") \/ ExpireReverseSwap("reverse")
                 \/ CancelInvoice("reverse")
          PROVE  Rows
      BY <1>2, <2>4 DEF SendFailed, SettleInvoice, ExpireReverseSwap, CancelInvoice, db
    <2>. QED  BY <1>7, <2>1, <2>2, <2>3, <2>4 DEF ReverseSteps
  <1>8. ASSUME SetLockupTransaction("reverse")
        PROVE  Rows /\ (txid'[s] = txid[s] \/ PayingNow(s))
    <2>1. /\ queue["reverse"] # << >> /\ at["reverse"] = "record" /\ HeadOf("reverse").kind = "invoice.paid"
          /\ SetRow(HeadOf("reverse").swap, "TransactionMempool")
          /\ txid' = [txid EXCEPT ![HeadOf("reverse").swap] = used["reverse"]]
      BY <1>8 DEF SetLockupTransaction, Running
    <2>2. txid'[s] = txid[s] \/ PayingNow(s)
      BY <2>1 DEF PayingNow, StacksTypeOK
    <2>. QED  BY <1>3, <2>1, <2>2
  <1>9. ASSUME SwapSteps PROVE Rows /\ UNCHANGED txid
    <2>1. UNCHANGED txid
      BY <1>9 DEF SwapSteps, ClaimStx, SetInvoicePending, SendPayment, PaymentAnswered, SetMinerFee,
         LockupFailed, ExpireSwap, RetryQuery, db
    <2>2. ASSUME SetInvoicePending("swap") PROVE Rows
      BY <1>1, <1>2, <2>2 DEF SetInvoicePending
    <2>3. ASSUME PaymentAnswered("swap") \/ SetMinerFee("swap") \/ LockupFailed("swap") PROVE Rows
      BY <1>1, <1>2, <2>3 DEF PaymentAnswered, SetMinerFee, LockupFailed
    <2>4. ASSUME ClaimStx("swap") \/ SendPayment("swap") \/ ExpireSwap("swap") \/ RetryQuery("swap") PROVE Rows
      BY <1>2, <2>4 DEF ClaimStx, SendPayment, ExpireSwap, RetryQuery, db
    <2>. QED  BY <1>9, <2>1, <2>2, <2>3, <2>4 DEF SwapSteps
  <1>10. Rows /\ (txid'[s] = txid[s] \/ (SetLockupTransaction("reverse") /\ PayingNow(s)))
    <2>1. \/ Outside \/ Nursery \/ (\E l \in Locks : CallSteps(l) \/ SetSwapExpired(l))
          \/ ReverseSteps \/ SwapSteps
      BY NoMishap DEF StacksNext
    <2>2. CASE SetLockupTransaction("reverse")
      BY <1>8, <2>2
    <2>3. CASE ~SetLockupTransaction("reverse")
      BY <1>4, <1>5, <1>6, <1>7, <1>9, <2>1, <2>3
    <2>. QED  BY <2>2, <2>3
  <1>. QED  BY <1>10 DEF Rows

(* What a calm state keeps while others move.                              *)
Keeps ==
  /\ \A s \in Outgoing : Unlocked(s) => Unlocked(s)' \/ (CallAccepted("reverse") /\ 1 \in Paying(s))
  /\ \A s \in Outgoing : txid[s] # 0 /\ row[s] # "TransactionMempool" =>
                          txid'[s] # 0 /\ row'[s] # "TransactionMempool"
  /\ \A s \in Outgoing : txid'[s] = txid[s] \/ (SetLockupTransaction("reverse") /\ 1 \in Paying(s))
  /\ \A s \in Outgoing : Explained("refund", s) => Explained("refund", s)'

LEMMA CalmKeeps ==
  ASSUME StacksTypeOK, MoneyInv, CallInv, Calm, StacksNext, mishaps' = 0
  PROVE  Keeps
  <1>0. JobInv /\ ChainInv
    BY DEF MoneyInv
  <1>1. ASSUME NEW s \in Outgoing, PayingNow(s) PROVE 1 \in Paying(s) /\ txid[s] = 0
    <2>1. s \in StxSwaps /\ PaidOnce(s)
      BY DEF StxSwaps, Calm
    <2>2. queue["reverse"] # << >> /\ HeadOf("reverse").swap = s
      BY <1>1 DEF PayingNow
    <2>3. PICK kind \in JobKinds : HeadOf("reverse").kind = kind
      BY <1>0, <2>2, OwnJobs
    <2>4. kind = "invoice.paid"
      BY <1>0, <1>1, <2>2, <2>3, PaidKind, OwnJobs DEF PayingNow, CallInv
    <2>5. 1 \in Paying(s)
      BY <2>1, <2>2, <2>3, <2>4, HeadPaid
    <2>. QED  BY <2>1, <2>5 DEF PaidOnce
  <1>2. ASSUME NEW s \in Outgoing
        PROVE  /\ row'[s] = "TransactionMempool" => row[s] = "TransactionMempool" \/ PayingNow(s)
               /\ txid'[s] = txid[s] \/ (SetLockupTransaction("reverse") /\ PayingNow(s))
    BY ReverseRow
  <1>3. ASSUME NEW s \in Outgoing, Explained("refund", s) PROVE Explained("refund", s)'
    BY <1>0, <1>3, ExplainedStays DEF Ops, StxSwaps
  <1>4. ASSUME NEW s \in Outgoing, Unlocked(s)
        PROVE  Unlocked(s)' \/ (CallAccepted("reverse") /\ 1 \in Paying(s))
    BY <1>0, <1>4, UnlockedMoves
  <1>5. ASSUME NEW s \in Outgoing
        PROVE  txid'[s] = txid[s] \/ (SetLockupTransaction("reverse") /\ 1 \in Paying(s))
    BY <1>1, <1>2
  <1>6. ASSUME NEW s \in Outgoing, txid[s] # 0, row[s] # "TransactionMempool"
        PROVE  txid'[s] # 0 /\ row'[s] # "TransactionMempool"
    <2>1. ~PayingNow(s)
      BY <1>1, <1>6
    <2>. QED  BY <1>2, <1>6, <2>1
  <1>. QED  BY <1>3, <1>4, <1>5, <1>6 DEF Keeps

(* The reverse queue does not move.                                        *)
LEMMA CalmSame ==
  ASSUME StacksTypeOK, JobInv, Calm, Keeps, ~CallAccepted("reverse"), ~SetLockupTransaction("reverse"),
         queue'["reverse"] = queue["reverse"], at'["reverse"] = at["reverse"], sub' = sub
  PROVE  Calm'
  <1>1. \A s \in Outgoing : Paying(s)' = Paying(s) /\ txid'[s] = txid[s] /\ (Unlocked(s) => Unlocked(s)')
    BY DEF Paying, Keeps
  <1>2. Queued("reverse")' = Queued("reverse") /\ HeadOf("reverse")' = HeadOf("reverse")
    BY DEF Queued, HeadOf
  <1>3. ASSUME NEW s \in Outgoing PROVE PaidOnce(s)'
    BY <1>1 DEF Calm, PaidOnce
  <1>4. ASSUME NEW j \in Queued("reverse") PROVE JobFits(j)'
    <2>1. j.swap \in Outgoing /\ JobFits(j)
      BY OwnJobs DEF Calm
    <2>. QED  BY <1>1, <2>1 DEF JobFits, Keeps
  <1>5. HeadFits'
    <2>1. CASE queue["reverse"] = << >>
      BY <2>1 DEF Calm, HeadFits
    <2>2. CASE queue["reverse"] # << >>
      <3>1. PICK s \in Outgoing : HeadOf("reverse").swap = s
        BY <2>2, OwnJobs
      <3>. QED  BY <1>2, <3>1 DEF Calm, HeadFits, Keeps
    <2>. QED  BY <2>1, <2>2
  <1>. QED  BY <1>2, <1>3, <1>4, <1>5 DEF Calm

(* The first handler gives the lock back.                                  *)
LEMMA CalmLeft ==
  ASSUME StacksTypeOK, JobInv, Calm, Keeps, ~CallAccepted("reverse"), Left("reverse"), sub' = sub
  PROVE  Calm'
  <1>1. at'["reverse"] = "start" /\ Queued("reverse")' \subseteq Queued("reverse")
    BY OwnJobs DEF Left
  <1>2. PICK k \in 1..Len(queue["reverse"]) :
          /\ Len(queue'["reverse"]) = Len(queue["reverse"]) - k
          /\ \A i \in 1..Len(queue'["reverse"]) : queue'["reverse"][i] = queue["reverse"][i + k]
    BY DEF Left
  <1>3. Len(queue["reverse"]) \in Nat
    BY OwnJobs
  <1>4. ASSUME NEW s \in Outgoing, NEW i \in Paying(s)'
        PROVE  i \in Nat /\ i >= 1 /\ i + k \in Paying(s)
    <2>1. i \in 1..Len(queue'["reverse"]) /\ queue'["reverse"][i].kind = "invoice.paid"
          /\ queue'["reverse"][i].swap = s
      BY <1>4 DEF Paying
    <2>2. i + k \in 1..Len(queue["reverse"]) /\ queue'["reverse"][i] = queue["reverse"][i + k]
      BY <1>2, <1>3, <2>1
    <2>. QED  BY <1>2, <1>3, <2>1, <2>2 DEF Paying
  <1>5. ASSUME NEW s \in Outgoing PROVE PaidOnce(s)'
    <2>1. PaidOnce(s)
      BY DEF Calm
    <2>2. s \in sub' => Paying(s)' = {} /\ Unlocked(s)'
      BY <1>4, <2>1 DEF PaidOnce, Keeps
    <2>3. ASSUME NEW i \in Paying(s)', NEW j \in Paying(s)' PROVE i = j
      BY <1>2, <1>4, <2>1 DEF PaidOnce
    <2>4. ASSUME NEW i \in Paying(s)' PROVE Unlocked(s)'
      <3>1. i + k \in Paying(s) /\ i + k # 1
        BY <1>2, <1>4
      <3>. QED  BY <2>1, <3>1 DEF PaidOnce, Keeps
    <2>5. ASSUME txid'[s] # 0 PROVE s \notin sub' /\ Paying(s)' = {}
      <3>1. CASE txid'[s] = txid[s]
        BY <1>4, <2>1, <2>5, <3>1 DEF PaidOnce
      <3>2. CASE 1 \in Paying(s)
        <4>1. \A i \in Paying(s)' : FALSE
          BY <1>2, <1>4, <2>1, <3>2 DEF PaidOnce
        <4>. QED  BY <2>1, <3>2, <4>1 DEF PaidOnce
      <3>. QED  BY <3>1, <3>2 DEF Keeps
    <2>. QED  BY <2>2, <2>3, <2>4, <2>5 DEF PaidOnce
  <1>6. ASSUME NEW j \in Queued("reverse") PROVE JobFits(j)'
    <2>1. j.swap \in Outgoing /\ JobFits(j)
      BY OwnJobs DEF Calm
    <2>2. j.kind = "lockup.failedToSend" => \A i \in Paying(j.swap)' : FALSE
      BY <1>2, <1>4, <2>1 DEF JobFits
    <2>. QED  BY <2>1, <2>2 DEF JobFits, Keeps
  <1>7. HeadFits'
    BY <1>1 DEF HeadFits
  <1>. QED  BY <1>1, <1>5, <1>6, <1>7 DEF Calm

(* The first handler goes on.                                              *)
LEMMA CalmGoto ==
  ASSUME StacksTypeOK, JobInv, Calm, Keeps, NEW await \in Awaits, Goto("reverse", await), sub' = sub,
         at["reverse"] # "record", ~SetLockupTransaction("reverse"),
         CallAccepted("reverse") => await \in {"recordLock", "accepted"},
         await \in {"start", "signed", "refusedLock"} =>
           \A s \in Outgoing : 1 \in Paying(s) => at["reverse"] \in {"start", "signed", "refusedLock"},
         HeadFits'
  PROVE  Calm'
  <1>1. at'["reverse"] = await /\ queue'["reverse"] = queue["reverse"] /\ Queued("reverse")' = Queued("reverse")
    BY OwnJobs, GotoFacts, LockTypes
  <1>2. \A s \in Outgoing : Paying(s)' = Paying(s) /\ txid'[s] = txid[s]
    BY <1>1 DEF Paying, Keeps
  <1>3. ASSUME NEW s \in Outgoing PROVE PaidOnce(s)'
    <2>1. PaidOnce(s) /\ (Unlocked(s) => Unlocked(s)' \/ (CallAccepted("reverse") /\ 1 \in Paying(s)))
      BY DEF Calm, Keeps
    <2>2. s \in sub' => Paying(s)' = {} /\ Unlocked(s)'
      BY <1>2, <2>1 DEF PaidOnce
    <2>3. ASSUME NEW i \in Paying(s), i # 1 \/ await \in {"start", "signed", "refusedLock"} PROVE Unlocked(s)'
      <3>1. CASE i # 1
        BY <2>1, <2>3, <3>1 DEF PaidOnce
      <3>2. CASE i = 1
        BY <2>1, <2>3, <3>2 DEF PaidOnce
      <3>. QED  BY <3>1, <3>2
    <2>. QED  BY <1>1, <1>2, <2>1, <2>2, <2>3 DEF PaidOnce
  <1>4. ASSUME NEW j \in Queued("reverse") PROVE JobFits(j)'
    <2>1. j.swap \in Outgoing /\ JobFits(j)
      BY OwnJobs DEF Calm
    <2>2. j.kind = "lockup.failedToSend" => Paying(j.swap) = {}
      BY <2>1 DEF JobFits
    <2>. QED  BY <1>2, <2>1, <2>2 DEF JobFits, Keeps
  <1>. QED  BY <1>1, <1>3, <1>4 DEF Calm

(* A job comes to wait for the lock.                                       *)
LEMMA CalmJoined ==
  ASSUME StacksTypeOK, JobInv, CallInv, Calm, Keeps, ~CallAccepted("reverse"),
         ~SetLockupTransaction("reverse"), at'["reverse"] = at["reverse"], sub' \subseteq sub,
         NEW s \in Outgoing, NEW sent \in BOOLEAN,
         NEW kind \in {"invoice.paid", "claim", "reverseSwap.expired"}, Enqueue(kind, s, sent),
         kind = "invoice.paid" => s \in sub /\ s \notin sub',
         kind = "reverseSwap.expired" /\ sent => txid[s] # 0 /\ row[s] # "TransactionMempool"
  PROVE  Calm'
  <1>. DEFINE n == Len(queue["reverse"])
  <1>0. kind \in JobKinds /\ s \in StxSwaps /\ LockOf(s) = "reverse" /\ n \in Nat
    BY OwnJobs DEF JobKinds, StxSwaps, LockOf
  <1>1. Joined(s, Job(kind, s, sent))
    BY <1>0, EnqueueFacts, LockTypes
  <1>2. /\ Len(queue'["reverse"]) = n + 1 /\ queue'["reverse"][n + 1] = Job(kind, s, sent)
        /\ \A i \in 1..n : queue'["reverse"][i] = queue["reverse"][i]
        /\ queue["reverse"] # << >> => HeadOf("reverse")' = HeadOf("reverse")
        /\ Queued("reverse")' \subseteq Queued("reverse") \union {Job(kind, s, sent)}
    BY <1>0, <1>1, OwnJobs DEF Joined
  <1>3. ASSUME NEW t \in Outgoing, NEW i \in Paying(t)'
        PROVE  i \in Paying(t) \/ (kind = "invoice.paid" /\ t = s /\ i = n + 1)
    <2>1. /\ i \in 1..Len(queue'["reverse"]) /\ queue'["reverse"][i].kind = "invoice.paid"
          /\ queue'["reverse"][i].swap = t
      BY <1>3 DEF Paying
    <2>2. CASE i \in 1..n
      BY <1>2, <2>1, <2>2 DEF Paying
    <2>3. CASE i = n + 1
      BY <1>2, <2>1, <2>3 DEF Job
    <2>. QED  BY <1>0, <1>2, <2>1, <2>2, <2>3
  <1>4. \A t \in Outgoing : txid'[t] = txid[t] /\ (Unlocked(t) => Unlocked(t)')
    BY DEF Keeps
  <1>. HIDE DEF n
  <1>5. ASSUME NEW t \in Outgoing PROVE PaidOnce(t)'
    <2>1. PaidOnce(t)
      BY DEF Calm
    <2>2. CASE kind = "invoice.paid" /\ t = s
      <3>1. Paying(t) = {} /\ Unlocked(t)' /\ t \notin sub' /\ txid'[t] = 0
        BY <1>4, <2>1, <2>2 DEF PaidOnce
      <3>2. \A i \in Paying(t)' : i = n + 1
        BY <1>3, <3>1
      <3>. QED  BY <3>1, <3>2 DEF PaidOnce
    <2>3. CASE ~(kind = "invoice.paid" /\ t = s)
      <3>1. \A i \in Paying(t)' : i \in Paying(t)
        BY <1>3, <2>3
      <3>. QED  BY <1>4, <2>1, <3>1 DEF PaidOnce
    <2>. QED  BY <2>2, <2>3
  <1>6. ASSUME NEW j \in Queued("reverse") PROVE JobFits(j)'
    <2>1. j.swap \in Outgoing /\ JobFits(j)
      BY OwnJobs DEF Calm
    <2>2. ASSUME j.kind = "lockup.failedToSend", NEW i \in Paying(j.swap)' PROVE i \in Paying(j.swap)
      BY <1>3, <2>1, <2>2 DEF JobFits
    <2>. QED  BY <1>4, <2>1, <2>2 DEF JobFits, Keeps
  <1>7. JobFits(Job(kind, s, sent))'
    BY <1>4 DEF JobFits, Job, Keeps
  <1>8. HeadFits'
    <2>1. CASE queue["reverse"] = << >>
      <3>1. at["reverse"] = "start"
        BY <2>1, OwnJobs DEF CallInv
      <3>. QED  BY <3>1 DEF HeadFits
    <2>2. CASE queue["reverse"] # << >>
      <3>1. PICK t \in Outgoing : HeadOf("reverse").swap = t
        BY <2>2, OwnJobs
      <3>. QED  BY <1>2, <2>2, <3>1 DEF Calm, HeadFits, Keeps
    <2>. QED  BY <2>1, <2>2
  <1>9. \A j \in Queued("reverse")' : JobFits(j)'
    BY <1>2, <1>6, <1>7
  <1>. QED  BY <1>5, <1>8, <1>9 DEF Calm

(* A refused lockup leaves a job that gives the payment back.              *)
LEMMA CalmRefused ==
  ASSUME StacksTypeOK, JobInv, CallInv, Calm, Keeps, ~CallAccepted("reverse"),
         ~SetLockupTransaction("reverse"), NEW value \in RowStates, ListenRefusedLockup("reverse", value)
  PROVE  Calm'
  <1>. DEFINE n == Len(queue["reverse"])
  <1>1. queue["reverse"] # << >> /\ at["reverse"] = "refusedLock" /\ "reverse" \in Locks /\ n \in Nat
    BY OwnJobs DEF ListenRefusedLockup
  <1>2. PICK s \in Outgoing, kind \in JobKinds : HeadOf("reverse").swap = s /\ HeadOf("reverse").kind = kind
    BY <1>1, OwnJobs
  <1>3. kind = "invoice.paid" /\ s \in StxSwaps
    BY <1>1, <1>2, PaidKind DEF CallInv, StxSwaps
  <1>4. 1 \in Paying(s)
    BY <1>1, <1>2, <1>3, HeadPaid
  <1>5. Unlocked(s) /\ s \notin sub /\ \A i \in Paying(s) : i = 1
    BY <1>1, <1>4 DEF Calm, PaidOnce
  <1>6. Enqueue("lockup.failedToSend", s, TRUE)
    BY <1>2 DEF ListenRefusedLockup, Enqueue, LockOf
  <1>7. Joined(s, Job("lockup.failedToSend", s, TRUE)) /\ LockOf(s) = "reverse"
    BY <1>3, <1>6, EnqueueFacts, LockTypes DEF JobKinds, LockOf
  <1>8. /\ Len(queue'["reverse"]) = n + 1
        /\ queue'["reverse"][n + 1] = Job("lockup.failedToSend", s, TRUE)
        /\ \A i \in 1..n : queue'["reverse"][i] = queue["reverse"][i]
        /\ Queued("reverse")' \subseteq Queued("reverse") \union {Job("lockup.failedToSend", s, TRUE)}
    BY <1>1, <1>7 DEF Joined
  <1>9. ASSUME NEW t \in Outgoing, NEW i \in Paying(t)' PROVE i \in Paying(t)
    <2>1. /\ i \in 1..Len(queue'["reverse"]) /\ queue'["reverse"][i].kind = "invoice.paid"
          /\ queue'["reverse"][i].swap = t
      BY <1>9 DEF Paying
    <2>2. i # n + 1
      BY <1>8, <2>1 DEF Job
    <2>3. i \in 1..n
      BY <1>1, <1>8, <2>1, <2>2
    <2>. QED  BY <1>8, <2>1, <2>3 DEF Paying
  <1>. HIDE DEF n
  <1>10. at'["reverse"] = "record" /\ sub' = sub
    BY <1>1 DEF ListenRefusedLockup, StacksTypeOK
  <1>11. \A t \in Outgoing : txid'[t] = txid[t] /\ (Unlocked(t) => Unlocked(t)')
    BY DEF Keeps
  <1>12. ASSUME NEW t \in Outgoing PROVE PaidOnce(t)'
    <2>1. PaidOnce(t)
      BY DEF Calm
    <2>. QED  BY <1>9, <1>10, <1>11, <2>1 DEF PaidOnce
  <1>13. ASSUME NEW j \in Queued("reverse") PROVE JobFits(j)'
    <2>1. j.swap \in Outgoing /\ JobFits(j)
      BY OwnJobs DEF Calm
    <2>2. j.kind = "lockup.failedToSend" => \A i \in Paying(j.swap)' : FALSE
      BY <1>1, <1>9, <2>1 DEF JobFits
    <2>. QED  BY <1>10, <1>11, <2>1, <2>2 DEF JobFits, Keeps
  <1>14. JobFits(Job("lockup.failedToSend", s, TRUE))'
    BY <1>5, <1>9, <1>10, <1>11 DEF JobFits, Job
  <1>15. HeadFits'
    BY <1>10 DEF HeadFits
  <1>16. \A j \in Queued("reverse")' : JobFits(j)'
    BY <1>8, <1>13, <1>14
  <1>. QED  BY <1>12, <1>15, <1>16 DEF Calm

(* Which step of the reverse lock it is shows in where it stands.          *)
LEMMA ReversePlace ==
  ASSUME StacksTypeOK
  PROVE  /\ CallAccepted("reverse") => /\ at["reverse"] = "signed"
                                       /\ at'["reverse"] \in {"recordLock", "accepted"}
         /\ SetLockupTransaction("reverse") => at["reverse"] = "record" /\ at'["reverse"] = "start"
  <1>1. at \in [Locks -> Awaits] /\ "reverse" \in Locks
    BY DEF StacksTypeOK, Locks
  <1>2. CallAccepted("reverse") =>
          at["reverse"] = "signed" /\ \E await \in {"recordLock", "accepted"} : Goto("reverse", await)
    BY DEF CallAccepted
  <1>. QED  BY <1>1, <1>2 DEF Goto, SetLockupTransaction, Running, Release

LEMMA SwapQueue ==
  ASSUME StacksTypeOK, Release("swap") \/ Throw("swap") \/ (\E await \in Awaits : Goto("swap", await))
                       \/ (\E s \in Incoming, kind \in JobKinds, sent \in BOOLEAN :
                              Enqueue(kind, s, sent) /\ UNCHANGED at)
  PROVE  queue'["reverse"] = queue["reverse"] /\ at'["reverse"] = at["reverse"]
  <1>1. queue \in [Locks -> Seq(Jobs)] /\ at \in [Locks -> Awaits] /\ "reverse" \in Locks
    BY DEF StacksTypeOK, Locks
  <1>2. \A s \in Incoming : LockOf(s) = "swap"
    BY StacksAssumption DEF LockOf
  <1>. QED  BY <1>1, <1>2 DEF Release, Throw, Goto, Enqueue

CalmHyp == StacksTypeOK /\ JobInv /\ CallInv /\ Calm /\ Keeps

LEMMA CalmStill ==
  ASSUME CalmHyp, queue'["reverse"] = queue["reverse"], at'["reverse"] = at["reverse"], sub' = sub
  PROVE  Calm'
  <1>1. ~CallAccepted("reverse") /\ ~SetLockupTransaction("reverse")
    BY ReversePlace DEF CalmHyp
  <1>. QED  BY <1>1, CalmSame DEF CalmHyp

LEMMA CalmNursery ==
  ASSUME CalmHyp, Nursery
  PROVE  Calm'
  <1>. USE DEF CalmHyp
  <1>0. at' = at
    BY DEF Nursery, InvoicePaid, CheckExpired, OnLockup, ConfirmOwnLockup, StoreUserLockup, OnClaim,
       RetryTimer, AskNonces, ApplyNonces, lock
  <1>1. ~CallAccepted("reverse") /\ ~SetLockupTransaction("reverse")
    BY <1>0, ReversePlace
  <1>2. ASSUME NEW s \in StxSwaps, InvoicePaid(s) PROVE Calm'
    <2>1. s \in Outgoing /\ s \in sub /\ sub' = sub \ {s} /\ Enqueue("invoice.paid", s, FALSE)
      BY <1>2 DEF InvoicePaid, StacksTypeOK
    <2>. QED  BY <1>0, <1>1, <2>1, CalmJoined
  <1>3. ASSUME NEW s \in StxSwaps, CheckExpired(s) PROVE Calm'
    <2>1. CASE s \in Incoming
      <3>1. sub' = sub /\ \E kind \in JobKinds, sent \in BOOLEAN : Enqueue(kind, s, sent) /\ UNCHANGED at
        <4>1. s \notin Outgoing
          BY <2>1, StacksAssumption
        <4>. QED  BY <1>0, <1>3, <4>1 DEF CheckExpired, JobKinds
      <3>2. queue'["reverse"] = queue["reverse"]
        BY <2>1, <3>1, SwapQueue
      <3>. QED  BY <1>0, <3>1, <3>2, CalmStill
    <2>2. CASE s \in Outgoing
      <3>1. /\ sub' = sub /\ Enqueue("reverseSwap.expired", s, txid[s] # 0)
            /\ row[s] # "TransactionMempool"
        <4>1. s \notin Incoming
          BY <2>2, StacksAssumption
        <4>. QED  BY <1>3, <4>1 DEF CheckExpired, ReverseExpirable
      <3>2. PICK sent \in BOOLEAN : sent = (txid[s] # 0)
        OBVIOUS
      <3>3. Enqueue("reverseSwap.expired", s, sent) /\ (sent => txid[s] # 0)
        BY <3>1, <3>2
      <3>. QED  BY <1>0, <1>1, <2>2, <3>1, <3>3, CalmJoined
    <2>. QED  BY <2>1, <2>2 DEF StxSwaps
  <1>4. ASSUME NEW e \in notes, OnLockup(e) \/ ConfirmOwnLockup(e) PROVE Calm'
    <2>1. queue' = queue /\ sub' = sub
      BY <1>4 DEF OnLockup, ConfirmOwnLockup, lock
    <2>. QED  BY <1>0, <2>1, CalmStill
  <1>5. ASSUME NEW e \in notes, StoreUserLockup(e) PROVE Calm'
    <2>1. e.swap \in Incoming /\ sub' = sub
          /\ \E kind \in JobKinds, sent \in BOOLEAN : Enqueue(kind, e.swap, sent) /\ UNCHANGED at
      BY <1>0, <1>5 DEF StoreUserLockup, JobKinds
    <2>2. queue'["reverse"] = queue["reverse"]
      BY <2>1, SwapQueue
    <2>. QED  BY <1>0, <2>1, <2>2, CalmStill
  <1>6. ASSUME NEW e \in notes, OnClaim(e) PROVE Calm'
    <2>1. PICK s \in StxSwaps : e.swap = s
      BY DEF StacksTypeOK, Notes
    <2>2. sub' = sub /\ (Enqueue("claim", s, TRUE) \/ queue' = queue)
      BY <1>6, <2>1 DEF OnClaim
    <2>3. CASE queue' = queue
      BY <1>0, <2>2, <2>3, CalmStill
    <2>4. CASE s \in Incoming /\ Enqueue("claim", s, TRUE)
      <3>1. queue'["reverse"] = queue["reverse"]
        BY <1>0, <2>4, SwapQueue DEF JobKinds
      <3>. QED  BY <1>0, <2>2, <3>1, CalmStill
    <2>5. CASE s \in Outgoing /\ Enqueue("claim", s, TRUE)
      BY <1>0, <1>1, <2>2, <2>5, CalmJoined
    <2>. QED  BY <2>2, <2>3, <2>4, <2>5 DEF StxSwaps
  <1>7. ASSUME RetryTimer PROVE Calm'
    <2>1. sub' = sub /\ \E s \in Incoming : Enqueue("retryTimer", s, FALSE)
      BY <1>7 DEF RetryTimer
    <2>2. queue'["reverse"] = queue["reverse"]
      BY <1>0, <2>1, SwapQueue DEF JobKinds
    <2>. QED  BY <1>0, <2>1, <2>2, CalmStill
  <1>8. ASSUME AskNonces \/ ApplyNonces PROVE Calm'
    <2>1. queue' = queue /\ sub' = sub
      BY <1>8 DEF AskNonces, ApplyNonces, lock
    <2>. QED  BY <1>0, <2>1, CalmStill
  <1>. QED  BY <1>2, <1>3, <1>4, <1>5, <1>6, <1>7, <1>8 DEF Nursery

(* Handlers of the other lock.                                             *)
LEMMA CalmSwaps ==
  ASSUME CalmHyp, SwapSteps \/ CallSteps("swap") \/ SetSwapExpired("swap")
  PROVE  Calm'
  <1>. USE DEF CalmHyp
  <1>1. sub' = sub
    BY DEF SwapSteps, ClaimStx, SetInvoicePending, SendPayment, PaymentAnswered, SetMinerFee,
       LockupFailed, ExpireSwap, RetryQuery, CallSteps, Sign, CallAccepted, CallRefused, IncrementNonce,
       SetSwapExpired
  <1>2. CASE RetryQuery("swap")
    <2>1. queue'["reverse"] = queue["reverse"] /\ at' = at
      BY <1>2 DEF RetryQuery, StacksTypeOK, Locks
    <2>. QED  BY <1>1, <2>1, CalmStill
  <1>3. CASE SwapSteps /\ ~RetryQuery("swap")
    <2>1. Release("swap") \/ \E await \in {"pay", "send", "paying", "claim", "expire"} : Goto("swap", await)
      BY <1>3 DEF SwapSteps, ClaimStx, SetInvoicePending, SendPayment, PaymentAnswered, SetMinerFee,
         LockupFailed, ExpireSwap
    <2>2. queue'["reverse"] = queue["reverse"] /\ at'["reverse"] = at["reverse"]
      BY <2>1, SwapQueue DEF Awaits
    <2>. QED  BY <1>1, <2>2, CalmStill
  <1>4. CASE CallSteps("swap")
    <2>1. "swap" \in Locks /\ queue["swap"] # << >>
      BY <1>4 DEF CallSteps, Sign, Running, CallAccepted, CallRefused, IncrementNonce, Locks
    <2>2. \E await \in Awaits : Goto("swap", await)
      BY <1>4, <2>1, HeadFacts, CallMoves, LockTypes
    <2>3. queue'["reverse"] = queue["reverse"] /\ at'["reverse"] = at["reverse"]
      BY <2>2, SwapQueue
    <2>. QED  BY <1>1, <2>3, CalmStill
  <1>5. CASE SetSwapExpired("swap")
    <2>1. Release("swap")
      BY <1>5 DEF SetSwapExpired
    <2>2. queue'["reverse"] = queue["reverse"] /\ at'["reverse"] = at["reverse"]
      BY <2>1, SwapQueue
    <2>. QED  BY <1>1, <2>2, CalmStill
  <1>. QED  BY <1>2, <1>3, <1>4, <1>5

LEMMA CalmReleased ==
  ASSUME CalmHyp, queue["reverse"] # << >>, Release("reverse") \/ Throw("reverse"), sub' = sub
  PROVE  Calm'
  <1>. USE DEF CalmHyp
  <1>1. Left("reverse")
    BY ReleaseFacts, LockTypes, OwnJobs
  <1>2. at'["reverse"] = "start"
    BY <1>1 DEF Left
  <1>3. ~CallAccepted("reverse")
    BY <1>2, ReversePlace
  <1>. QED  BY <1>1, <1>3, CalmLeft

(* To an await that says nothing of refunds.                               *)
LEMMA CalmOn ==
  ASSUME CalmHyp, at["reverse"] # "record", sub' = sub,
         NEW await \in Awaits \ {"sendFailed", "cancel", "expire"}, Goto("reverse", await),
         await \in {"start", "signed", "refusedLock"} =>
           \A s \in Outgoing : 1 \in Paying(s) => at["reverse"] \in {"start", "signed", "refusedLock"}
  PROVE  Calm'
  <1>. USE DEF CalmHyp
  <1>1. at'["reverse"] = await
    BY OwnJobs, GotoFacts, LockTypes
  <1>2. HeadFits'
    BY <1>1 DEF HeadFits
  <1>3. ~SetLockupTransaction("reverse") /\ (CallAccepted("reverse") => await \in {"recordLock", "accepted"})
    BY <1>1, ReversePlace
  <1>. QED  BY <1>2, <1>3, CalmGoto

(* To an await that does.                                                  *)
LEMMA CalmToRefund ==
  ASSUME CalmHyp, queue["reverse"] # << >>, at["reverse"] # "record", sub' = sub,
         NEW await \in {"cancel", "expire"}, Goto("reverse", await),
         HeadOf("reverse").sent => await = "cancel" /\ Explained("refund", HeadOf("reverse").swap)
  PROVE  Calm'
  <1>. USE DEF CalmHyp
  <1>1. at'["reverse"] = await /\ HeadOf("reverse")' = HeadOf("reverse")
    BY OwnJobs, GotoFacts, LockTypes DEF Awaits
  <1>2. PICK s \in Outgoing : HeadOf("reverse").swap = s
    BY OwnJobs
  <1>3. HeadFits'
    BY <1>1, <1>2 DEF HeadFits, Keeps
  <1>4. ~SetLockupTransaction("reverse") /\ ~CallAccepted("reverse")
    BY <1>1, ReversePlace
  <1>. QED  BY <1>3, <1>4, CalmGoto DEF Awaits

LEMMA CalmCalls ==
  ASSUME CalmHyp, CallSteps("reverse")
  PROVE  Calm'
  <1>. USE DEF CalmHyp
  <1>1. sub' = sub /\ "reverse" \in Locks /\ queue["reverse"] # << >>
    BY DEF CallSteps, Sign, Running, CallAccepted, CallRefused, IncrementNonce, Locks
  <1>2. PICK s \in Outgoing, kind \in JobKinds : HeadOf("reverse").swap = s /\ HeadOf("reverse").kind = kind
    BY <1>1, OwnJobs
  <1>3. /\ CallAccepted("reverse") => Goto("reverse", IF OpOf(kind) = "lock" THEN "recordLock" ELSE "accepted")
        /\ CallRefused("reverse") => Goto("reverse", Unanswered[OpOf(kind)])
        /\ IncrementNonce("reverse") => Goto("reverse", CASE OpOf(kind) = "lock"  -> "record"
                                                          [] OpOf(kind) = "claim" -> "recordClaim"
                                                          [] OTHER                -> "recordRefund")
    BY <1>1, <1>2, CallMoves, LockTypes DEF StxSwaps
  <1>4. CASE Sign("reverse")
    <2>1. Goto("reverse", "signed") /\ at["reverse"] \in {"start", "claim", "refund"}
          /\ (kind = "invoice.paid" => at["reverse"] = "start")
      BY <1>2, <1>4 DEF Sign, Running
    <2>2. \A t \in Outgoing : 1 \in Paying(t) => kind = "invoice.paid"
      BY <1>2, HeadPaid DEF StxSwaps
    <2>. QED  BY <1>1, <2>1, <2>2, CalmOn DEF Awaits
  <1>5. CASE CallAccepted("reverse")
    <2>1. at["reverse"] = "signed"
      BY <1>5, ReversePlace
    <2>. QED  BY <1>1, <1>3, <1>5, <2>1, CalmOn DEF Awaits
  <1>6. CASE CallRefused("reverse")
    <2>1. at["reverse"] = "signed"
      BY <1>6 DEF CallRefused
    <2>2. Unanswered[OpOf(kind)] \in Awaits \ {"sendFailed", "cancel", "expire"}
      <3>1. OpOf(kind) \in Ops
        BY TableFacts
      <3>. QED  BY <3>1 DEF Ops, Unanswered, Awaits
    <2>. QED  BY <1>1, <1>3, <1>6, <2>1, <2>2, CalmOn
  <1>7. CASE IncrementNonce("reverse")
    <2>1. at["reverse"] = "accepted"
      BY <1>7 DEF IncrementNonce
    <2>2. \E await \in {"record", "recordClaim", "recordRefund"} : Goto("reverse", await)
      BY <1>3, <1>7
    <2>. QED  BY <1>1, <2>1, <2>2, CalmOn DEF Awaits
  <1>. QED  BY <1>4, <1>5, <1>6, <1>7 DEF CallSteps

LEMMA CalmReverse ==
  ASSUME CalmHyp, ReverseSteps \/ SetSwapExpired("reverse")
  PROVE  Calm'
  <1>. USE DEF CalmHyp
  <1>1. sub' = sub /\ queue["reverse"] # << >>
    BY DEF ReverseSteps, ListenLockup, ListenRefusedLockup, SetLockupTransaction, SendFailed, MarkFailed,
       SettleInvoice, SetInvoiceSettled, ExpireReverseSwap, SetTransactionRefunded, CancelInvoice,
       SetSwapExpired, Running
  <1>2. ASSUME NEW value \in RowStates, ListenLockup("reverse", value) PROVE Calm'
    <2>1. at["reverse"] = "recordLock" /\ Goto("reverse", "accepted")
      BY <1>2 DEF ListenLockup
    <2>. QED  BY <1>1, <2>1, CalmOn DEF Awaits
  <1>3. ASSUME NEW value \in RowStates, ListenRefusedLockup("reverse", value) PROVE Calm'
    <2>1. at["reverse"] = "refusedLock"
      BY <1>3 DEF ListenRefusedLockup
    <2>2. ~CallAccepted("reverse") /\ ~SetLockupTransaction("reverse")
      BY <2>1, ReversePlace
    <2>. QED  BY <1>3, <2>2, CalmRefused
  <1>4. CASE SetLockupTransaction("reverse") \/ MarkFailed("reverse") \/ SetInvoiceSettled("reverse")
             \/ CancelInvoice("reverse")
    <2>1. Release("reverse")
      BY <1>4 DEF SetLockupTransaction, MarkFailed, SetInvoiceSettled, CancelInvoice
    <2>. QED  BY <1>1, <2>1, CalmReleased
  <1>5. CASE SendFailed("reverse")
    <2>1. at["reverse"] # "record" /\ (Throw("reverse") \/ Goto("reverse", "markFailed"))
      BY <1>5 DEF SendFailed, Running
    <2>. QED  BY <1>1, <2>1, CalmReleased, CalmOn DEF Awaits
  <1>6. CASE SettleInvoice("reverse")
    <2>1. at["reverse"] # "record" /\ (Throw("reverse") \/ Goto("reverse", "settled"))
      BY <1>6 DEF SettleInvoice, Running
    <2>. QED  BY <1>1, <2>1, CalmReleased, CalmOn DEF Awaits
  <1>7. CASE ExpireReverseSwap("reverse")
    <2>1. at["reverse"] = "start" /\ HeadOf("reverse").kind = "reverseSwap.expired"
      BY <1>7 DEF ExpireReverseSwap, Running
    <2>2. CASE Release("reverse")
      BY <1>1, <2>2, CalmReleased
    <2>3. CASE Goto("reverse", "refund")
      BY <1>1, <2>1, <2>3, CalmOn DEF Awaits
    <2>4. CASE /\ Goto("reverse", "expire")
               /\ row[HeadOf("reverse").swap] = "TransactionMempool" \/ ~HeadOf("reverse").sent
      <3>1. JobFits(HeadOf("reverse"))
        BY <1>1, OwnJobs DEF Calm
      <3>2. ~HeadOf("reverse").sent
        BY <2>1, <2>4, <3>1 DEF JobFits
      <3>. QED  BY <1>1, <2>1, <2>4, <3>2, CalmToRefund
    <2>. QED  BY <1>7, <2>2, <2>3, <2>4 DEF ExpireReverseSwap
  <1>8. CASE SetTransactionRefunded("reverse")
    <2>1. at["reverse"] = "recordRefund" /\ Goto("reverse", "cancel")
      BY <1>8 DEF SetTransactionRefunded
    <2>2. Explained("refund", HeadOf("reverse").swap)
      BY <1>1, <2>1, OwnJobs DEF CallInv
    <2>. QED  BY <1>1, <2>1, <2>2, CalmToRefund
  <1>9. CASE SetSwapExpired("reverse")
    <2>1. at["reverse"] = "expire" /\ Goto("reverse", "cancel")
      BY <1>9 DEF SetSwapExpired
    <2>2. ~HeadOf("reverse").sent
      BY <1>1, <2>1 DEF Calm, HeadFits
    <2>. QED  BY <1>1, <2>1, <2>2, CalmToRefund
  <1>. QED  BY <1>2, <1>3, <1>4, <1>5, <1>6, <1>7, <1>8, <1>9 DEF ReverseSteps

LEMMA CalmStep ==
  ASSUME StacksTypeOK, MoneyInv, CallInv, CalmInv, StacksNext
  PROVE  CalmInv'
  <1>. SUFFICES ASSUME mishaps' = 0 PROVE Calm'
    BY DEF CalmInv
  <1>1. mishaps = 0 /\ ~Restart /\ (\A l \in Locks : ~LoseAnswer(l)) /\ (\A e \in notes : ~LoseNote(e))
    BY NoMishap
  <1>2. Calm
    BY <1>1 DEF CalmInv
  <1>3. CalmHyp
    BY <1>2, CalmKeeps DEF CalmHyp, MoneyInv
  <1>4. CASE Outside
    <2>1. queue' = queue /\ at' = at /\ sub' = sub
      BY <1>4 DEF Outside, ExecuteCall, MineBlock, PayHoldInvoice, UserClaims, UserRefunds, UserLocks,
         PaymentEnds, lock
    <2>. QED  BY <1>3, <2>1, CalmStill
  <1>5. CASE Nursery
    BY <1>3, <1>5, CalmNursery
  <1>6. ASSUME NEW l \in Locks, CallSteps(l) \/ SetSwapExpired(l) PROVE Calm'
    BY <1>3, <1>6, CalmCalls, CalmSwaps, CalmReverse DEF Locks
  <1>7. CASE ReverseSteps
    BY <1>3, <1>7, CalmReverse
  <1>8. CASE SwapSteps
    BY <1>3, <1>8, CalmSwaps
  <1>. QED  BY <1>1, <1>4, <1>5, <1>6, <1>7, <1>8 DEF StacksNext

LEMMA CalmFrame ==
  ASSUME CalmInv, UNCHANGED stxVars
  PROVE  CalmInv'
  <1>1. UNCHANGED <<row, txid, sub, past, mempool, aborted, refused, queue, at, mishaps>>
    BY DEF stxVars, db, chain, node, lock
  <1>. QED  BY <1>1 DEF CalmInv, Calm, PaidOnce, JobFits, HeadFits, Paying, Unlocked, Live, Explained,
            Queued, HeadOf

(* Who gives a held payment back.                                          *)
LEMMA WhoCancels ==
  ASSUME StacksTypeOK, StacksNext, NEW s \in Outgoing, invoice[s] = "held", invoice'[s] = "canceled"
  PROVE  /\ SendFailed("reverse") \/ CancelInvoice("reverse")
         /\ HeadOf("reverse").swap = s
  <1>0. s \in StxSwaps /\ s \notin Incoming
    BY StacksAssumption DEF StxSwaps
  <1>. DEFINE Held == invoice'[s] = "held" \/ invoice'[s] = "settled"
  <1>1. UNCHANGED invoice => Held
    OBVIOUS
  <1>2. ASSUME NEW t, NEW v, invoice' = [invoice EXCEPT ![t] = v],
               t \in Incoming \/ v \in {"held", "settled"}
        PROVE  Held
    BY <1>0, <1>2 DEF StacksTypeOK
  <1>. HIDE DEF Held
  <1>3. ASSUME Outside PROVE Held
    <2>1. ASSUME NEW t \in StxSwaps, PayHoldInvoice(t) \/ UserClaims(t) \/ UserRefunds(t) PROVE Held
      BY <1>1, <1>2, <2>1 DEF PayHoldInvoice, UserClaims, UserRefunds
    <2>2. ASSUME NEW t \in StxSwaps, NEW chosen \in SUBSET LockupTerms, UserLocks(t, chosen) PROVE Held
      BY <1>1, <2>2 DEF UserLocks
    <2>3. ASSUME NEW t \in StxSwaps, NEW result \in {"paid", "rejected", "unpaid"}, PaymentEnds(t, result)
          PROVE  Held
      BY <1>2, <2>3 DEF PaymentEnds
    <2>4. ASSUME MineBlock \/ \E c \in mempool : ExecuteCall(c) PROVE Held
      BY <1>1, <2>4 DEF MineBlock, ExecuteCall
    <2>. QED  BY <1>3, <2>1, <2>2, <2>3, <2>4 DEF Outside
  <1>4. Nursery => UNCHANGED invoice
    BY DEF Nursery, InvoicePaid, CheckExpired, OnLockup, ConfirmOwnLockup, StoreUserLockup, OnClaim,
       RetryTimer, AskNonces, ApplyNonces
  <1>5. ASSUME NEW l \in Locks, CallSteps(l) \/ SetSwapExpired(l) \/ LoseAnswer(l) PROVE UNCHANGED invoice
    BY <1>5 DEF CallSteps, Sign, CallAccepted, CallRefused, IncrementNonce, SetSwapExpired, LoseAnswer
  <1>6. ASSUME ReverseSteps, ~SendFailed("reverse"), ~CancelInvoice("reverse") PROVE Held
    <2>1. ASSUME SettleInvoice("reverse") PROVE Held
      BY <1>1, <1>2, <2>1 DEF SettleInvoice
    <2>2. ASSUME ~SettleInvoice("reverse") PROVE UNCHANGED invoice
      BY <1>6, <2>2 DEF ReverseSteps, ListenLockup, ListenRefusedLockup, SetLockupTransaction, MarkFailed,
         SetInvoiceSettled, ExpireReverseSwap, SetTransactionRefunded
    <2>. QED  BY <1>1, <2>1, <2>2
  <1>7. ASSUME SwapSteps PROVE Held
    <2>1. ASSUME SendPayment("swap") PROVE Held
      <3>1. \/ UNCHANGED invoice
            \/ /\ invoice' = [invoice EXCEPT ![HeadOf("swap").swap] = "flying"]
               /\ invoice[HeadOf("swap").swap] \in {"unpaid", "rejected"}
        BY <2>1 DEF SendPayment
      <3>. QED  BY <1>0, <1>1, <3>1 DEF StacksTypeOK, Held
    <2>2. ASSUME ~SendPayment("swap") PROVE UNCHANGED invoice
      BY <1>7, <2>2 DEF SwapSteps, ClaimStx, SetInvoicePending, PaymentAnswered, SetMinerFee,
         LockupFailed, ExpireSwap, RetryQuery
    <2>. QED  BY <1>1, <2>1, <2>2
  <1>8. Restart \/ (\E e \in notes : LoseNote(e)) => UNCHANGED invoice
    BY DEF Restart, LoseNote
  <1>9. ~Held
    BY DEF Held
  <1>10. SendFailed("reverse") \/ CancelInvoice("reverse")
    BY <1>1, <1>3, <1>4, <1>5, <1>6, <1>7, <1>8, <1>9 DEF StacksNext
  <1>11. HeadOf("reverse").swap = s
    <2>1. CASE SendFailed("reverse")
      BY <1>0, <1>1, <1>9, <2>1 DEF SendFailed, StacksTypeOK
    <2>2. CASE CancelInvoice("reverse")
      BY <1>0, <1>1, <1>9, <2>2 DEF CancelInvoice, StacksTypeOK
    <2>. QED  BY <1>10, <2>1, <2>2
  <1>. QED  BY <1>10, <1>11

(* Without mishaps a held payment whose coins are locked, or about to be,  *)
(* is given back after an attempt to take the coins back, or for an expiry *)
(* event older than the lockup: for any number of swaps, blocks and events.*)
THEOREM GivesBackForRefunds == StacksSpec => GivenBackForRefund
  <1>. DEFINE Step == \A s \in Outgoing :
                (/\ invoice[s] = "held" /\ invoice'[s] = "canceled"
                 /\ Live("lock", s) \/ "locked" \in past[s]
                 /\ mishaps = 0)
                  => \/ Explained("refund", s)
                     \/ Running("reverse", {"reverseSwap.expired"}, "cancel") /\ ~HeadOf("reverse").sent
  <1>1. StacksInit => CallInv /\ CalmInv
    BY DEF StacksInit, CallInv, CalmInv, Calm, PaidOnce, JobFits, HeadFits, Paying, Unlocked, Live,
       Queued, Locks, StxSwaps
  <1>2. StacksTypeOK /\ MoneyInv /\ CallInv /\ CalmInv /\ [StacksNext]_stxVars => CallInv' /\ CalmInv'
    <2>1. ASSUME UNCHANGED stxVars, CallInv PROVE CallInv'
      BY <2>1 DEF stxVars, chain, node, lock, CallInv, Explained, Live, HeadOf
    <2>. QED  BY <2>1, CallStep, CalmStep, CalmFrame
  <1>3. StacksTypeOK /\ CalmInv /\ StacksNext => Step
    <2>. SUFFICES ASSUME StacksTypeOK, CalmInv, StacksNext, NEW s \in Outgoing,
                         invoice[s] = "held", invoice'[s] = "canceled",
                         Live("lock", s) \/ "locked" \in past[s], mishaps = 0
                  PROVE  \/ Explained("refund", s)
                         \/ Running("reverse", {"reverseSwap.expired"}, "cancel") /\ ~HeadOf("reverse").sent
      OBVIOUS
    <2>1. Calm /\ ~Unlocked(s)
      BY DEF CalmInv, Unlocked
    <2>2. HeadOf("reverse").swap = s
      BY WhoCancels
    <2>3. CASE SendFailed("reverse")
      <3>1. queue["reverse"] # << >> /\ HeadOf("reverse").kind = "lockup.failedToSend"
        BY <2>1, <2>3 DEF SendFailed, Running, Calm, HeadFits
      <3>2. JobFits(HeadOf("reverse"))
        BY <2>1, <3>1, HeadFacts, LockTypes DEF Calm, Locks
      <3>. QED  BY <2>1, <2>2, <3>1, <3>2 DEF JobFits
    <2>4. CASE CancelInvoice("reverse")
      BY <2>1, <2>2, <2>4 DEF CancelInvoice, Running, Calm, HeadFits
    <2>. QED  BY <2>3, <2>4, WhoCancels
  <1>4. UNCHANGED stxVars => Step
    BY DEF stxVars
  <1>5. GivenBackForRefund <=> [][Step]_stxVars
    BY DEF GivenBackForRefund
  <1>. HIDE DEF Step
  <1>6. StacksTypeOK /\ CalmInv /\ [StacksNext]_stxVars => [Step]_stxVars
    BY <1>3
  <1>. QED  BY <1>1, <1>2, <1>5, <1>6, StacksTypeCorrect, StacksInductive, PTL DEF StacksSpec

=============================================================================
