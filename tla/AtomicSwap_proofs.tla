------------------------- MODULE AtomicSwap_proofs -------------------------
(***************************************************************************)
(* Theorems of AtomicSwap, on either side and for every number of failing  *)
(* calls.                                                                  *)
(***************************************************************************)
EXTENDS AtomicSwap, Integers, TLAPS

-----------------------------------------------------------------------------
(* Types *)

(* What a failing call does to the history is well typed.                  *)
LEMMA CallFailsType ==
  ASSUME AtomicTypeOK, NEW why \in {"unrecorded", "claim", "refund"}, CallFails(why)
  PROVE  /\ asFails' \in 0..MaxFail
         /\ excuse' \subseteq AsStates \union {"unrecorded", "stale", "claim", "late", "early", "refund"}
  BY AtomicAssumption DEF AtomicTypeOK, CallFails

(* Every step keeps the types.                                             *)
LEMMA AtomicTypeKept ==
  ASSUME AtomicTypeOK, AtomicNext
  PROVE  AtomicTypeOK'
  <1>. USE DEF AtomicTypeOK, Chains
  <1>1. ASSUME NEW kind \in AsJobKinds, Begin(kind) PROVE AtomicTypeOK'
    BY <1>1 DEF Begin
  <1>2. ASSUME NEW n \in {"seen", "confirmed"}, SeeOwn(n) PROVE AtomicTypeOK'
    <2>1. CASE SeeOwnStx(n)
      BY <1>2, <2>1 DEF SeeOwn, SeeOwnStx, AsStates
    <2>2. CASE SeeOwnUtxo(n)
      <3>1. asRow' \in AsStates /\ asId' \in BOOLEAN
        BY <2>2 DEF SeeOwnUtxo, AsStates
      <3>2. asJobs' \subseteq AsJobKinds
        BY <2>2 DEF SeeOwnUtxo, AsJobKinds
      <3>. QED  BY <1>2, <3>1, <3>2 DEF SeeOwn
    <2>. QED  BY <1>2, <2>1, <2>2 DEF SeeOwn
  <1>3. ASSUME NEW n \in ClaimNotes, SeeClaim(n) PROVE AtomicTypeOK'
    <2>1. asJobs' \subseteq AsJobKinds
      BY <1>3 DEF SeeClaim, AsJobKinds
    <2>2. excuse' \subseteq AsStates \union {"unrecorded", "stale", "claim", "late", "early", "refund"}
      BY <1>3 DEF SeeClaim
    <2>3. notes' \subseteq Notes
      BY <1>3 DEF SeeClaim
    <2>. QED  BY <1>3, <2>1, <2>2, <2>3 DEF SeeClaim
  <1>4. CASE LockupThrows
    BY <1>4, CallFailsType DEF LockupThrows
  <1>5. CASE ClaimFails
    BY <1>5, CallFailsType DEF ClaimFails
  <1>6. CASE RefundThrows
    BY <1>6, CallFailsType DEF RefundThrows
  <1>7. CASE SendLockup
    BY <1>7 DEF SendLockup, Notes
  <1>8. CASE LockupRefused
    BY <1>8 DEF LockupRefused
  <1>9. CASE SetLockup
    BY <1>9 DEF SetLockup, AsStates
  <1>10. CASE HandleSwapSendFailed
    BY <1>10 DEF HandleSwapSendFailed, AsStates
  <1>11. CASE WriteListener
    BY <1>11 DEF WriteListener, AsStates
  <1>12. CASE OursConfirms
    BY <1>12 DEF OursConfirms, Notes
  <1>13. CASE SetZeroConfRejected
    BY <1>13 DEF SetZeroConfRejected, AsStates
  <1>14. CASE UserClaimsOurs
    BY <1>14 DEF UserClaimsOurs, Notes, ClaimNotes
  <1>15. CASE ClaimTheirs
    BY <1>15 DEF ClaimTheirs
  <1>16. CASE ClaimGivenUp
    BY <1>16 DEF ClaimGivenUp
  <1>17. CASE SetClaimed
    BY <1>17 DEF SetClaimed, AsStates
  <1>18. CASE FindExpired
    BY <1>18 DEF FindExpired, AsJobKinds, ExpiryKinds
  <1>19. CASE ExpireAtomicSwap
    BY <1>19 DEF ExpireAtomicSwap, StartsRefund, ExpiryKinds
  <1>20. CASE SetAsExpired
    BY <1>20 DEF SetAsExpired, AsStates
  <1>21. CASE AskRefund
    BY <1>21 DEF AskRefund
  <1>22. CASE ExecuteRefund
    BY <1>22 DEF ExecuteRefund
  <1>23. CASE SetAsRefunded
    BY <1>23 DEF SetAsRefunded, AsStates
  <1>24. CASE TheirTimeout
    BY <1>24 DEF TheirTimeout
  <1>25. CASE OurTimeout
    BY <1>25 DEF OurTimeout
  <1>26. CASE UserRefundsTheirs
    BY <1>26 DEF UserRefundsTheirs
  <1>. QED
    BY <1>1, <1>2, <1>3, <1>4, <1>5, <1>6, <1>7, <1>8, <1>9, <1>10, <1>11, <1>12, <1>13, <1>14,
       <1>15, <1>16, <1>17, <1>18, <1>19, <1>20, <1>21, <1>22, <1>23, <1>24, <1>25, <1>26
    DEF AtomicNext

(* Every variable of the atomic swap model has its type, for any number of *)
(* failing calls.                                                          *)
THEOREM AtomicTypeCorrect == AtomicSpec => []AtomicTypeOK
  <1>1. ASSUME AtomicInit PROVE AtomicTypeOK
    <2>1. asId \in BOOLEAN /\ late \subseteq {"theirs", "ours"} /\ notes \subseteq Notes
      BY <1>1, Zenon DEF AtomicInit
    <2>2. asRow \in AsStates /\ asJobs \subseteq AsJobKinds /\ excuse \subseteq AsStates
      BY <1>1, Zenon DEF AtomicInit, AsStates, AsJobKinds
    <2>3. asFails \in 0..MaxFail
      BY <1>1, AtomicAssumption DEF AtomicInit
    <2>. QED  BY <1>1, <2>1, <2>2, <2>3, Zenon DEF AtomicInit, AtomicTypeOK
  <1>2. ASSUME AtomicTypeOK, UNCHANGED atomicVars PROVE AtomicTypeOK'
    BY <1>2 DEF AtomicTypeOK, atomicVars
  <1>. QED  BY <1>1, <1>2, AtomicTypeKept, PTL DEF AtomicSpec

-----------------------------------------------------------------------------
(* The user's lock *)

(* What comes from the expiry comes after the timeout.                     *)
LEMMA ExpiryKept ==
  ASSUME AtomicTypeOK, ExpiryInv, AtomicNext
  PROVE  ExpiryInv'
  <1>. USE DEF AtomicTypeOK, ExpiryInv, Chains, ExpiryKinds
  <1>1. ASSUME NEW kind \in AsJobKinds, Begin(kind) PROVE ExpiryInv'
    BY <1>1 DEF Begin, AsJobKinds
  <1>2. ASSUME NEW n \in {"seen", "confirmed"}, SeeOwn(n) PROVE ExpiryInv'
    BY <1>2 DEF SeeOwn, SeeOwnStx, SeeOwnUtxo
  <1>3. ASSUME NEW n \in ClaimNotes, SeeClaim(n) PROVE ExpiryInv'
    BY <1>3 DEF SeeClaim
  <1>4. CASE SendLockup
    BY <1>4 DEF SendLockup
  <1>5. CASE LockupRefused
    BY <1>5 DEF LockupRefused
  <1>6. CASE LockupThrows
    BY <1>6 DEF LockupThrows, CallFails
  <1>7. CASE SetLockup
    BY <1>7 DEF SetLockup
  <1>8. CASE HandleSwapSendFailed
    BY <1>8 DEF HandleSwapSendFailed
  <1>9. CASE WriteListener
    BY <1>9 DEF WriteListener
  <1>10. CASE OursConfirms
    BY <1>10 DEF OursConfirms
  <1>11. CASE SetZeroConfRejected
    BY <1>11 DEF SetZeroConfRejected
  <1>12. CASE UserClaimsOurs
    BY <1>12 DEF UserClaimsOurs
  <1>13. CASE ClaimTheirs
    BY <1>13 DEF ClaimTheirs
  <1>14. CASE ClaimGivenUp
    BY <1>14 DEF ClaimGivenUp
  <1>15. CASE ClaimFails
    BY <1>15 DEF ClaimFails, CallFails
  <1>16. CASE SetClaimed
    BY <1>16 DEF SetClaimed
  <1>17. CASE FindExpired
    BY <1>17 DEF FindExpired
  <1>18. CASE ExpireAtomicSwap
    BY <1>18 DEF ExpireAtomicSwap, StartsRefund
  <1>19. CASE SetAsExpired
    BY <1>19 DEF SetAsExpired
  <1>20. CASE AskRefund
    BY <1>20 DEF AskRefund
  <1>21. CASE RefundThrows
    BY <1>21 DEF RefundThrows, CallFails
  <1>22. CASE ExecuteRefund
    BY <1>22 DEF ExecuteRefund
  <1>23. CASE SetAsRefunded
    BY <1>23 DEF SetAsRefunded
  <1>24. CASE TheirTimeout
    BY <1>24 DEF TheirTimeout
  <1>25. CASE OurTimeout
    BY <1>25 DEF OurTimeout
  <1>26. CASE UserRefundsTheirs
    BY <1>26 DEF UserRefundsTheirs
  <1>. QED
    BY <1>1, <1>2, <1>3, <1>4, <1>5, <1>6, <1>7, <1>8, <1>9, <1>10, <1>11, <1>12, <1>13,
       <1>14, <1>15, <1>16, <1>17, <1>18, <1>19, <1>20, <1>21, <1>22, <1>23, <1>24, <1>25, <1>26
    DEF AtomicNext

(* A UTXO lockup only fails in a way that the history records.            *)
LEMMA FailedKept ==
  ASSUME AtomicTypeOK, FailedInv, AtomicNext
  PROVE  FailedInv'
  <1>. USE DEF AtomicTypeOK, FailedInv, Chains
  <1>1. ASSUME NEW kind \in AsJobKinds, Begin(kind) PROVE FailedInv'
    BY <1>1 DEF Begin, AsJobKinds, ExpiryKinds
  <1>2. ASSUME NEW n \in {"seen", "confirmed"}, SeeOwn(n) PROVE FailedInv'
    BY <1>2 DEF SeeOwn, SeeOwnStx, SeeOwnUtxo
  <1>3. ASSUME NEW n \in ClaimNotes, SeeClaim(n) PROVE FailedInv'
    BY <1>3 DEF SeeClaim
  <1>4. CASE SendLockup
    BY <1>4 DEF SendLockup
  <1>5. CASE LockupRefused
    BY <1>5 DEF LockupRefused
  <1>6. CASE LockupThrows
    BY <1>6 DEF LockupThrows, CallFails
  <1>7. CASE SetLockup
    BY <1>7 DEF SetLockup
  <1>8. CASE HandleSwapSendFailed
    BY <1>8 DEF HandleSwapSendFailed
  <1>9. CASE WriteListener
    BY <1>9 DEF WriteListener
  <1>10. CASE OursConfirms
    BY <1>10 DEF OursConfirms
  <1>11. CASE SetZeroConfRejected
    BY <1>11 DEF SetZeroConfRejected
  <1>12. CASE UserClaimsOurs
    BY <1>12 DEF UserClaimsOurs
  <1>13. CASE ClaimTheirs
    BY <1>13 DEF ClaimTheirs
  <1>14. CASE ClaimGivenUp
    BY <1>14 DEF ClaimGivenUp
  <1>15. CASE ClaimFails
    BY <1>15 DEF ClaimFails, CallFails
  <1>16. CASE SetClaimed
    BY <1>16 DEF SetClaimed
  <1>17. CASE FindExpired
    BY <1>17 DEF FindExpired, ExpiryKinds
  <1>18. CASE ExpireAtomicSwap
    BY <1>18 DEF ExpireAtomicSwap, StartsRefund, ExpiryKinds
  <1>19. CASE SetAsExpired
    BY <1>19 DEF SetAsExpired
  <1>20. CASE AskRefund
    BY <1>20 DEF AskRefund
  <1>21. CASE RefundThrows
    BY <1>21 DEF RefundThrows, CallFails
  <1>22. CASE ExecuteRefund
    BY <1>22 DEF ExecuteRefund
  <1>23. CASE SetAsRefunded
    BY <1>23 DEF SetAsRefunded
  <1>24. CASE TheirTimeout
    BY <1>24 DEF TheirTimeout
  <1>25. CASE OurTimeout
    BY <1>25 DEF OurTimeout
  <1>26. CASE UserRefundsTheirs
    BY <1>26 DEF UserRefundsTheirs
  <1>. QED
    BY <1>1, <1>2, <1>3, <1>4, <1>5, <1>6, <1>7, <1>8, <1>9, <1>10, <1>11, <1>12, <1>13,
       <1>14, <1>15, <1>16, <1>17, <1>18, <1>19, <1>20, <1>21, <1>22, <1>23, <1>24, <1>25, <1>26
    DEF AtomicNext

(* Once the backend's coins are claimed, the user's are on the way too.    *)
LEMMA ClaimKept ==
  ASSUME AtomicTypeOK, ExpiryInv, FailedInv, ClaimInv, AtomicNext
  PROVE  ClaimInv'
  <1>. USE DEF AtomicTypeOK, ClaimInv, Excused, Hidden, Handling, Chains
  <1>1. ASSUME NEW kind \in AsJobKinds, Begin(kind) PROVE ClaimInv'
    BY <1>1 DEF Begin, AsJobKinds, ExpiryKinds
  <1>2. ASSUME NEW n \in {"seen", "confirmed"}, SeeOwn(n) PROVE ClaimInv'
    BY <1>2 DEF SeeOwn, SeeOwnStx, SeeOwnUtxo, ClaimNotes
  <1>3. ASSUME NEW n \in ClaimNotes, SeeClaim(n) PROVE ClaimInv'
    BY <1>3 DEF SeeClaim, FindsClaim, FailedInv, ExpiryInv, AsStates, ClaimNotes
  <1>4. CASE SendLockup
    BY <1>4 DEF SendLockup, ClaimNotes
  <1>5. CASE LockupRefused
    BY <1>5 DEF LockupRefused
  <1>6. CASE LockupThrows
    BY <1>6 DEF LockupThrows, CallFails
  <1>7. CASE SetLockup
    BY <1>7 DEF SetLockup
  <1>8. CASE HandleSwapSendFailed
    BY <1>8 DEF HandleSwapSendFailed
  <1>9. CASE WriteListener
    BY <1>9 DEF WriteListener
  <1>10. CASE OursConfirms
    BY <1>10 DEF OursConfirms, ClaimNotes
  <1>11. CASE SetZeroConfRejected
    BY <1>11 DEF SetZeroConfRejected
  <1>12. CASE UserClaimsOurs
    BY <1>12 DEF UserClaimsOurs, ClaimNotes, ExpiryInv
  <1>13. CASE ClaimTheirs
    BY <1>13 DEF ClaimTheirs, ExpiryInv
  <1>14. CASE ClaimGivenUp
    BY <1>14 DEF ClaimGivenUp
  <1>15. CASE ClaimFails
    BY <1>15 DEF ClaimFails, CallFails
  <1>16. CASE SetClaimed
    BY <1>16 DEF SetClaimed
  <1>17. CASE FindExpired
    BY <1>17 DEF FindExpired, ExpiryKinds
  <1>18. CASE ExpireAtomicSwap
    BY <1>18 DEF ExpireAtomicSwap, ExpiryKinds
  <1>19. CASE SetAsExpired
    BY <1>19 DEF SetAsExpired
  <1>20. CASE AskRefund
    BY <1>20 DEF AskRefund
  <1>21. CASE RefundThrows
    BY <1>21 DEF RefundThrows, CallFails
  <1>22. CASE ExecuteRefund
    BY <1>22 DEF ExecuteRefund
  <1>23. CASE SetAsRefunded
    BY <1>23 DEF SetAsRefunded
  <1>24. CASE TheirTimeout
    BY <1>24 DEF TheirTimeout
  <1>25. CASE OurTimeout
    BY <1>25 DEF OurTimeout
  <1>26. CASE UserRefundsTheirs
    BY <1>26 DEF UserRefundsTheirs
  <1>. QED
    BY <1>1, <1>2, <1>3, <1>4, <1>5, <1>6, <1>7, <1>8, <1>9, <1>10, <1>11, <1>12, <1>13,
       <1>14, <1>15, <1>16, <1>17, <1>18, <1>19, <1>20, <1>21, <1>22, <1>23, <1>24, <1>25, <1>26
    DEF AtomicNext

-----------------------------------------------------------------------------
(* The backend's lock *)

(* The expiry's one refund is under way until the coins are gone.          *)
LEMMA OursKept ==
  ASSUME AtomicTypeOK, OursInv, AtomicNext
  PROVE  OursInv'
  <1>. USE DEF AtomicTypeOK, OursInv, Gone, RefundExcused, Chains
  <1>1. ASSUME NEW kind \in AsJobKinds, Begin(kind) PROVE OursInv'
    BY <1>1 DEF Begin, AsJobKinds, ExpiryKinds
  <1>2. ASSUME NEW n \in {"seen", "confirmed"}, SeeOwn(n) PROVE OursInv'
    BY <1>2 DEF SeeOwn, SeeOwnStx, SeeOwnUtxo
  <1>3. ASSUME NEW n \in ClaimNotes, SeeClaim(n) PROVE OursInv'
    BY <1>3 DEF SeeClaim
  <1>4. CASE SendLockup
    BY <1>4 DEF SendLockup
  <1>5. CASE LockupRefused
    BY <1>5 DEF LockupRefused
  <1>6. CASE LockupThrows
    BY <1>6 DEF LockupThrows, CallFails
  <1>7. CASE SetLockup
    BY <1>7 DEF SetLockup
  <1>8. CASE HandleSwapSendFailed
    BY <1>8 DEF HandleSwapSendFailed
  <1>9. CASE WriteListener
    BY <1>9 DEF WriteListener
  <1>10. CASE OursConfirms
    BY <1>10 DEF OursConfirms
  <1>11. CASE SetZeroConfRejected
    BY <1>11 DEF SetZeroConfRejected
  <1>12. CASE UserClaimsOurs
    BY <1>12 DEF UserClaimsOurs
  <1>13. CASE ClaimTheirs
    BY <1>13 DEF ClaimTheirs
  <1>14. CASE ClaimGivenUp
    BY <1>14 DEF ClaimGivenUp
  <1>15. CASE ClaimFails
    BY <1>15 DEF ClaimFails, CallFails
  <1>16. CASE SetClaimed
    BY <1>16 DEF SetClaimed
  <1>17. CASE FindExpired
    BY <1>17 DEF FindExpired, ExpiryKinds
  <1>18. CASE ExpireAtomicSwap
    BY <1>18 DEF ExpireAtomicSwap, StartsRefund, ExpiryKinds
  <1>19. CASE SetAsExpired
    BY <1>19 DEF SetAsExpired
  <1>20. CASE AskRefund
    BY <1>20 DEF AskRefund
  <1>21. CASE RefundThrows
    BY <1>21 DEF RefundThrows, CallFails
  <1>22. CASE ExecuteRefund
    BY <1>22 DEF ExecuteRefund
  <1>23. CASE SetAsRefunded
    BY <1>23 DEF SetAsRefunded
  <1>24. CASE TheirTimeout
    BY <1>24 DEF TheirTimeout
  <1>25. CASE OurTimeout
    BY <1>25 DEF OurTimeout
  <1>26. CASE UserRefundsTheirs
    BY <1>26 DEF UserRefundsTheirs
  <1>. QED
    BY <1>1, <1>2, <1>3, <1>4, <1>5, <1>6, <1>7, <1>8, <1>9, <1>10, <1>11, <1>12, <1>13,
       <1>14, <1>15, <1>16, <1>17, <1>18, <1>19, <1>20, <1>21, <1>22, <1>23, <1>24, <1>25, <1>26
    DEF AtomicNext

-----------------------------------------------------------------------------
(* The theorems *)

(* Nothing has happened yet.                                               *)
LEMMA InitAtomic ==
  ASSUME AtomicInit
  PROVE  TheirsInv /\ OursInv
  BY DEF AtomicInit, TheirsInv, ExpiryInv, FailedInv, ClaimInv, OursInv, ExpiryKinds

(* A step that changes nothing changes none of it.                         *)
LEMMA StutterAtomic ==
  ASSUME TheirsInv, OursInv, UNCHANGED atomicVars
  PROVE  TheirsInv' /\ OursInv'
  BY DEF TheirsInv, ExpiryInv, FailedInv, ClaimInv, OursInv, Excused, Hidden, Handling,
         Gone, RefundExcused, atomicVars

(* Both invariants hold in every reachable state.                          *)
THEOREM AtomicInductive == AtomicSpec => [](TheirsInv /\ OursInv)
  <1>1. ASSUME AtomicTypeOK, TheirsInv, OursInv, AtomicNext
        PROVE  TheirsInv' /\ OursInv'
    BY <1>1, ExpiryKept, FailedKept, ClaimKept, OursKept DEF TheirsInv
  <1>. QED  BY <1>1, InitAtomic, StutterAtomic, AtomicTypeCorrect, PTL DEF AtomicSpec

(* A user who claims in time while the backend handles claims in time does *)
(* not get both sides, unless the history has one of the listed reasons.   *)
THEOREM NoFreeSwap == AtomicSpec => []ClaimedInTimePaid
  <1>1. TheirsInv => ClaimedInTimePaid
    BY DEF TheirsInv, ClaimInv, Excused, Hidden, ClaimedInTimePaid
  <1>. QED  BY <1>1, AtomicInductive, PTL

(* When the expiry is handled and nothing is under way, the backend's      *)
(* coins are out of its lock, unless the history says why not.             *)
THEOREM CoinsComeBack == AtomicSpec => []OursComesBack
  <1>1. OursInv => OursComesBack
    BY DEF OursInv, Gone, RefundExcused, OursComesBack, Settled
  <1>. QED  BY <1>1, AtomicInductive, PTL

=============================================================================
