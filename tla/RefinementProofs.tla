--------------------------- MODULE RefinementProofs ---------------------------
(***************************************************************************)
(* Proof that the session, with the entry points of mechanisms.c as its   *)
(* steps, implements the abstract operation lifecycle OpLifecycle under    *)
(* the refinement mapping of Session (op <- opType, stage <- phase,        *)
(* held <- HeldCtxs).  The argument rests on the ownership invariant of    *)
(* SessionProofs: between two calls, a context a cleanup must release     *)
(* belongs to the sign or verify operation in progress.                   *)
(***************************************************************************)
EXTENDS SessionProofs

\* The session layer moves an operation to the retry stage, keeps it
\* active, or ends it as its kind requires.
LEMMA SessionAfterStages ==
  ASSUME NEW kind, NEW r, NEW isFinal, SessionAfter(kind, r, isFinal)
  PROVE  \/ opType' = kind /\ phase' \in {"active", "retry"}
         \/ <<opType', phase'>> = Lifecycle!Finished(kind)
BY DEF SessionAfter, Ended, HasCleanup, Lifecycle!Finished, Lifecycle!WithCleanup

\* Outside a sign or verify operation no context is held.
LEMMA IdleHoldsNothing ==
  ASSUME Ownership, opType \notin HasCleanup
  PROVE  HeldCtxs = {}
BY DEF Ownership, HeldCtxs, HasCleanup

\* A zeroed op_info is the lifecycle's initial state.
LEMMA InitRefined == Init => Lifecycle!Init
BY DEF Init, Lifecycle!Init, HeldCtxs

(***************************************************************************)
(* The inits begin an operation of their kind.                             *)
(***************************************************************************)

\* sign_mechanism_init may create md_ctx (kept for cleanup even when a later
\* call fails) and never a pkey_ctx; it never asks for a retry.
LEMMA SignInitRefined ==
  ASSUME TypeInv, Ownership, NEW m, NEW key, NEW prm, SignInit(m, key, prm)
  PROVE  Lifecycle!Begin("SIGN")
<1>1. opType = "NOOP"
  BY DEF SignInit
<1>2. pkeyCtx' = "null"
  BY <1>1, IdleHoldsNoSignContext DEF SignInit
<1>3. HeldCtxs' \in Lifecycle!Holdings("SIGN")
  BY <1>2 DEF HeldCtxs, Lifecycle!Holdings
<1>4. \/ opType' = "SIGN" /\ phase' = "active"
      \/ <<opType', phase'>> = Lifecycle!Finished("SIGN")
  BY DEF SignInit, SessionAfter, Ended, HasCleanup, Lifecycle!Finished, Lifecycle!WithCleanup
<1>. QED  BY <1>1, <1>3, <1>4 DEF Lifecycle!Begin

\* verify_mechanism_init creates md_ctx (whose pkey_ctx is borrowed) or a
\* pkey_ctx of its own, never both.
LEMMA VerifyInitRefined ==
  ASSUME TypeInv, Ownership, NEW m, NEW key, NEW prm, VerifyInit(m, key, prm)
  PROVE  Lifecycle!Begin("VERIFY")
<1>1. opType = "NOOP"
  BY DEF VerifyInit
<1>2. pkeyCtx' = "owned" => mdCtx' = "null"
  <2>1. pkeyCtx = "null"
    BY <1>1, IdleHoldsNoSignContext
  <2>. QED  BY <2>1 DEF VerifyInit
<1>3. HeldCtxs' \in Lifecycle!Holdings("VERIFY")
  BY <1>2 DEF HeldCtxs, Lifecycle!Holdings
<1>4. \/ opType' = "VERIFY" /\ phase' = "active"
      \/ <<opType', phase'>> = Lifecycle!Finished("VERIFY")
  BY DEF VerifyInit, SessionAfter, Ended, HasCleanup, Lifecycle!Finished, Lifecycle!WithCleanup
<1>. QED  BY <1>1, <1>3, <1>4 DEF Lifecycle!Begin

\* digest_mechanism_init's md_ctx is the digest's own, which no cleanup
\* releases.
LEMMA DigestInitRefined ==
  ASSUME TypeInv, Ownership, NEW m, DigestInit(m)
  PROVE  Lifecycle!Begin("DIGEST")
<1>1. opType = "NOOP"
  BY DEF DigestInit
<1>2. HeldCtxs = {} /\ pkeyCtx = "null"
  BY <1>1, IdleHoldsNothing, IdleHoldsNoSignContext DEF HasCleanup
<1>3. HeldCtxs' = {}
  BY <1>2 DEF DigestInit, HeldCtxs, HasCleanup
<1>4. \/ opType' = "DIGEST" /\ phase' = "active"
      \/ <<opType', phase'>> = Lifecycle!Finished("DIGEST")
  BY DEF DigestInit, SessionAfter, Ended, HasCleanup, Lifecycle!Finished, Lifecycle!WithCleanup
<1>. QED  BY <1>1, <1>3, <1>4 DEF Lifecycle!Begin, Lifecycle!Holdings

\* decrypt_mechanism_init touches no context.
LEMMA DecryptInitRefined ==
  ASSUME TypeInv, Ownership, NEW m, NEW key, NEW prm, DecryptInit(m, key, prm)
  PROVE  Lifecycle!Begin("DECRYPT")
<1>1. opType = "NOOP"
  BY DEF DecryptInit
<1>2. HeldCtxs = {}
  BY <1>1, IdleHoldsNothing DEF HasCleanup
<1>3. HeldCtxs' = {}
  BY <1>2 DEF DecryptInit, HeldCtxs
<1>4. \/ opType' = "DECRYPT" /\ phase' = "active"
      \/ <<opType', phase'>> = Lifecycle!Finished("DECRYPT")
  BY DEF DecryptInit, SessionAfter, Ended, HasCleanup, Lifecycle!Finished, Lifecycle!WithCleanup
<1>. QED  BY <1>1, <1>3, <1>4 DEF Lifecycle!Begin, Lifecycle!Holdings

(***************************************************************************)
(* Updates and finals continue the operation in progress.                  *)
(***************************************************************************)

\* digest_mechanism_update and the session layer's ciphertext copy.
LEMMA UpdateRefined ==
  ASSUME NEW len, MechanismUpdate(len) \/ DecryptUpdate(len)
  PROVE  Lifecycle!Continue
<1>1. opType \in Lifecycle!Kinds /\ phase \in {"active", "retry"}
  BY DEF MechanismUpdate, DecryptUpdate, Lifecycle!Kinds
<1>2. HeldCtxs' = HeldCtxs
  BY DEF MechanismUpdate, DecryptUpdate, HeldCtxs
<1>3. \/ opType' = opType /\ phase' \in {"active", "retry"}
      \/ <<opType', phase'>> = Lifecycle!Finished(opType)
  <2>1. CASE MechanismUpdate(len)
    BY <2>1, SessionAfterStages DEF MechanismUpdate
  <2>2. CASE DecryptUpdate(len)
    <3>1. opType = "DECRYPT" /\ SessionAfter("DECRYPT", rv', FALSE)
      BY <2>2 DEF DecryptUpdate
    <3>. QED  BY <3>1, SessionAfterStages
  <2>. QED  BY <2>1, <2>2
<1>. QED  BY <1>1, <1>2, <1>3 DEF Lifecycle!Continue

\* sign_mechanism_final finalises md_ctx but leaves it for the cleanup.
LEMMA SignFinalRefined ==
  ASSUME NEW cap, SignFinal(cap)
  PROVE  Lifecycle!Continue
<1>1. opType \in Lifecycle!Kinds /\ phase \in {"active", "retry"}
  BY DEF SignFinal, Lifecycle!Kinds
<1>2. HeldCtxs' = HeldCtxs
  <2>1. (mdCtx' # "null" <=> mdCtx # "null") /\ UNCHANGED <<mdOwner, pkeyCtx>>
    BY DEF SignFinal
  <2>. QED  BY <2>1 DEF HeldCtxs
<1>3. \/ opType' = opType /\ phase' \in {"active", "retry"}
      \/ <<opType', phase'>> = Lifecycle!Finished(opType)
  BY DEF SignFinal, SessionAfter, Ended, HasCleanup, Lifecycle!Finished,
         Lifecycle!WithCleanup
<1>. QED  BY <1>1, <1>2, <1>3 DEF Lifecycle!Continue

\* verify_mechanism_final and decrypt_mechanism_final.
LEMMA VerifyDecryptFinalRefined ==
  ASSUME VerifyFinal \/ DecryptFinal
  PROVE  Lifecycle!Continue
<1>1. opType \in Lifecycle!Kinds /\ phase \in {"active", "retry"}
  BY DEF VerifyFinal, DecryptFinal, Lifecycle!Kinds
<1>2. HeldCtxs' = HeldCtxs
  BY DEF VerifyFinal, DecryptFinal, HeldCtxs
<1>3. \/ opType' = opType /\ phase' \in {"active", "retry"}
      \/ <<opType', phase'>> = Lifecycle!Finished(opType)
  BY DEF VerifyFinal, DecryptFinal, SessionAfter, Ended, HasCleanup,
         Lifecycle!Finished, Lifecycle!WithCleanup
<1>. QED  BY <1>1, <1>2, <1>3 DEF Lifecycle!Continue

\* digest_mechanism_final destroys md_ctx, which is the digest's own: what
\* a cleanup must release does not change.
LEMMA DigestFinalRefined ==
  ASSUME Ownership, NEW cap, DigestFinal(cap)
  PROVE  Lifecycle!Continue
<1>1. opType = "DIGEST" /\ phase \in {"active", "retry"}
  BY DEF DigestFinal
<1>2. HeldCtxs = {}
  BY <1>1, IdleHoldsNothing DEF HasCleanup
<1>3. HeldCtxs' = {}
  BY <1>2 DEF DigestFinal, HeldCtxs
<1>4. \/ opType' = opType /\ phase' \in {"active", "retry"}
      \/ <<opType', phase'>> = Lifecycle!Finished(opType)
  BY <1>1, SessionAfterStages DEF DigestFinal
<1>. QED  BY <1>1, <1>2, <1>3, <1>4 DEF Lifecycle!Continue, Lifecycle!Kinds

(***************************************************************************)
(* The cleanups release, the cancellations drop.                           *)
(***************************************************************************)

\* sign_mechanism_cleanup and verify_mechanism_cleanup leave no context.
LEMMA CleanupRefined ==
  ASSUME TypeInv, Ownership, SignCleanup \/ VerifyCleanup
  PROVE  Lifecycle!Release
<1>1. CASE SignCleanup
  <2>1. pkeyCtx = "null"
    BY <1>1 DEF SignCleanup, Ownership, TypeInv, TypeOK, PkeyStates
  <2>. QED  BY <1>1, <2>1 DEF SignCleanup, HeldCtxs, Lifecycle!Release, Lifecycle!WithCleanup
<1>2. CASE VerifyCleanup
  BY <1>2 DEF VerifyCleanup, HeldCtxs, Lifecycle!Release, Lifecycle!WithCleanup
<1>. QED  BY <1>1, <1>2

\* The session layer's cancellation of a digest or a decryption.
LEMMA AbandonRefined ==
  ASSUME AbandonOperation
  PROVE  Lifecycle!Cancel
BY DEF AbandonOperation, ctxVars, HeldCtxs, Lifecycle!Cancel, Lifecycle!Kinds,
       Lifecycle!WithCleanup

(***************************************************************************)
(* The refinement.                                                         *)
(***************************************************************************)

\* Every step of a session whose contexts are owned as Ownership says is a
\* step of the lifecycle, or leaves opType, phase and the held contexts as
\* they were.
LEMMA NextRefined ==
  TypeInv /\ Ownership /\ [Next]_vars => [Lifecycle!Next]_Lifecycle!vars
<1>. SUFFICES ASSUME TypeInv, Ownership, [Next]_vars
              PROVE  [Lifecycle!Next]_Lifecycle!vars
  OBVIOUS
<1>1. CASE \E m \in Mechanisms, key \in KeyKinds \cup {NoKey} : \E prm \in PssParamsFor(m) :
             SignInit(m, key, prm) \/ VerifyInit(m, key, prm)
  <2>1. Lifecycle!Begin("SIGN") \/ Lifecycle!Begin("VERIFY")
    BY <1>1, SignInitRefined, VerifyInitRefined
  <2>. QED  BY <2>1 DEF Lifecycle!Next, Lifecycle!Kinds
<1>2. CASE \E m \in Mechanisms, key \in KeyKinds : \E prm \in OaepParamsFor(m) :
             DecryptInit(m, key, prm)
  <2>1. Lifecycle!Begin("DECRYPT")
    BY <1>2, DecryptInitRefined
  <2>. QED  BY <2>1 DEF Lifecycle!Next, Lifecycle!Kinds
<1>3. CASE \E m \in Mechanisms : DigestInit(m)
  <2>1. Lifecycle!Begin("DIGEST")
    BY <1>3, DigestInitRefined
  <2>. QED  BY <2>1 DEF Lifecycle!Next, Lifecycle!Kinds
<1>4. CASE \E len \in DataLens : MechanismUpdate(len) \/ DecryptUpdate(len)
  BY <1>4, UpdateRefined DEF Lifecycle!Next
<1>5. CASE \E cap \in {outLen - 1, outLen} : SignFinal(cap)
  BY <1>5, SignFinalRefined DEF Lifecycle!Next
<1>6. CASE \E cap \in {outLen - 1, outLen} : DigestFinal(cap)
  BY <1>6, DigestFinalRefined DEF Lifecycle!Next
<1>7. CASE VerifyFinal \/ DecryptFinal
  BY <1>7, VerifyDecryptFinalRefined DEF Lifecycle!Next
<1>8. CASE SignCleanup \/ VerifyCleanup
  BY <1>8, CleanupRefined DEF Lifecycle!Next
<1>9. CASE AbandonOperation
  BY <1>9, AbandonRefined DEF Lifecycle!Next
<1>10. CASE UNCHANGED vars
  BY <1>10 DEF vars, Lifecycle!vars, HeldCtxs
<1>. QED
  <2>. Next => \/ \E m \in Mechanisms, key \in KeyKinds \cup {NoKey} : \E prm \in PssParamsFor(m) :
                    SignInit(m, key, prm) \/ VerifyInit(m, key, prm)
               \/ \E m \in Mechanisms, key \in KeyKinds : \E prm \in OaepParamsFor(m) :
                    DecryptInit(m, key, prm)
               \/ \E m \in Mechanisms : DigestInit(m)
               \/ \E len \in DataLens : MechanismUpdate(len) \/ DecryptUpdate(len)
               \/ \E cap \in {outLen - 1, outLen} : SignFinal(cap)
               \/ \E cap \in {outLen - 1, outLen} : DigestFinal(cap)
               \/ VerifyFinal \/ DecryptFinal
               \/ SignCleanup \/ VerifyCleanup
               \/ AbandonOperation
    BY Zenon DEF Next
  <2>. QED  BY <1>1, <1>2, <1>3, <1>4, <1>5, <1>6, <1>7, <1>8, <1>9, <1>10

\* The session implements the operation lifecycle of spec 3 and 5: every
\* behaviour of the entry points of mechanisms.c, under the session layer,
\* is a behaviour of OpLifecycle with op_info's owned contexts as held.
THEOREM LifecycleRefinement == Spec => LifecycleRefined
<1>1. Spec => [](TypeInv /\ Ownership)
  <2>1. Init => TypeInv /\ OwnInv
    BY InitTypeInv, InitOwnInv
  <2>2. TypeInv /\ OwnInv /\ [Next]_vars => TypeInv' /\ OwnInv'
    BY NextTypeInv, NextOwnInv
  <2>3. TypeInv /\ OwnInv => TypeInv /\ Ownership
    BY DEF OwnInv
  <2>. QED  BY <2>1, <2>2, <2>3, PTL DEF Spec
<1>2. Init => Lifecycle!Init
  BY InitRefined
<1>3. TypeInv /\ Ownership /\ [Next]_vars => [Lifecycle!Next]_Lifecycle!vars
  BY NextRefined
<1>. QED  BY <1>1, <1>2, <1>3, PTL DEF Spec, LifecycleRefined, Lifecycle!Spec

\* What the lifecycle promises therefore holds of op_info: no context a
\* cleanup must release exists outside a sign or verify operation, a
\* signing operation holds at most its md_ctx, and a verification never
\* holds both an md_ctx and a pkey_ctx of its own.
THEOREM ContextsFitOperation == Spec => []Lifecycle!HeldFitsOperation
BY LifecycleRefinement, Lifecycle!HeldFits DEF LifecycleRefined

=============================================================================
