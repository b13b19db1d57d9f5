---------------------------- MODULE SafetyProofs ----------------------------
(***************************************************************************)
(* Proofs, for every value of the constants, of the safety invariants of  *)
(* the passing runs that SessionProofs does not cover: the update buffer   *)
(* stays within op_info.buf, a hashed PSS signature pads the mechanism's   *)
(* own digest, and every RSA block handed to the card has the modulus      *)
(* width.  Each rests on the type invariant TypeInv of SessionProofs.      *)
(***************************************************************************)
EXTENDS SessionProofs

-----------------------------------------------------------------------------
(***************************************************************************)
(* BufferWithinBounds.  digest_mechanism_update checks buf_len + in_len   *)
(* in CK_ULONG, so the check is right only while that sum cannot wrap:     *)
(* the theorem assumes every in_len leaves room for a full buffer below    *)
(* 2^Width (MCWrap.cfg shows what happens otherwise).                      *)
(***************************************************************************)
NoWrapLens == DataLens \subseteq 0..(ULong - 1 - BufSize)

\* Between two calls op_info.buf_len never exceeds sizeof(op_info.buf).
BufBounded == bufLen <= BufSize

BufInv == BufBounded /\ BufferWithinBounds

LEMMA InitBufInv == Init => BufInv
BY ConstantFacts DEF Init, BufInv, BufBounded, BufferWithinBounds

\* The inits reset buf_len or leave it, and add no overrun.
LEMMA InitsBufInv ==
  ASSUME TypeInv, BufInv, NEW m \in Mechanisms, NEW key \in KeyKinds \cup {NoKey},
         NEW prm,
         \/ SignInit(m, key, prm) \/ VerifyInit(m, key, prm)
         \/ DecryptInit(m, key, prm) \/ DigestInit(m)
  PROVE  BufInv'
<1>1. CASE SignInit(m, key, prm)
  BY <1>1, ConstantFacts DEF SignInit, LostMd, BufInv, BufBounded, BufferWithinBounds
<1>2. CASE VerifyInit(m, key, prm)
  BY <1>2, ConstantFacts DEF VerifyInit, LostMd, LostPkey, BufInv, BufBounded,
                             BufferWithinBounds
<1>3. CASE DecryptInit(m, key, prm)
  BY <1>3 DEF DecryptInit, LostLabel, BufInv, BufBounded, BufferWithinBounds
<1>4. CASE DigestInit(m)
  BY <1>4, ConstantFacts DEF DigestInit, LostMd, BufInv, BufBounded, BufferWithinBounds
<1>. QED  BY <1>1, <1>2, <1>3, <1>4

\* digest_mechanism_update: when buf_len + in_len cannot wrap, the capacity
\* check compares the true sum, so memcpy stays within buf.
LEMMA UpdateBufInv ==
  ASSUME TypeInv, BufInv, NoWrapLens, NEW len \in DataLens, MechanismUpdate(len)
  PROVE  BufInv'
<1>1. len \in 0..(ULong - 1 - BufSize) /\ bufLen \in 0..BufSize
  BY DEF NoWrapLens, TypeInv, TypeOK, BufInv, BufBounded
<1>2. bufLen + len \in 0..(ULong - 1)
  BY <1>1, ConstantFacts
<1>3. (bufLen + len) % ULong = bufLen + len
  BY <1>2, ConstantFacts, SMT
<1>4. ~UpdateOverflows(len) => bufLen + len <= BufSize
  BY <1>2, <1>3, ConstantFacts DEF UpdateOverflows
<1>5. CASE ~UpdateOverflows(len) /\ ~(mdCtx # "null" /\ mechanism # "CKM_EDDSA")
  <2>1. /\ bufLen' = (bufLen + len) % ULong
        /\ faults' = IF bufLen + len > BufSize THEN faults \cup {"overrun"} ELSE faults
    BY <1>5, Zenon DEF MechanismUpdate
  <2>2. ~(bufLen + len > BufSize)
    BY <1>2, <1>4, <1>5, ConstantFacts
  <2>. QED  BY <1>3, <1>4, <1>5, <2>1, <2>2 DEF BufInv, BufBounded, BufferWithinBounds
<1>6. CASE UpdateOverflows(len) \/ (mdCtx # "null" /\ mechanism # "CKM_EDDSA")
  BY <1>6 DEF MechanismUpdate, BufInv, BufBounded, BufferWithinBounds
<1>. QED  BY <1>5, <1>6

\* The session layer's ciphertext buffering checks the true sum.
LEMMA DecryptUpdateBufInv ==
  ASSUME TypeInv, BufInv, NEW len \in DataLens, DecryptUpdate(len)
  PROVE  BufInv'
BY DEF DecryptUpdate, BufInv, BufBounded, BufferWithinBounds

\* sign_mechanism_final writes back into buf_len a digest, a DigestInfo or
\* a block of out_len bytes, all within buf.
LEMMA SignFinalBufInv ==
  ASSUME TypeInv, BufInv, NEW cap, SignFinal(cap)
  PROVE  BufInv'
<1>1. mdCtx # "null" => HashLen[mdHash] \in 1..BufSize /\ DigestInfoLen[mdHash] \in 1..BufSize
  BY ConstantFacts DEF SignFinal, TypeInv, SignDigestKnown
<1>2. outLen \in 0..BufSize /\ bufLen \in 0..BufSize
  BY DEF TypeInv, TypeOK, BufInv, BufBounded
<1>. QED
  BY <1>1, <1>2 DEF SignFinal, PaddedLen, BufInv, BufBounded, BufferWithinBounds

\* The other finals, the cleanups and cancellation add no overrun and
\* leave buf_len or reset it.
LEMMA OtherStepsBufInv ==
  ASSUME TypeInv, BufInv, NEW cap,
         \/ VerifyFinal \/ DecryptFinal \/ DigestFinal(cap)
         \/ SignCleanup \/ VerifyCleanup \/ AbandonOperation
  PROVE  BufInv'
<1>1. CASE VerifyFinal
  BY <1>1 DEF VerifyFinal, BufInv, BufBounded, BufferWithinBounds
<1>2. CASE DecryptFinal
  BY <1>2 DEF DecryptFinal, BufInv, BufBounded, BufferWithinBounds
<1>3. CASE DigestFinal(cap)
  BY <1>3 DEF DigestFinal, BufInv, BufBounded, BufferWithinBounds
<1>4. CASE SignCleanup
  BY <1>4, ConstantFacts DEF SignCleanup, BufInv, BufBounded, BufferWithinBounds
<1>5. CASE VerifyCleanup
  BY <1>5, ConstantFacts DEF VerifyCleanup, VerifyCleanupFaults, LostPkey, BufInv,
                             BufBounded, BufferWithinBounds
<1>6. CASE AbandonOperation
  BY <1>6 DEF AbandonOperation, ctxVars, BufInv, BufBounded, BufferWithinBounds
<1>. QED  BY <1>1, <1>2, <1>3, <1>4, <1>5, <1>6

LEMMA NextBufInv == NoWrapLens /\ TypeInv /\ BufInv /\ [Next]_vars => BufInv'
<1>. SUFFICES ASSUME NoWrapLens, TypeInv, BufInv, [Next]_vars PROVE BufInv'
  OBVIOUS
<1>1. CASE \E m \in Mechanisms, key \in KeyKinds \cup {NoKey} : \E prm \in PssParamsFor(m) :
             SignInit(m, key, prm) \/ VerifyInit(m, key, prm)
  BY <1>1, InitsBufInv
<1>2. CASE \E m \in Mechanisms, key \in KeyKinds : \E prm \in OaepParamsFor(m) :
             DecryptInit(m, key, prm)
  BY <1>2, InitsBufInv
<1>3. CASE \E m \in Mechanisms : DigestInit(m)
  BY <1>3, InitsBufInv DEF NoKey
<1>4. CASE \E len \in DataLens : MechanismUpdate(len) \/ DecryptUpdate(len)
  BY <1>4, UpdateBufInv, DecryptUpdateBufInv
<1>5. CASE \E cap \in {outLen - 1, outLen} : SignFinal(cap) \/ DigestFinal(cap)
  BY <1>5, SignFinalBufInv, OtherStepsBufInv
<1>6. CASE \/ VerifyFinal \/ DecryptFinal
           \/ SignCleanup \/ VerifyCleanup \/ AbandonOperation
  BY <1>6, OtherStepsBufInv
<1>7. CASE UNCHANGED vars
  BY <1>7 DEF vars, BufInv, BufBounded, BufferWithinBounds
<1>. QED  BY <1>1, <1>2, <1>3, <1>4, <1>5, <1>6, <1>7 DEF Next

\* The data digest_mechanism_update appends never runs past the end of
\* op_info.buf, however updates, finals and new operations interleave,
\* provided no in_len makes buf_len + in_len wrap in CK_ULONG.
THEOREM BufferSafe == NoWrapLens => (Spec => []BufferWithinBounds)
<1>. SUFFICES ASSUME NoWrapLens PROVE Spec => []BufferWithinBounds
  OBVIOUS
<1>1. Init => TypeInv /\ BufInv
  BY InitTypeInv, InitBufInv
<1>2. TypeInv /\ BufInv /\ [Next]_vars => (TypeInv /\ BufInv)'
  BY NextTypeInv, NextBufInv
<1>3. TypeInv /\ BufInv => BufferWithinBounds
  BY DEF BufInv
<1>. QED  BY <1>1, <1>2, <1>3, PTL DEF Spec

-----------------------------------------------------------------------------
(***************************************************************************)
(* PssDigestConsistent.  sign_mechanism_init stores the PSS hashAlg and    *)
(* opens md_ctx on the mechanism's digest; the check of line 177 makes     *)
(* them equal, and nothing later in the operation changes either.         *)
(***************************************************************************)

\* The signing inits leave the PSS digest and the running digest equal
\* whenever they start a hashed PSS operation.
LEMMA SignInitPss ==
  ASSUME TypeInv, NEW m \in Mechanisms, NEW key \in KeyKinds \cup {NoKey},
         NEW prm, SignInit(m, key, prm)
  PROVE  PssDigestConsistent'
<1>1. SUFFICES ASSUME opType' = "SIGN", phase' \in {"active", "retry"},
                      padding' = "PSS", mdCtx' # "null"
               PROVE  pssMd' = mdHash'
  BY DEF PssDigestConsistent
<1>2. rv' = "CKR_OK"
  BY <1>1 DEF SignInit, SessionAfter, Ended, HasCleanup
<1>. QED
  BY <1>1, <1>2 DEF SignInit, PssHashConflict, PssMdOf, TypeInv, TypeOK

\* The other inits start no signing operation.
LEMMA OtherInitsPss ==
  ASSUME NEW m, NEW key, NEW prm,
         VerifyInit(m, key, prm) \/ DecryptInit(m, key, prm) \/ DigestInit(m)
  PROVE  PssDigestConsistent'
<1>1. CASE VerifyInit(m, key, prm)
  BY <1>1 DEF VerifyInit, SessionAfter, Ended, HasCleanup, PssDigestConsistent
<1>2. CASE DecryptInit(m, key, prm)
  BY <1>2 DEF DecryptInit, SessionAfter, Ended, HasCleanup, PssDigestConsistent
<1>3. CASE DigestInit(m)
  BY <1>3 DEF DigestInit, SessionAfter, Ended, HasCleanup, PssDigestConsistent
<1>. QED  BY <1>1, <1>2, <1>3

\* Every later step either keeps a signing operation's digests or leaves no
\* signing operation in progress.
LEMMA StepsPss ==
  ASSUME PssDigestConsistent, NEW len, NEW cap,
         \/ MechanismUpdate(len) \/ DecryptUpdate(len)
         \/ SignFinal(cap) \/ DigestFinal(cap) \/ VerifyFinal \/ DecryptFinal
         \/ SignCleanup \/ VerifyCleanup \/ AbandonOperation
  PROVE  PssDigestConsistent'
<1>1. CASE MechanismUpdate(len)
  BY <1>1 DEF MechanismUpdate, SessionAfter, Ended, HasCleanup, PssDigestConsistent
<1>2. CASE DecryptUpdate(len)
  BY <1>2 DEF DecryptUpdate, SessionAfter, Ended, HasCleanup, PssDigestConsistent
<1>3. CASE SignFinal(cap)
  BY <1>3 DEF SignFinal, SessionAfter, Ended, HasCleanup, PssDigestConsistent
<1>4. CASE DigestFinal(cap)
  BY <1>4 DEF DigestFinal, SessionAfter, Ended, HasCleanup, PssDigestConsistent
<1>5. CASE VerifyFinal
  BY <1>5 DEF VerifyFinal, SessionAfter, Ended, HasCleanup, PssDigestConsistent
<1>6. CASE DecryptFinal
  BY <1>6 DEF DecryptFinal, SessionAfter, Ended, HasCleanup, PssDigestConsistent
<1>7. CASE SignCleanup \/ VerifyCleanup \/ AbandonOperation
  BY <1>7 DEF SignCleanup, VerifyCleanup, AbandonOperation, PssDigestConsistent
<1>. QED  BY <1>1, <1>2, <1>3, <1>4, <1>5, <1>6, <1>7

LEMMA NextPss == TypeInv /\ PssDigestConsistent /\ [Next]_vars => PssDigestConsistent'
<1>. SUFFICES ASSUME TypeInv, PssDigestConsistent, [Next]_vars PROVE PssDigestConsistent'
  OBVIOUS
<1>1. CASE \E m \in Mechanisms, key \in KeyKinds \cup {NoKey} : \E prm \in PssParamsFor(m) :
             SignInit(m, key, prm) \/ VerifyInit(m, key, prm)
  <2>1. PICK m \in Mechanisms, key \in KeyKinds \cup {NoKey} :
               \E prm \in PssParamsFor(m) : SignInit(m, key, prm) \/ VerifyInit(m, key, prm)
    BY <1>1
  <2>2. PICK prm \in PssParamsFor(m) : SignInit(m, key, prm) \/ VerifyInit(m, key, prm)
    BY <2>1
  <2>. QED  BY <2>2, SignInitPss, OtherInitsPss
<1>2. CASE \E m \in Mechanisms, key \in KeyKinds : \E prm \in OaepParamsFor(m) :
             DecryptInit(m, key, prm)
  BY <1>2, OtherInitsPss
<1>3. CASE \E m \in Mechanisms : DigestInit(m)
  BY <1>3, OtherInitsPss
<1>4. CASE \E len \in DataLens : MechanismUpdate(len) \/ DecryptUpdate(len)
  BY <1>4, StepsPss
<1>5. CASE \/ \E cap \in {outLen - 1, outLen} : SignFinal(cap) \/ DigestFinal(cap)
           \/ VerifyFinal \/ DecryptFinal
           \/ SignCleanup \/ VerifyCleanup \/ AbandonOperation
  BY <1>5, StepsPss
<1>6. CASE UNCHANGED vars
  BY <1>6 DEF vars, PssDigestConsistent
<1>. QED  BY <1>1, <1>2, <1>3, <1>4, <1>5, <1>6 DEF Next

\* A hashed PSS signing operation pads with the digest it computes: the
\* hashAlg sign_mechanism_init records is the digest md_ctx runs, in every
\* state from a successful init to the final.
THEOREM PssDigestSafe == Spec => []PssDigestConsistent
<1>1. Init => TypeInv /\ PssDigestConsistent
  BY InitTypeInv DEF Init, PssDigestConsistent
<1>2. TypeInv /\ PssDigestConsistent /\ [Next]_vars => (TypeInv /\ PssDigestConsistent)'
  BY NextTypeInv, NextPss
<1>. QED  BY <1>1, <1>2, PTL DEF Spec

-----------------------------------------------------------------------------
(***************************************************************************)
(* RsaBlockFullWidth.  sign_mechanism_init admits an RSA key only with a   *)
(* padding (lines 126-189) and sets out_len to the modulus width (line     *)
(* 122); every padding of sign_mechanism_final leaves buf_len = out_len.   *)
(***************************************************************************)

\* A signing operation with an RSA key pads, to the modulus width.
RsaShape ==
  (opType = "SIGN" /\ phase \in {"active", "retry"} /\ keyKind = "rsa")
    => padding \in {"PKCS1", "PSS", "NO"} /\ outLen = SigLen["rsa"]

RsaInv == RsaShape /\ RsaBlockFullWidth

LEMMA SignInitRsa ==
  ASSUME RsaInv, NEW m, NEW key, NEW prm, SignInit(m, key, prm)
  PROVE  RsaInv'
<1>1. RsaBlockFullWidth'
  BY DEF SignInit, RsaInv, RsaBlockFullWidth
<1>2. SUFFICES ASSUME opType' = "SIGN", phase' \in {"active", "retry"}, keyKind' = "rsa"
               PROVE  padding' \in {"PKCS1", "PSS", "NO"} /\ outLen' = SigLen["rsa"]
  BY <1>1 DEF RsaInv, RsaShape
<1>3. rv' = "CKR_OK"
  BY <1>2 DEF SignInit, SessionAfter, Ended, HasCleanup
<1>4. key = "rsa" /\ SignPadding(m) # "ZERO" /\ padding' = SignPadding(m)
  BY <1>2, <1>3 DEF SignInit, KeyMismatch
<1>5. SignPadding(m) \in {"NO", "PKCS1", "PSS", "ZERO"}
  BY DEF SignPadding
<1>. QED  BY <1>2, <1>3, <1>4, <1>5 DEF SignInit

\* sign_mechanism_final hands the card a block of out_len bytes whenever
\* the key is RSA.
LEMMA SignFinalRsa ==
  ASSUME RsaInv, NEW cap, SignFinal(cap)
  PROVE  RsaInv'
<1>1. RsaShape'
  BY DEF SignFinal, SessionAfter, Ended, HasCleanup, RsaInv, RsaShape
<1>2. keyKind = "rsa" => PaddedLen(padding, 0) = SigLen["rsa"] /\ \A l : PaddedLen(padding, l) = PaddedLen(padding, 0)
  BY DEF SignFinal, RsaInv, RsaShape, PaddedLen
<1>. QED
  BY <1>1, <1>2 DEF SignFinal, RsaInv, RsaBlockFullWidth

\* The other steps write no block and start no RSA signing operation.
LEMMA OtherStepsRsa ==
  ASSUME RsaInv, NEW m, NEW key, NEW prm, NEW len, NEW cap,
         \/ VerifyInit(m, key, prm) \/ DecryptInit(m, key, prm) \/ DigestInit(m)
         \/ MechanismUpdate(len) \/ DecryptUpdate(len)
         \/ DigestFinal(cap) \/ VerifyFinal \/ DecryptFinal
         \/ SignCleanup \/ VerifyCleanup \/ AbandonOperation
  PROVE  RsaInv'
<1>1. CASE VerifyInit(m, key, prm)
  BY <1>1 DEF VerifyInit, SessionAfter, Ended, HasCleanup, RsaInv, RsaShape, RsaBlockFullWidth
<1>2. CASE DecryptInit(m, key, prm)
  BY <1>2 DEF DecryptInit, SessionAfter, Ended, HasCleanup, RsaInv, RsaShape, RsaBlockFullWidth
<1>3. CASE DigestInit(m)
  BY <1>3 DEF DigestInit, SessionAfter, Ended, HasCleanup, RsaInv, RsaShape, RsaBlockFullWidth
<1>4. CASE MechanismUpdate(len)
  BY <1>4 DEF MechanismUpdate, SessionAfter, Ended, HasCleanup, RsaInv, RsaShape,
              RsaBlockFullWidth
<1>5. CASE DecryptUpdate(len)
  BY <1>5 DEF DecryptUpdate, SessionAfter, Ended, HasCleanup, RsaInv, RsaShape,
              RsaBlockFullWidth
<1>6. CASE DigestFinal(cap)
  BY <1>6 DEF DigestFinal, SessionAfter, Ended, HasCleanup, RsaInv, RsaShape, RsaBlockFullWidth
<1>7. CASE VerifyFinal
  BY <1>7 DEF VerifyFinal, SessionAfter, Ended, HasCleanup, RsaInv, RsaShape, RsaBlockFullWidth
<1>8. CASE DecryptFinal
  BY <1>8 DEF DecryptFinal, SessionAfter, Ended, HasCleanup, RsaInv, RsaShape, RsaBlockFullWidth
<1>9. CASE SignCleanup \/ VerifyCleanup \/ AbandonOperation
  BY <1>9 DEF SignCleanup, VerifyCleanup, AbandonOperation, ctxVars, RsaInv, RsaShape,
              RsaBlockFullWidth
<1>. QED  BY <1>1, <1>2, <1>3, <1>4, <1>5, <1>6, <1>7, <1>8, <1>9

LEMMA NextRsa == RsaInv /\ [Next]_vars => RsaInv'
<1>. SUFFICES ASSUME RsaInv, [Next]_vars PROVE RsaInv'
  OBVIOUS
<1>1. CASE \E m \in Mechanisms, key \in KeyKinds \cup {NoKey} : \E prm \in PssParamsFor(m) :
             SignInit(m, key, prm) \/ VerifyInit(m, key, prm)
  BY <1>1, SignInitRsa, OtherStepsRsa
<1>2. CASE \/ \E m \in Mechanisms, key \in KeyKinds : \E prm \in OaepParamsFor(m) :
                DecryptInit(m, key, prm)
           \/ \E m \in Mechanisms : DigestInit(m)
           \/ \E len \in DataLens : MechanismUpdate(len) \/ DecryptUpdate(len)
           \/ VerifyFinal \/ DecryptFinal
           \/ SignCleanup \/ VerifyCleanup \/ AbandonOperation
  BY <1>2, OtherStepsRsa
<1>3. CASE \E cap \in {outLen - 1, outLen} : SignFinal(cap) \/ DigestFinal(cap)
  BY <1>3, SignFinalRsa, OtherStepsRsa
<1>4. CASE UNCHANGED vars
  BY <1>4 DEF vars, RsaInv, RsaShape, RsaBlockFullWidth
<1>. QED  BY <1>1, <1>2, <1>3, <1>4 DEF Next

\* Every block sign_mechanism_final gives ykpiv_sign_data for an RSA key
\* has the modulus width, whatever mechanisms, data, failures and retries
\* came before.
THEOREM RsaBlockSafe == Spec => []RsaBlockFullWidth
<1>1. Init => RsaInv
  BY DEF Init, RsaInv, RsaShape, RsaBlockFullWidth, NoBlock
<1>2. RsaInv /\ [Next]_vars => RsaInv'
  BY NextRsa
<1>3. RsaInv => RsaBlockFullWidth
  BY DEF RsaInv
<1>. QED  BY <1>1, <1>2, <1>3, PTL DEF Spec


-----------------------------------------------------------------------------
(***************************************************************************)
(* DigestContextLive.  digest_mechanism_init starts a digest only after    *)
(* EVP_DigestInit_ex succeeded on a fresh md_ctx (lines 627-640); each of *)
(* its failures, and each failure of an update or the final, ends the     *)
(* operation; no other call runs while a digest is in progress.           *)
(***************************************************************************)

\* digest_mechanism_init starts a digest only on a live context of the
\* mechanism's hash; the other inits start no digest.
LEMMA InitsDigestLive ==
  ASSUME NEW m, NEW key, NEW prm,
         \/ SignInit(m, key, prm) \/ VerifyInit(m, key, prm)
         \/ DecryptInit(m, key, prm) \/ DigestInit(m)
  PROVE  DigestContextLive'
<1>1. CASE SignInit(m, key, prm)
  BY <1>1 DEF SignInit, SessionAfter, Ended, HasCleanup, DigestContextLive
<1>2. CASE VerifyInit(m, key, prm)
  BY <1>2 DEF VerifyInit, SessionAfter, Ended, HasCleanup, DigestContextLive
<1>3. CASE DecryptInit(m, key, prm)
  BY <1>3 DEF DecryptInit, SessionAfter, Ended, HasCleanup, DigestContextLive
<1>4. CASE DigestInit(m)
  <2>1. SUFFICES ASSUME opType' = "DIGEST" PROVE DigestContextLive'
    BY DEF DigestContextLive
  <2>2. rv' = "CKR_OK"
    BY <1>4, <2>1 DEF DigestInit, SessionAfter, Ended, HasCleanup
  <2>. QED  BY <1>4, <2>1, <2>2 DEF DigestInit, DigestContextLive
<1>. QED  BY <1>1, <1>2, <1>3, <1>4

\* While a digest runs, an update keeps md_ctx and the final and the
\* cancellation end the digest; every other step needs another operation.
LEMMA StepsDigestLive ==
  ASSUME DigestContextLive, NEW len, NEW cap,
         \/ MechanismUpdate(len) \/ DecryptUpdate(len)
         \/ SignFinal(cap) \/ DigestFinal(cap) \/ VerifyFinal \/ DecryptFinal
         \/ SignCleanup \/ VerifyCleanup \/ AbandonOperation
  PROVE  DigestContextLive'
<1>1. CASE MechanismUpdate(len)
  BY <1>1 DEF MechanismUpdate, SessionAfter, Ended, HasCleanup, DigestContextLive
<1>2. CASE DecryptUpdate(len)
  BY <1>2 DEF DecryptUpdate, SessionAfter, Ended, HasCleanup, DigestContextLive
<1>3. CASE SignFinal(cap)
  BY <1>3 DEF SignFinal, SessionAfter, Ended, HasCleanup, DigestContextLive
<1>4. CASE DigestFinal(cap)
  BY <1>4 DEF DigestFinal, SessionAfter, Ended, HasCleanup, DigestContextLive
<1>5. CASE VerifyFinal \/ DecryptFinal
  BY <1>5 DEF VerifyFinal, DecryptFinal, SessionAfter, Ended, HasCleanup, DigestContextLive
<1>6. CASE SignCleanup \/ VerifyCleanup \/ AbandonOperation
  BY <1>6 DEF SignCleanup, VerifyCleanup, AbandonOperation, DigestContextLive
<1>. QED  BY <1>1, <1>2, <1>3, <1>4, <1>5, <1>6

LEMMA NextDigestLive == DigestContextLive /\ [Next]_vars => DigestContextLive'
<1>. SUFFICES ASSUME DigestContextLive, [Next]_vars PROVE DigestContextLive'
  OBVIOUS
<1>1. CASE \/ \E m \in Mechanisms, key \in KeyKinds \cup {NoKey} : \E prm \in PssParamsFor(m) :
                SignInit(m, key, prm) \/ VerifyInit(m, key, prm)
           \/ \E m \in Mechanisms, key \in KeyKinds : \E prm \in OaepParamsFor(m) :
                DecryptInit(m, key, prm)
           \/ \E m \in Mechanisms : DigestInit(m)
  BY <1>1, InitsDigestLive
<1>2. CASE \/ \E len \in DataLens : MechanismUpdate(len) \/ DecryptUpdate(len)
           \/ \E cap \in {outLen - 1, outLen} : SignFinal(cap) \/ DigestFinal(cap)
           \/ VerifyFinal \/ DecryptFinal
           \/ SignCleanup \/ VerifyCleanup \/ AbandonOperation
  BY <1>2, StepsDigestLive
<1>3. CASE UNCHANGED vars
  BY <1>3 DEF vars, DigestContextLive
<1>. QED  BY <1>1, <1>2, <1>3 DEF Next

\* A digest in progress always runs on a live context of its own, opened
\* with the mechanism's hash, so digest_mechanism_update never falls back
\* to op_info.buf and digest_mechanism_final never finalises a NULL md_ctx.
THEOREM DigestContextSafe == Spec => []DigestContextLive
<1>1. Init => DigestContextLive
  BY DEF Init, DigestContextLive
<1>2. DigestContextLive /\ [Next]_vars => DigestContextLive'
  BY NextDigestLive
<1>. QED  BY <1>1, <1>2, PTL DEF Spec

=============================================================================
