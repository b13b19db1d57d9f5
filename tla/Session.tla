------------------------------- MODULE Session -------------------------------
(***************************************************************************)
(* One ykcs11 session driving the mechanism engine: any sequence of       *)
(* PKCS#11 calls a caller can make on the session, one operation at a     *)
(* time, each entry point of mechanisms.c one action.                     *)
(***************************************************************************)
EXTENDS SignVerify, DigestDecrypt

\* The session's op_info when the session is opened: zeroed.
Init ==
  /\ opType = "NOOP" /\ phase = "idle"
  /\ mechanism = ZeroMech
  /\ keyKind = NoKey
  /\ mdCtx = "null" /\ mdHash = NoMd /\ mdOwner = "NOOP"
  /\ pkeyCtx = "null"
  /\ padding = "ZERO"
  /\ pssMd = NoMd /\ mgf1Md = NoMd /\ pssSlen = 0 /\ oaepMd = NoMd
  /\ label = "null"
  /\ outLen = 0
  /\ bufLen = 0 /\ bufForm = "data"
  /\ signedBlock = NoBlock
  /\ rv = "CKR_OK"
  /\ faults = {}

\* The session layer abandons a digest or decrypt operation (C_SessionCancel,
\* C_CloseSession): mechanisms.c has no cleanup for them to call.
AbandonOperation ==
  /\ opType \in {"DIGEST", "DECRYPT"}
  /\ opType' = "NOOP" /\ phase' = "idle"
  /\ UNCHANGED <<ctxVars, signedBlock, rv, faults>>

\* The parameter blocks worth passing with m: only PSS and OAEP mechanisms
\* read pParameter.
PssParamsFor(m) == IF SignPadding(m) = "PSS" THEN PssParams ELSE {NoPss}
OaepParamsFor(m) == IF m = "CKM_RSA_PKCS_OAEP" THEN OaepParams ELSE {NoOaep}

Next ==
  \/ \E m \in Mechanisms, key \in KeyKinds \cup {NoKey} : \E prm \in PssParamsFor(m) :
        SignInit(m, key, prm) \/ VerifyInit(m, key, prm)
  \/ \E m \in Mechanisms, key \in KeyKinds : \E prm \in OaepParamsFor(m) :
        DecryptInit(m, key, prm)
  \/ \E m \in Mechanisms : DigestInit(m)
  \/ \E len \in DataLens : MechanismUpdate(len) \/ DecryptUpdate(len)
  \/ \E cap \in {outLen - 1, outLen} : SignFinal(cap) \/ DigestFinal(cap)
  \/ VerifyFinal \/ DecryptFinal
  \/ SignCleanup \/ VerifyCleanup \/ AbandonOperation

Spec == Init /\ [][Next]_vars

-----------------------------------------------------------------------------
(***************************************************************************)
(* Safety properties.                                                      *)
(***************************************************************************)

\* The contexts a sign or verify operation owns (md_ctx, an owned pkey_ctx)
\* are freed exactly once: sign/verify cleanup never frees what it does not
\* own, and no init overwrites a live one, across any sequence of inits,
\* failures, cancellations and finals.
ContextsReleasedOnce ==
  faults \cap {"bad_free", "leak_sign_verify_ctx", "leak_pkey"} = {}

\* A digest in progress runs on a live context of its own, initialised with
\* the mechanism's hash: digest_mechanism_update sends the data to md_ctx
\* only when it is non-NULL (line 649, otherwise into op_info.buf) and
\* digest_mechanism_final finalises md_ctx without checking it (line 668),
\* so both rely on every failure path of digest_mechanism_init ending the
\* operation and on no other call touching md_ctx in between.
DigestContextLive ==
  opType = "DIGEST" =>
    /\ mdCtx = "open" /\ mdOwner = "DIGEST"
    /\ mdHash = DigestMd(mechanism)

\* The data appended by digest_mechanism_update never runs past the end of
\* op_info.buf, however the caller splits it into updates.
BufferWithinBounds == "overrun" \notin faults

\* A hashed PSS signing operation pads with the digest it computes: the
\* PSS hashAlg recorded by sign_mechanism_init is the mechanism's digest.
PssDigestConsistent ==
  (opType = "SIGN" /\ phase \in {"active", "retry"} /\ padding = "PSS" /\ mdCtx # "null")
    => pssMd = mdHash

\* Every block sign_mechanism_final hands to ykpiv_sign_data for an RSA key
\* is exactly the modulus width, whatever mechanism, data and retries led there.
RsaBlockFullWidth ==
  signedBlock # NoBlock /\ signedBlock.key = "rsa" => signedBlock.len = SigLen["rsa"]

(***************************************************************************)
(* The abstract lifecycle of spec 3 and 5 (OpLifecycle), seen through the *)
(* fields of op_info: the contexts a cleanup must release are an md_ctx   *)
(* created by sign or verify init and a pkey_ctx the verify owns.          *)
(***************************************************************************)
HeldCtxs ==
  (IF mdCtx # "null" /\ mdOwner \in HasCleanup THEN {"md"} ELSE {})
    \cup (IF pkeyCtx = "owned" THEN {"pkey"} ELSE {})

Lifecycle == INSTANCE OpLifecycle WITH op <- opType, stage <- phase, held <- HeldCtxs

\* The entry points of mechanisms.c, driven by the session layer, implement
\* the lifecycle: an init acquires at most one context of its operation's
\* kind, updates and finals (sign_mechanism_final leaving md_ctx to its
\* cleanup) acquire and release nothing, and only sign_mechanism_cleanup
\* and verify_mechanism_cleanup release, and release everything.
LifecycleRefined == Lifecycle!Spec

\* Spec 7: CKR_BUFFER_TOO_SMALL "must leave operation state unchanged so the
\* identical final call can be repeated" (sign_mechanism_final,
\* decrypt_mechanism_final).
BufferTooSmallKeepsState ==
  [][rv' = "CKR_BUFFER_TOO_SMALL" => UNCHANGED <<mdCtx, bufLen, bufForm>>]_vars

\* Spec 3 and 4.2: padding reads only data of the current operation; the
\* PSS padding of sign_mechanism_final never reads past buf_len.
PssReadsOnlyOperationData == "stale_read" \notin faults

\* Spec 3: the digest context and the OAEP label are destroyed on every
\* exit path, so none is lost when a later init overwrites its pointer.
AbandonedResourcesReleased == faults \cap {"leak_digest_ctx", "leak_label"} = {}

\* Spec 4.6 and 4.3: an OAEP decryption resolves its hash and MGF, as the
\* PSS init does (an unknown identifier is rejected, not replaced).
OaepDigestsResolved ==
  (opType = "DECRYPT" /\ padding = "OAEP") => oaepMd # NoMd /\ mgf1Md # NoMd

\* Spec 4.2: PSS padding fails when the salt length is incompatible with the
\* modulus; a signature sign_mechanism_final returns with CKR_OK is padded
\* with exactly the sLen the caller declared, never with one OpenSSL
\* substitutes for a negative int.
SaltAsDeclared == "salt_replaced" \notin faults

\* Spec 4.5 and 8: digest_mechanism_final writes the digest into the
\* caller's buffer only within the capacity the caller declared.
DigestWithinCallerBuffer == "caller_overrun" \notin faults

=============================================================================
