----------------------------- MODULE SignVerify -----------------------------
(***************************************************************************)
(* The Sign and Verify protocols of ykcs11/mechanisms.c: init, final and  *)
(* cleanup of each (their update is digest_mechanism_update, modelled in   *)
(* OpContext).  Library calls that can fail (context allocation, digest    *)
(* and padding setters, the PIV card) are nondeterministic choices; the    *)
(* result of a signature check is a nondeterministic verdict.              *)
(***************************************************************************)
EXTENDS OpContext

\* A PSS parameter block (given) or NoPss, a NULL or mis-sized pParameter.
NoPss == [given |-> FALSE, hashAlg |-> NoMd, mgf |-> NoMd, sLen |-> 0]
PssParams ==
  {NoPss} \cup [given : {TRUE}, hashAlg : ParamIds, mgf : ParamIds, sLen : SaltLens]

\* Mutant: the mechanism identifier is stored without EVP_MD_by_mechanism.
PssMdOfUntranslated(prm) == prm.hashAlg

\* The digest a PSS parameter block names as its hashAlg (lines 166, 456).
PssMdOf(prm) == MdByMechanism(prm.hashAlg)

\* Mutant: the check of line 177 (and 464) is left out.
PssHashConflictDropped(md, pmd) == FALSE

\* Lines 177 and 464: a hashed PSS mechanism's own digest differs from the
\* hashAlg of its parameters.
PssHashConflict(md, pmd) == md # NoMd /\ md # pmd

\* The key checks of the second switch: the RSA mechanisms need an RSA key
\* (EVP_PKEY_get0_RSA non-NULL), the default branch one that is not RSA.
KeyMismatch(m, key) ==
  IF SignPadding(m) = "ZERO" THEN key = "rsa" ELSE key # "rsa"

(***************************************************************************)
(* sign_mechanism_init.  Each LET predicate says how far the function     *)
(* gets before it returns; a field is written iff its assignment is       *)
(* reached.                                                                *)
(***************************************************************************)
SignInit(m, key, prm) ==
  LET pad == SignPadding(m)
      md  == SignMd(m)
      pssGiven == prm.given
      pmd == IF pssGiven THEN PssMdOf(prm) ELSE NoMd
      gmd == IF pssGiven THEN MdByMechanism(prm.mgf) ELSE NoMd
      keyed  == key # NoKey
      known  == keyed /\ IsSignMech(m)
      padSet == known /\ ~KeyMismatch(m, key) /\ (pad = "PSS" => pssGiven)
      checked == padSet /\ ~(pad = "PSS" /\ (pmd = NoMd \/ gmd = NoMd \/ PssHashConflict(md, pmd)))
  IN
  /\ opType = "NOOP"
  \* the library call that fails, if any: only the first failure matters
  /\ \E fail \in {"none", "create", "init"} :
       LET createOk == fail # "create"                      \* EVP_MD_CTX_create
           initOk   == fail # "init"                        \* EVP_DigestInit_ex
           created == checked /\ md # NoMd /\ createOk     \* EVP_MD_CTX_create
           ok == checked /\ (md = NoMd \/ (createOk /\ initOk))
           r == CASE ~keyed  -> "CKR_KEY_TYPE_INCONSISTENT"
                  [] ~known  -> "CKR_MECHANISM_INVALID"
                  [] KeyMismatch(m, key) -> "CKR_KEY_TYPE_INCONSISTENT"
                  [] ~padSet  -> "CKR_MECHANISM_PARAM_INVALID"
                  [] ~checked -> "CKR_ARGUMENTS_BAD"
                  [] ~ok      -> "CKR_FUNCTION_FAILED"
                  [] OTHER    -> "CKR_OK"
       IN /\ rv' = r
          /\ mechanism' = IF keyed THEN m ELSE mechanism
          /\ mdCtx' = IF created THEN "open" ELSE IF keyed THEN "null" ELSE mdCtx
          /\ mdHash' = IF created /\ initOk THEN md ELSE IF keyed THEN NoMd ELSE mdHash
          /\ mdOwner' = IF created THEN "SIGN" ELSE mdOwner
          /\ faults' = IF keyed THEN faults \cup LostMd ELSE faults
          /\ outLen' = IF known THEN SigLen[key] ELSE outLen
          /\ keyKind' = IF known THEN key ELSE keyKind
          /\ padding' = IF padSet THEN pad ELSE padding
          /\ pssMd' = IF padSet /\ pad = "PSS" THEN pmd ELSE pssMd
          /\ mgf1Md' = IF padSet /\ pad = "PSS" THEN gmd ELSE mgf1Md
          /\ pssSlen' = IF padSet /\ pad = "PSS" THEN prm.sLen ELSE pssSlen
          /\ bufLen' = IF ok THEN 0 ELSE bufLen
          /\ SessionAfter("SIGN", r, FALSE)
  /\ UNCHANGED <<pkeyCtx, oaepMd, label, bufForm, signedBlock>>

(***************************************************************************)
(* sign_mechanism_final.  The padding functions are OpenSSL's; what the   *)
(* model keeps of them is the length check each makes and the length of   *)
(* the block each writes back into op_info.buf.                            *)
(***************************************************************************)
\* The salt length RSA_padding_add_PKCS1_PSS_mgf1 uses for the int it is
\* passed (line 245): -1 means the digest length, -2 and -3 the largest
\* salt the modulus leaves room for; below -3 it fails.
PssSalt(s) ==
  CASE IntOf(s) = -1          -> HashLen[pssMd]
    [] IntOf(s) \in {-2, -3}  -> outLen - HashLen[pssMd] - 2
    [] OTHER                  -> IntOf(s)

PaddingFits(pad, len) ==
  CASE pad = "PKCS1" -> len + Pkcs1PadLen <= outLen   \* RSA_padding_add_PKCS1_type_1
    [] pad = "PSS"   -> /\ pssMd \in Hashes /\ IntOf(pssSlen) >= -3
                        /\ 0 <= PssSalt(pssSlen)
                        /\ HashLen[pssMd] + PssSalt(pssSlen) + 2 <= outLen
    [] pad = "NO"    -> len = outLen                   \* RSA_padding_add_none
    [] OTHER         -> TRUE

\* Mutant: the PKCS#1 branch forgets buf_len = padlen.
PaddedLenNoPkcs1Reset(pad, len) == IF pad \in {"PSS", "NO"} THEN outLen ELSE len
\* Mutant: PSS padding leaves buf_len at the digest length.
PaddedLenNoPssReset(pad, len) == IF pad \in {"PKCS1", "NO"} THEN outLen ELSE len

\* Lines 235-261: buf_len once the padding is applied.
PaddedLen(pad, len) == IF pad \in {"PKCS1", "PSS", "NO"} THEN outLen ELSE len

SignFinal(cap) ==
  /\ opType = "SIGN"
  /\ phase \in {"active", "retry"}
  /\ \E fail \in {"none", "digest", "hw", "strip"} :
       LET digestOk == fail # "digest"
           hwOk     == fail # "hw"
           stripOk  == fail # "strip"
           hasMd == mdCtx # "null"
           wrap  == hasMd /\ padding = "PKCS1"              \* prepare_rsa_signature
           len1  == CASE wrap  -> DigestInfoLen[mdHash]
                      [] hasMd -> HashLen[mdHash]
                      [] OTHER -> bufLen
           form1 == CASE wrap  -> "digestinfo"
                      [] hasMd -> "digest"
                      [] OTHER -> bufForm
           digested == ~hasMd \/ digestOk                   \* EVP_DigestFinal_ex
           padded == digested /\ PaddingFits(padding, len1)
           len2  == PaddedLen(padding, len1)
           form2 == IF padding \in {"PKCS1", "PSS"} THEN "block" ELSE form1
           \* RSA_padding_add_PKCS1_PSS_mgf1 reads EVP_MD_size(pss_md) bytes of buf
           stale == padding = "PSS" /\ pssMd \in Hashes /\ HashLen[pssMd] > len1
           replaced == padding = "PSS" /\ PssSalt(pssSlen) # pssSlen
           signed == padded /\ hwOk                          \* ykpiv_sign_data
           stripped == signed /\ (keyKind = "ec" => stripOk) \* do_strip_DER_encoding_from_ECSIG
           r == CASE ~padded   -> "CKR_FUNCTION_FAILED"
                  [] ~signed   -> "YRC_ERROR"
                  [] ~stripped -> "CKR_FUNCTION_FAILED"
                  [] outLen > cap -> "CKR_BUFFER_TOO_SMALL"
                  [] OTHER     -> "CKR_OK"
       IN /\ rv' = r
          /\ mdCtx' = IF hasMd THEN "final" ELSE mdCtx
          /\ bufLen' = CASE padded -> len2 [] digested -> len1 [] OTHER -> bufLen
          /\ bufForm' = CASE padded -> form2 [] digested -> form1 [] OTHER -> bufForm
          /\ faults' = faults \cup (IF padded /\ stale THEN {"stale_read"} ELSE {})
                             \cup (IF r = "CKR_OK" /\ replaced THEN {"salt_replaced"} ELSE {})
          /\ signedBlock' = IF padded THEN [len |-> len2, key |-> keyKind] ELSE signedBlock
          /\ SessionAfter("SIGN", r, TRUE)
  /\ UNCHANGED <<mechanism, keyKind, mdHash, mdOwner, pkeyCtx, padding, pssMd,
                 mgf1Md, pssSlen, oaepMd, label, outLen>>

\* sign_mechanism_cleanup, also the session layer's cancellation of a signing.
SignCleanup ==
  /\ opType = "SIGN"
  /\ mdCtx' = "null"                   \* EVP_MD_CTX_destroy when non-NULL
  /\ bufLen' = 0
  /\ rv' = "CKR_OK"
  /\ opType' = "NOOP" /\ phase' = "idle"
  /\ UNCHANGED <<mechanism, keyKind, mdHash, mdOwner, pkeyCtx, padding, pssMd,
                 mgf1Md, pssSlen, oaepMd, label, outLen, bufForm, signedBlock, faults>>

(***************************************************************************)
(* verify_mechanism_init.  Hashed mechanisms and EdDSA verify through an  *)
(* EVP_MD_CTX whose EVP_PKEY_CTX it owns; the others through an            *)
(* EVP_PKEY_CTX of their own.  The PSS parameters are checked only after   *)
(* the context is allocated.                                               *)
(***************************************************************************)
VerifyInit(m, key, prm) ==
  LET pad == SignPadding(m)
      md  == SignMd(m)
      viaMd == md # NoMd \/ m = "CKM_EDDSA"
      pssGiven == prm.given
      pmd == IF pssGiven THEN PssMdOf(prm) ELSE NoMd
      gmd == IF pssGiven THEN MdByMechanism(prm.mgf) ELSE NoMd
      pssBad == pad = "PSS" /\ (pmd = NoMd \/ gmd = NoMd \/ PssHashConflict(md, pmd))
      keyed  == key # NoKey
      known  == keyed /\ IsSignMech(m)
      padSet == known /\ ~KeyMismatch(m, key) /\ (pad = "PSS" => pssGiven)
  IN
  /\ opType = "NOOP"
  /\ \E fail \in {"none", "create", "init", "rsapad", "pssset"} :
       LET createOk  == fail # "create"
           ctxInitOk == fail # "init"
           rsaPadOk  == fail # "rsapad"      \* EVP_PKEY_CTX_set_rsa_padding
           pssSetOk  == fail # "pssset"      \* set_signature_md, _mgf1_md, _saltlen
           mdMade   == padSet /\ viaMd /\ createOk       \* EVP_MD_CTX_create
           mdReady  == mdMade /\ ctxInitOk               \* EVP_DigestVerifyInit
           pkeyMade == padSet /\ ~viaMd /\ createOk      \* EVP_PKEY_CTX_new
           ready    == mdReady \/ (pkeyMade /\ ctxInitOk) \* ... EVP_PKEY_verify_init
           r == CASE ~keyed  -> "CKR_KEY_TYPE_INCONSISTENT"
                  [] ~known  -> "CKR_MECHANISM_INVALID"
                  [] KeyMismatch(m, key) -> "CKR_KEY_TYPE_INCONSISTENT"
                  [] ~padSet -> "CKR_MECHANISM_PARAM_INVALID"
                  [] ~ready  -> "CKR_FUNCTION_FAILED"
                  [] pad # "ZERO" /\ ~rsaPadOk -> "CKR_FUNCTION_FAILED"
                  [] pssBad  -> "CKR_ARGUMENTS_BAD"
                  [] pad = "PSS" /\ ~pssSetOk -> "CKR_FUNCTION_FAILED"
                  [] OTHER   -> "CKR_OK"
       IN /\ rv' = r
          /\ mechanism' = IF keyed THEN m ELSE mechanism
          /\ mdCtx' = IF mdMade THEN "open" ELSE IF keyed THEN "null" ELSE mdCtx
          /\ mdHash' = IF mdReady THEN md ELSE IF keyed THEN NoMd ELSE mdHash
          /\ mdOwner' = IF mdMade THEN "VERIFY" ELSE mdOwner
          /\ pkeyCtx' = CASE mdReady  -> "borrowed"
                          [] pkeyMade -> "owned"
                          [] keyed    -> "null"
                          [] OTHER    -> pkeyCtx
          /\ faults' = IF keyed THEN faults \cup LostMd \cup LostPkey ELSE faults
          /\ padding' = IF padSet THEN pad ELSE padding
          /\ outLen' = IF r = "CKR_OK" THEN 0 ELSE outLen
          /\ bufLen' = IF r = "CKR_OK" THEN 0 ELSE bufLen
          /\ SessionAfter("VERIFY", r, FALSE)
  /\ UNCHANGED <<keyKind, pssMd, mgf1Md, pssSlen, oaepMd, label, bufForm, signedBlock>>

(***************************************************************************)
(* verify_mechanism_final.  EdDSA verifies the buffered message in one    *)
(* call; a raw EC signature (padding 0) is first re-encoded as DER, which  *)
(* fails when it is longer than der[] or malformed.  A verdict of 0 is     *)
(* CKR_SIGNATURE_INVALID, a negative one CKR_FUNCTION_FAILED.              *)
(***************************************************************************)
VerifyFinal ==
  /\ opType = "VERIFY"
  /\ phase = "active"
  /\ \E verdict \in {"rc>0", "rc=0", "rc<0"}, derOk \in BOOLEAN :
       LET eddsa == mechanism = "CKM_EDDSA"
           encoded == eddsa \/ padding # "ZERO" \/ derOk
           r == CASE ~encoded    -> "CKR_FUNCTION_FAILED"
                  [] verdict = "rc>0" -> "CKR_OK"
                  [] verdict = "rc=0" -> "CKR_SIGNATURE_INVALID"
                  [] OTHER       -> "CKR_FUNCTION_FAILED"
       IN /\ rv' = r
          /\ mdCtx' = IF encoded /\ mdCtx # "null" THEN "final" ELSE mdCtx
          /\ SessionAfter("VERIFY", r, TRUE)
  /\ UNCHANGED <<mechanism, keyKind, mdHash, mdOwner, pkeyCtx, padding, pssMd,
                 mgf1Md, pssSlen, oaepMd, label, outLen, bufLen, bufForm,
                 signedBlock, faults>>

\* Mutant: the else is dropped, so a pkey_ctx owned by md_ctx is freed again.
VerifyCleanupFaultsNoElse ==
  (IF mdCtx # "null" THEN LostPkey ELSE {}) \cup
  (IF pkeyCtx = "borrowed" THEN {"bad_free"} ELSE {})

\* Mutant: the EVP_PKEY_CTX_free branch is missing.
VerifyCleanupFaultsNoFree == LostPkey

\* Lines 308-313: destroying md_ctx frees the pkey_ctx it owns, so pkey_ctx
\* is freed only when there is no md_ctx.
VerifyCleanupFaults ==
  IF mdCtx # "null" THEN LostPkey
  ELSE IF pkeyCtx = "borrowed" THEN {"bad_free"} ELSE {}

\* verify_mechanism_cleanup, also the session layer's cancellation.
VerifyCleanup ==
  /\ opType = "VERIFY"
  /\ mdCtx' = "null"
  /\ pkeyCtx' = "null"
  /\ faults' = faults \cup VerifyCleanupFaults
  /\ bufLen' = 0
  /\ rv' = "CKR_OK"
  /\ opType' = "NOOP" /\ phase' = "idle"
  /\ UNCHANGED <<mechanism, keyKind, mdHash, mdOwner, padding, pssMd, mgf1Md,
                 pssSlen, oaepMd, label, outLen, bufForm, signedBlock>>

=============================================================================
