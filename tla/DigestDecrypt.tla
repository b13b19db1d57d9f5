---------------------------- MODULE DigestDecrypt ----------------------------
(***************************************************************************)
(* The Digest and Decrypt protocols of ykcs11/mechanisms.c.  The digest    *)
(* update is digest_mechanism_update (OpContext).  The ciphertext of a     *)
(* decryption is put into op_info.buf by the session layer (ykcs11.c,      *)
(* spec 3: "also holds ciphertext awaiting hardware deciphering").         *)
(***************************************************************************)
EXTENDS OpContext

\* An OAEP parameter block (given) or NoOaep, a NULL or mis-sized pParameter;
\* label says that source is CKZ_DATA_SPECIFIED with non-NULL pSourceData.
NoOaep == [given |-> FALSE, hashAlg |-> NoMd, mgf |-> NoMd, label |-> FALSE]
OaepParams ==
  {NoOaep} \cup [given : {TRUE}, hashAlg : ParamIds, mgf : ParamIds, label : BOOLEAN]

\* digest_mechanism_init
DigestInit(m) ==
  LET md == DigestMd(m) IN
  /\ opType = "NOOP"
  /\ mechanism' = m
  /\ \/ /\ md = NoMd
        /\ rv' = "CKR_MECHANISM_INVALID"
        /\ UNCHANGED <<mdCtx, mdHash, mdOwner, outLen, bufLen, faults>>
     \/ /\ md # NoMd
        \* md_ctx = EVP_MD_CTX_create() overwrites the pointer
        /\ faults' = faults \cup LostMd
        /\ mdOwner' = "DIGEST"
        /\ \/ \* EVP_MD_CTX_create fails, or EVP_DigestInit_ex and the context is freed
              /\ mdCtx' = "null" /\ mdHash' = NoMd
              /\ rv' = "CKR_FUNCTION_FAILED"
              /\ UNCHANGED <<outLen, bufLen>>
           \/ /\ mdCtx' = "open" /\ mdHash' = md
              /\ outLen' = HashLen[md]
              /\ bufLen' = 0
              /\ rv' = "CKR_OK"
  /\ SessionAfter("DIGEST", rv', FALSE)
  /\ UNCHANGED <<keyKind, pkeyCtx, padding, pssMd, mgf1Md, pssSlen, oaepMd,
                 label, bufForm, signedBlock>>

(***************************************************************************)
(* digest_mechanism_final.  The caller's *pDigestLength (cap) goes to      *)
(* EVP_DigestFinal_ex only as the variable it writes the length back to:   *)
(* the digest, EVP_MD_size bytes, is written into pDigest whatever cap is. *)
(* The context is destroyed whatever the outcome.                          *)
(***************************************************************************)
DigestFinal(cap) ==
  /\ opType = "DIGEST"
  /\ phase = "active"
  /\ \E finalOk \in BOOLEAN :               \* EVP_DigestFinal_ex
       /\ rv' = IF finalOk THEN "CKR_OK" ELSE "CKR_FUNCTION_FAILED"
       /\ faults' = IF finalOk /\ HashLen[mdHash] > cap
                      THEN faults \cup {"caller_overrun"} ELSE faults
  /\ mdCtx' = "null"
  /\ SessionAfter("DIGEST", rv', TRUE)
  /\ UNCHANGED <<mechanism, keyKind, mdHash, mdOwner, pkeyCtx, padding, pssMd,
                 mgf1Md, pssSlen, oaepMd, label, outLen, bufLen, bufForm,
                 signedBlock>>

(***************************************************************************)
(* decrypt_mechanism_init.  It resets the label pointer to NULL, and does  *)
(* not check that the OAEP digests it looked up exist.                     *)
(***************************************************************************)
DecryptInit(m, key, prm) ==
  /\ opType = "NOOP"
  /\ \/ /\ key # "rsa"
        /\ rv' = "CKR_KEY_TYPE_INCONSISTENT"
        /\ UNCHANGED <<mechanism, keyKind, label, padding, oaepMd, mgf1Md, faults>>
     \/ /\ key = "rsa"
        /\ mechanism' = m
        /\ keyKind' = key
        /\ faults' = faults \cup LostLabel
        /\ \/ /\ m \notin DecryptMechs
              /\ rv' = "CKR_MECHANISM_INVALID"
              /\ label' = "null"
              /\ UNCHANGED <<padding, oaepMd, mgf1Md>>
           \/ /\ m \in DecryptMechs \ {"CKM_RSA_PKCS_OAEP"}
              /\ padding' = DecryptPadding(m)
              /\ label' = "null"
              /\ rv' = "CKR_OK"
              /\ UNCHANGED <<oaepMd, mgf1Md>>
           \/ /\ m = "CKM_RSA_PKCS_OAEP"
              /\ padding' = "OAEP"
              /\ \/ /\ ~prm.given
                    /\ rv' = "CKR_MECHANISM_PARAM_INVALID"
                    /\ label' = "null"
                    /\ UNCHANGED <<oaepMd, mgf1Md>>
                 \/ /\ prm.given
                    /\ oaepMd' = MdByMechanism(prm.hashAlg)
                    /\ mgf1Md' = MdByMechanism(prm.mgf)
                    /\ \E mallocOk \in BOOLEAN :
                         /\ label' = IF prm.label /\ mallocOk THEN "live" ELSE "null"
                         /\ rv' = IF prm.label /\ ~mallocOk THEN "CKR_HOST_MEMORY" ELSE "CKR_OK"
  /\ SessionAfter("DECRYPT", rv', FALSE)
  /\ UNCHANGED <<mdCtx, mdHash, mdOwner, pkeyCtx, pssMd, pssSlen, outLen, bufLen,
                 bufForm, signedBlock>>

\* The session layer copies ciphertext into op_info.buf, within its capacity.
DecryptUpdate(len) ==
  /\ opType = "DECRYPT"
  /\ phase = "active"
  /\ \/ /\ bufLen + len > BufSize
        /\ rv' = "CKR_DATA_LEN_RANGE"
        /\ UNCHANGED <<bufLen, bufForm>>
     \/ /\ bufLen + len <= BufSize
        /\ bufLen' = bufLen + len
        /\ bufForm' = "data"
        /\ rv' = "CKR_OK"
  /\ SessionAfter("DECRYPT", rv', FALSE)
  /\ UNCHANGED <<mechanism, keyKind, mdCtx, mdHash, mdOwner, pkeyCtx, padding,
                 pssMd, mgf1Md, pssSlen, oaepMd, label, outLen, signedBlock, faults>>

(***************************************************************************)
(* decrypt_mechanism_final.  ykpiv_decipher_data writes the raw block back *)
(* over op_info.buf; the unpadding check is a nondeterministic verdict and *)
(* capOk says the caller's *data_len holds the unpadded message.  The      *)
(* label is freed only on success.                                         *)
(***************************************************************************)
DecryptFinal ==
  /\ opType = "DECRYPT"
  /\ phase \in {"active", "retry"}
  /\ \E piv \in {"ok", "auth", "other"}, unpadOk, capOk \in BOOLEAN :
       LET deciphered == piv = "ok"
           unpadded == deciphered /\ (padding = "NO" \/ unpadOk)
           r == CASE piv = "auth"  -> "CKR_USER_NOT_LOGGED_IN"
                  [] piv = "other" -> "CKR_DEVICE_ERROR"
                  [] ~unpadded     -> "CKR_FUNCTION_FAILED"
                  [] ~capOk        -> "CKR_BUFFER_TOO_SMALL"
                  [] OTHER         -> "CKR_OK"
       IN /\ rv' = r
          /\ bufForm' = IF deciphered THEN "plain" ELSE bufForm
          /\ label' = IF r = "CKR_OK" THEN "null" ELSE label
          /\ SessionAfter("DECRYPT", r, TRUE)
  /\ UNCHANGED <<mechanism, keyKind, mdCtx, mdHash, mdOwner, pkeyCtx, padding,
                 pssMd, mgf1Md, pssSlen, oaepMd, outLen, bufLen, signedBlock, faults>>

=============================================================================
