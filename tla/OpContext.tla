------------------------------ MODULE OpContext ------------------------------
(***************************************************************************)
(* The Operation Context of one ykcs11 session (session->op_info) and the *)
(* operations every protocol shares: the bounded data buffer fed by       *)
(* digest_mechanism_update, and the session layer's reaction to the code  *)
(* an entry point returns.                                                 *)
(*                                                                         *)
(* Owned resources are tracked by what the pointer fields hold: md_ctx is *)
(* NULL, an open EVP_MD_CTX or one already finalised; op.verify.pkey_ctx   *)
(* is NULL, one this operation must free ("owned", EVP_PKEY_CTX_new) or    *)
(* one that belongs to md_ctx ("borrowed", from EVP_DigestVerifyInit);     *)
(* op.encrypt.oaep_label is NULL or a live malloc'ed block.  Overwriting a *)
(* live pointer, or freeing what is not ours, is recorded in the history  *)
(* variable faults.                                                        *)
(***************************************************************************)
EXTENDS Integers, MechTables

CONSTANTS
  BufSize,        \* sizeof(session->op_info.buf)
  Width,          \* bits of CK_ULONG, the type of buf_len and of in_len
  IntWidth,       \* bits of int, the type OpenSSL takes a salt length in
  HashLen,        \* EVP_MD_size of each digest
  DigestInfoLen,  \* length of a digest wrapped by prepare_rsa_signature
  Pkcs1PadLen,    \* RSA_PKCS1_PADDING_SIZE, the overhead of type-1 padding
  SigLen,         \* do_get_signature_size of a key of each family
  Mechanisms,     \* the mechanism identifiers a caller passes to an init
  ParamIds,       \* the hashAlg / mgf identifiers a caller puts in parameters
  DataLens,       \* the in_len values a caller passes to an update
  SaltLens        \* the sLen values a caller puts in PSS parameters

ULong == 2 ^ Width

\* The int a C call receives for a CK_ULONG argument: the low IntWidth bits,
\* read in two's complement.
IntOf(x) ==
  LET v == x % (2 ^ IntWidth)
  IN  IF v >= 2 ^ (IntWidth - 1) THEN v - 2 ^ IntWidth ELSE v

ASSUME BufSizeAssumption == BufSize \in Nat \ {0}
ASSUME WidthAssumption == Width \in Nat \ {0} /\ ULong \in Nat /\ BufSize < ULong
ASSUME IntWidthAssumption == IntWidth \in Nat \ {0}
ASSUME HashLenAssumption ==
  /\ HashLen \in [Hashes -> 1..BufSize]
  /\ DigestInfoLen \in [Hashes -> 1..BufSize]
  /\ Pkcs1PadLen \in Nat
ASSUME SigLenAssumption == SigLen \in [KeyKinds -> 1..BufSize]
ASSUME InputAssumption ==
  /\ DataLens \subseteq 0..(ULong - 1)
  /\ SaltLens \subseteq Nat

\* The return codes of the entry points.  YRC_ERROR stands for the value of
\* yrc_to_rv(rcc) for a failing ykpiv_sign_data (util.c, not modelled).
RVs == {"CKR_OK", "CKR_KEY_TYPE_INCONSISTENT", "CKR_MECHANISM_INVALID",
        "CKR_MECHANISM_PARAM_INVALID", "CKR_ARGUMENTS_BAD", "CKR_FUNCTION_FAILED",
        "CKR_DATA_LEN_RANGE", "CKR_BUFFER_TOO_SMALL", "CKR_SIGNATURE_INVALID",
        "CKR_USER_NOT_LOGGED_IN", "CKR_DEVICE_ERROR", "CKR_HOST_MEMORY", "YRC_ERROR"}

OpTypes == {"NOOP", "SIGN", "VERIFY", "DIGEST", "DECRYPT"}
Phases  == {"idle", "active", "retry", "ending"}
MdStates == {"null", "open", "final"}
PkeyStates == {"null", "owned", "borrowed"}
BufForms == {"data", "digest", "digestinfo", "block", "plain"}
Faults == {"bad_free", "leak_sign_verify_ctx", "leak_digest_ctx", "leak_pkey",
           "leak_label", "overrun", "stale_read", "salt_replaced", "caller_overrun"}
NoBlock == [len |-> 0, key |-> NoKey]

\* The mechanism of a zeroed op_info: the value 0 is CKM_RSA_PKCS_KEY_PAIR_GEN.
ZeroMech == "CKM_RSA_PKCS_KEY_PAIR_GEN"

VARIABLES
  opType, phase,    \* the session layer: active operation and its phase
  mechanism,        \* op_info.mechanism
  keyKind,          \* family of the key of op.sign / op.encrypt
  mdCtx, mdHash,    \* op_info.md_ctx and the digest it runs
  mdOwner,          \* (history) the operation kind that created md_ctx
  pkeyCtx,          \* op.verify.pkey_ctx
  padding,          \* op.sign/verify/encrypt.padding
  pssMd, mgf1Md, pssSlen, oaepMd,   \* PSS / OAEP digests and salt length
  label,            \* op.encrypt.oaep_label
  outLen,           \* op_info.out_len
  bufLen, bufForm,  \* op_info.buf_len and what the buffer holds
  signedBlock,      \* (history) the last block given to ykpiv_sign_data
  rv,               \* the code returned by the last entry point
  faults            \* (history) memory and parameter faults that have happened

sessionVars == <<opType, phase>>
ctxVars == <<mechanism, keyKind, mdCtx, mdHash, mdOwner, pkeyCtx, padding,
             pssMd, mgf1Md, pssSlen, oaepMd, label, outLen, bufLen, bufForm>>
vars == <<opType, phase, mechanism, keyKind, mdCtx, mdHash, mdOwner, pkeyCtx,
          padding, pssMd, mgf1Md, pssSlen, oaepMd, label, outLen, bufLen,
          bufForm, signedBlock, rv, faults>>

TypeOK ==
  /\ opType \in OpTypes
  /\ phase \in Phases
  /\ mechanism \in Mechanisms \cup {ZeroMech}
  /\ keyKind \in KeyKinds \cup {NoKey}
  /\ mdCtx \in MdStates
  /\ mdHash \in MdOrNone
  /\ mdOwner \in OpTypes
  /\ pkeyCtx \in PkeyStates
  /\ padding \in Paddings
  /\ pssMd \in MdOrNone /\ mgf1Md \in MdOrNone /\ oaepMd \in MdOrNone
  /\ pssSlen \in Nat
  /\ label \in {"null", "live"}
  /\ outLen \in 0..BufSize
  /\ bufLen \in 0..(ULong - 1)
  /\ bufForm \in BufForms
  /\ signedBlock \in {NoBlock} \cup [len : 0..(ULong - 1), key : KeyKinds \cup {NoKey}]
  /\ rv \in RVs
  /\ faults \subseteq Faults

(***************************************************************************)
(* Overwriting md_ctx, pkey_ctx or oaep_label with a new value loses what  *)
(* a live pointer held.                                                    *)
(***************************************************************************)
LostMd ==
  IF mdCtx = "null" THEN {}
  ELSE IF mdOwner = "DIGEST" THEN {"leak_digest_ctx"} ELSE {"leak_sign_verify_ctx"}

LostPkey == IF pkeyCtx = "owned" THEN {"leak_pkey"} ELSE {}

LostLabel == IF label = "live" THEN {"leak_label"} ELSE {}

(***************************************************************************)
(* The session layer (ykcs11.c C_SignInit ... C_DecryptFinal, spec 4.3-   *)
(* 4.6 and 7): an init that succeeds starts the operation; a final that   *)
(* returns CKR_BUFFER_TOO_SMALL leaves it to be retried; any other error, *)
(* or a successful final, ends it, and a sign or verify operation that    *)
(* ends must still be cleaned up.  Digest and decrypt have no cleanup in  *)
(* mechanisms.c: their operation simply ends.                             *)
(***************************************************************************)
HasCleanup == {"SIGN", "VERIFY"}

\* Mutant: a failed sign or verify ends without waiting for its cleanup.
EndedWithoutCleanup(kind) == <<"NOOP", "idle">>

Ended(kind) == IF kind \in HasCleanup THEN <<kind, "ending">> ELSE <<"NOOP", "idle">>

\* Mutant: the session layer keeps an operation open when a call that is
\* not a final fails, its init included.
SessionAfterIgnoringErrors(kind, r, isFinal) ==
  LET next == CASE r = "CKR_BUFFER_TOO_SMALL"  -> <<kind, "retry">>
                [] ~isFinal                    -> <<kind, "active">>
                [] OTHER                       -> Ended(kind)
  IN  opType' = next[1] /\ phase' = next[2]

SessionAfter(kind, r, isFinal) ==
  LET next == CASE r = "CKR_BUFFER_TOO_SMALL"  -> <<kind, "retry">>
                [] r = "CKR_OK" /\ ~isFinal    -> <<kind, "active">>
                [] OTHER                       -> Ended(kind)
  IN  opType' = next[1] /\ phase' = next[2]

(***************************************************************************)
(* digest_mechanism_update, the update of the sign, verify and digest     *)
(* operations: data goes into the running digest when md_ctx is open and  *)
(* the mechanism is not EdDSA, and is appended to op_info.buf otherwise.  *)
(* The capacity check is computed in CK_ULONG and so wraps modulo ULong.  *)
(***************************************************************************)
\* Mutant: the capacity check forgets the data already buffered.
UpdateOverflowsIgnoringBuffered(len) == len > BufSize

UpdateOverflows(len) == (bufLen + len) % ULong > BufSize

MechanismUpdate(len) ==
  /\ opType \in {"SIGN", "VERIFY", "DIGEST"}
  /\ phase = "active"
  /\ \/ /\ mdCtx # "null" /\ mechanism # "CKM_EDDSA"
        /\ \E updateOk \in BOOLEAN :      \* EVP_DigestUpdate
              rv' = IF updateOk THEN "CKR_OK" ELSE "CKR_FUNCTION_FAILED"
        /\ UNCHANGED <<bufLen, bufForm, faults>>
     \/ /\ ~(mdCtx # "null" /\ mechanism # "CKM_EDDSA")
        /\ UpdateOverflows(len)
        /\ rv' = "CKR_DATA_LEN_RANGE"
        /\ UNCHANGED <<bufLen, bufForm, faults>>
     \/ /\ ~(mdCtx # "null" /\ mechanism # "CKM_EDDSA")
        /\ ~UpdateOverflows(len)
        /\ bufLen' = (bufLen + len) % ULong
        /\ bufForm' = "data"
        \* memcpy writes in_len bytes at offset buf_len
        /\ faults' = IF bufLen + len > BufSize THEN faults \cup {"overrun"} ELSE faults
        /\ rv' = "CKR_OK"
  /\ SessionAfter(opType, rv', FALSE)
  /\ UNCHANGED <<mechanism, keyKind, mdCtx, mdHash, mdOwner, pkeyCtx, padding,
                 pssMd, mgf1Md, pssSlen, oaepMd, label, outLen, signedBlock>>

=============================================================================
