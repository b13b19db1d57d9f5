----------------------------- MODULE MechTables -----------------------------
(***************************************************************************)
(* The Digest Selector and the mechanism tables of ykcs11/mechanisms.c:   *)
(* the pure mappings from a PKCS#11 mechanism (or PSS/OAEP parameter)      *)
(* identifier to the OpenSSL digest it selects and to the RSA padding the  *)
(* sign, verify and decrypt protocols resolve.  Identifiers are the        *)
(* PKCS#11 names as strings; digests are named by their algorithm.         *)
(***************************************************************************)

\* The digests EVP_sha1() ... EVP_sha512() the code can select; NoMd is NULL.
Hashes == {"sha1", "sha224", "sha256", "sha384", "sha512"}
NoMd == "none"
MdOrNone == Hashes \cup {NoMd}

\* EVP_MD_by_mechanism: the digest named by a hashAlg or mgf identifier of a
\* PSS or OAEP parameter block.  CKM_SHA224 is not among its cases.
MdByMechanism(id) ==
  CASE id \in {"CKM_SHA_1", "CKG_MGF1_SHA1"}      -> "sha1"
    [] id = "CKG_MGF1_SHA224"                     -> "sha224"
    [] id \in {"CKM_SHA256", "CKG_MGF1_SHA256"}   -> "sha256"
    [] id \in {"CKM_SHA384", "CKG_MGF1_SHA384"}   -> "sha384"
    [] id \in {"CKM_SHA512", "CKG_MGF1_SHA512"}   -> "sha512"
    [] OTHER                                      -> NoMd

(***************************************************************************)
(* First switch of sign_mechanism_init and verify_mechanism_init: the     *)
(* mechanisms they accept and the digest each one computes locally.       *)
(***************************************************************************)
UnhashedSignMechs ==
  {"CKM_RSA_X_509", "CKM_RSA_PKCS", "CKM_RSA_PKCS_PSS", "CKM_ECDSA", "CKM_EDDSA"}

SignMd(m) ==
  CASE m \in {"CKM_SHA1_RSA_PKCS", "CKM_SHA1_RSA_PKCS_PSS", "CKM_ECDSA_SHA1"}       -> "sha1"
    [] m = "CKM_ECDSA_SHA224"                                                     -> "sha224"
    [] m \in {"CKM_SHA256_RSA_PKCS", "CKM_SHA256_RSA_PKCS_PSS", "CKM_ECDSA_SHA256"} -> "sha256"
    [] m \in {"CKM_SHA384_RSA_PKCS", "CKM_SHA384_RSA_PKCS_PSS", "CKM_ECDSA_SHA384"} -> "sha384"
    [] m \in {"CKM_SHA512_RSA_PKCS", "CKM_SHA512_RSA_PKCS_PSS", "CKM_ECDSA_SHA512"} -> "sha512"
    [] OTHER                                                                      -> NoMd

\* A mechanism the first switch accepts (any other one is CKR_MECHANISM_INVALID).
IsSignMech(m) == m \in UnhashedSignMechs \/ SignMd(m) # NoMd

(***************************************************************************)
(* Second switch of sign_mechanism_init and verify_mechanism_init: the    *)
(* RSA padding a mechanism resolves to.  "ZERO" is the padding value 0 of *)
(* the default branch, the one of the EC and EdDSA mechanisms.            *)
(***************************************************************************)
Paddings == {"NO", "PKCS1", "PSS", "OAEP", "ZERO"}

Pkcs1SignMechs ==
  {"CKM_RSA_PKCS", "CKM_MD5_RSA_PKCS", "CKM_SHA1_RSA_PKCS", "CKM_RIPEMD160_RSA_PKCS",
   "CKM_SHA256_RSA_PKCS", "CKM_SHA384_RSA_PKCS", "CKM_SHA512_RSA_PKCS"}

PssSignMechs ==
  {"CKM_RSA_PKCS_PSS", "CKM_SHA1_RSA_PKCS_PSS", "CKM_SHA256_RSA_PKCS_PSS",
   "CKM_SHA384_RSA_PKCS_PSS", "CKM_SHA512_RSA_PKCS_PSS"}

SignPadding(m) ==
  CASE m = "CKM_RSA_X_509"   -> "NO"
    [] m \in Pkcs1SignMechs  -> "PKCS1"
    [] m \in PssSignMechs    -> "PSS"
    [] OTHER                 -> "ZERO"

\* The digest mechanisms of digest_mechanism_init (CKM_SHA224 is not one).
DigestMd(m) ==
  CASE m = "CKM_SHA_1"  -> "sha1"
    [] m = "CKM_SHA256" -> "sha256"
    [] m = "CKM_SHA384" -> "sha384"
    [] m = "CKM_SHA512" -> "sha512"
    [] OTHER            -> NoMd

\* The switch of decrypt_mechanism_init.
DecryptMechs == {"CKM_RSA_X_509", "CKM_RSA_PKCS", "CKM_RSA_PKCS_OAEP"}

DecryptPadding(m) ==
  CASE m = "CKM_RSA_X_509" -> "NO"
    [] m = "CKM_RSA_PKCS"  -> "PKCS1"
    [] OTHER               -> "OAEP"

(***************************************************************************)
(* Key introspection (objects.c): the key families a ykcs11_pkey_t can be. *)
(* EVP_PKEY_get0_RSA is non-NULL exactly for "rsa"; do_get_key_algorithm   *)
(* gives YKPIV_ALGO_ECCP256/384 for "ec", whose signatures are DER and get *)
(* stripped; "ed" is Ed25519.  NoKey is a NULL key pointer.                *)
(***************************************************************************)
KeyKinds == {"rsa", "ec", "ed"}
NoKey == "null"

=============================================================================
