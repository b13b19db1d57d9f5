------------------------------ MODULE MCSession ------------------------------
(***************************************************************************)
(* Small instances of Session for TLC.  Lengths are scaled down but keep   *)
(* the orders that decide the code's checks: a wrapped SHA-1 or SHA-256    *)
(* digest fits a 6-byte RSA block with type-1 padding, a SHA-1 PSS block   *)
(* with a 2-byte salt fits and a SHA-256 one does not, updates of 3, 3 and *)
(* 2 bytes fill op_info.buf exactly, and a raw PSS message of 2 bytes is   *)
(* shorter than a SHA-256 digest.                                          *)
(***************************************************************************)
EXTENDS Session

MCBufSize == 8
MCWidth == 4
MCHashLen == [h \in Hashes |-> CASE h \in {"sha1", "sha224"} -> 2
                                 [] h \in {"sha256", "sha384"} -> 3
                                 [] OTHER -> 4]
MCDigestInfoLen == [h \in Hashes |-> MCHashLen[h] + 1]
MCPkcs1PadLen == 2
MCSigLen == [k \in KeyKinds |-> IF k = "rsa" THEN 6 ELSE 4]
MCSaltLens == {2}
\* int has 3 bits to CK_ULONG's 4: 14 reaches OpenSSL as -2, the request
\* for the largest salt.
MCIntWidth == 3
MCWideSaltLens == {2, 14}

\* Lengths a real caller's buffer can have.
MCDataLens == {2, 3}
\* One length for the digest and decrypt run: three updates overfill buf.
MCDecDataLens == {3}
\* A length no real buffer has, for which buf_len + in_len wraps.
MCWrapLens == {2, 14}

\* The RSA signing and verification mechanisms: raw and hashed PKCS#1 v1.5,
\* raw and hashed PSS.
MCSignMechs ==
  {"CKM_RSA_PKCS", "CKM_SHA256_RSA_PKCS", "CKM_RSA_PKCS_PSS", "CKM_SHA1_RSA_PKCS_PSS"}
MCPkcs1Mechs == {"CKM_RSA_PKCS", "CKM_SHA256_RSA_PKCS"}
MCPssMechs == {"CKM_RSA_PKCS_PSS", "CKM_SHA1_RSA_PKCS_PSS"}
MCSignParams == {"CKM_SHA_1", "CKG_MGF1_SHA256"}

\* The EC, EdDSA and raw RSA paths: raw ECDSA verifies through an
\* EVP_PKEY_CTX of its own, EdDSA buffers its message and verifies through
\* an EVP_MD_CTX; MD5 is a mechanism the code does not support.
MCEcMechs == {"CKM_ECDSA", "CKM_EDDSA", "CKM_RSA_X_509", "CKM_MD5_RSA_PKCS"}

\* Digesting and decryption, and a signing mechanism to share the context.
MCDecMechs == {"CKM_SHA256", "CKM_RSA_PKCS_OAEP", "CKM_RSA_PKCS"}
MCDecParams == {"CKG_MGF1_SHA256"}
\* CKM_SHA224 is a digest EVP_MD_by_mechanism does not know.
MCOaepParams == {"CKG_MGF1_SHA256", "CKM_SHA224"}

=============================================================================
