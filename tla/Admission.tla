------------------------------ MODULE Admission ------------------------------
(***************************************************************************)
(* Mechanism Admission of ykcs11/mechanisms.c: check_generation_mechanism, *)
(* called before a key pair is generated, and validate_derive_key_attribute*)
(* called on each attribute of an ECDH derived-key template.  Neither has  *)
(* state of its own; the state below is what the caller last asked and     *)
(* what it was told.                                                       *)
(*                                                                         *)
(* A caller names a mechanism, the code sees its CK_MECHANISM_TYPE value:  *)
(* the values are those of pkcs11.h, where the deprecated name             *)
(* CKM_ECDSA_KEY_PAIR_GEN is kept as an alias of CKM_EC_KEY_PAIR_GEN.      *)
(***************************************************************************)
EXTENDS Naturals, Sequences

CKM == [CKM_RSA_PKCS_KEY_PAIR_GEN      |-> 0,
        CKM_DSA_KEY_PAIR_GEN           |-> 16,
        CKM_EC_KEY_PAIR_GEN            |-> 4160,
        CKM_ECDSA_KEY_PAIR_GEN         |-> 4160,
        CKM_EC_EDWARDS_KEY_PAIR_GEN    |-> 4181,
        CKM_EC_MONTGOMERY_KEY_PAIR_GEN |-> 4182]

GenNames == DOMAIN CKM

\* The static array generation_mechanisms (CKM_ECDSA_KEY_PAIR_GEN is
\* commented out there as deprecated).
generation_mechanisms ==
  << CKM.CKM_RSA_PKCS_KEY_PAIR_GEN, CKM.CKM_EC_KEY_PAIR_GEN,
     CKM.CKM_EC_EDWARDS_KEY_PAIR_GEN, CKM.CKM_EC_MONTGOMERY_KEY_PAIR_GEN >>

\* check_generation_mechanism: the value must be in the array and the token
\* must report it (get_token_mechanism_info returns CKR_OK).
check_generation_mechanism(v, tokenMechs) ==
  LET supported == \E i \in 1..Len(generation_mechanisms) : generation_mechanisms[i] = v
  IN  CASE ~supported           -> "CKR_MECHANISM_INVALID"
        [] v \notin tokenMechs  -> "CKR_MECHANISM_INVALID"
        [] OTHER                -> "CKR_OK"

\* The attribute types the switch names, one it ignores, and the values a
\* template may give them.
AttrTypes == {"CKA_TOKEN", "CKA_CLASS", "CKA_KEY_TYPE", "CKA_EXTRACTABLE", "CKA_LABEL"}
AttrValues == {"CK_FALSE", "CK_TRUE", "CKO_SECRET_KEY", "CKO_PRIVATE_KEY",
               "CKK_GENERIC_SECRET", "CKK_AES"}

\* validate_derive_key_attribute: each case compares the value the type
\* calls for; any other type is accepted.
validate_derive_key_attribute(type, value) ==
  CASE type = "CKA_TOKEN"       /\ value # "CK_FALSE"             -> "CKR_ATTRIBUTE_VALUE_INVALID"
    [] type = "CKA_CLASS"       /\ value # "CKO_SECRET_KEY"       -> "CKR_ATTRIBUTE_VALUE_INVALID"
    [] type = "CKA_KEY_TYPE"    /\ value # "CKK_GENERIC_SECRET"   -> "CKR_ATTRIBUTE_VALUE_INVALID"
    [] type = "CKA_EXTRACTABLE" /\ value # "CK_TRUE"              -> "CKR_ATTRIBUTE_VALUE_INVALID"
    [] OTHER                                                      -> "CKR_OK"

NoRequest == [kind |-> "none", name |-> "none", type |-> "none", value |-> "none"]

VARIABLES
  request,   \* the last check the caller asked for
  rv         \* what it returned

vars == <<request, rv>>

Init == request = NoRequest /\ rv = "CKR_OK"

\* C_GenerateKeyPair asks whether the mechanism it was given may be used;
\* tokenMechs is what the connected token reports.
GenerationCheck(name, tokenMechs) ==
  /\ request' = [NoRequest EXCEPT !.kind = "generate", !.name = name]
  /\ rv' = check_generation_mechanism(CKM[name], tokenMechs)

\* C_DeriveKey validates one attribute of the derived-key template.
DeriveAttributeCheck(type, value) ==
  /\ request' = [NoRequest EXCEPT !.kind = "derive", !.type = type, !.value = value]
  /\ rv' = validate_derive_key_attribute(type, value)

Next ==
  \/ \E name \in GenNames, tokenMechs \in SUBSET {CKM[n] : n \in GenNames} :
       GenerationCheck(name, tokenMechs)
  \/ \E type \in AttrTypes, value \in AttrValues : DeriveAttributeCheck(type, value)

Spec == Init /\ [][Next]_vars

=============================================================================
