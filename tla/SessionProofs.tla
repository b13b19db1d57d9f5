---------------------------- MODULE SessionProofs ----------------------------
(***************************************************************************)
(* Proofs, for every value of the constants, that the session keeps its   *)
(* fields well typed and that sign and verify contexts are owned and freed *)
(* once (ContextsReleasedOnce).  Neither invariant is inductive alone; the *)
(* strengthenings below say what the code relies on between two calls.    *)
(***************************************************************************)
EXTENDS Session, TLAPS

\* sign_mechanism_final reads EVP_MD_size of the digest md_ctx runs: a
\* signing operation that may still be finalised and has an md_ctx was
\* initialised with a digest (EVP_DigestInit_ex succeeded).
SignDigestKnown ==
  (opType = "SIGN" /\ phase \in {"active", "retry"} /\ mdCtx # "null") => mdHash \in Hashes

\* Who owns what between two calls: a borrowed pkey_ctx lives inside the
\* md_ctx of the verify operation in progress, an owned one comes without
\* md_ctx, and an md_ctx created by sign or verify init belongs to the
\* operation still in progress (so only its cleanup can release it); every
\* live md_ctx was made by a sign, verify or digest init.
Ownership ==
  /\ pkeyCtx = "borrowed" => mdCtx # "null" /\ mdOwner = "VERIFY" /\ opType = "VERIFY"
  /\ pkeyCtx = "owned" => mdCtx = "null" /\ opType = "VERIFY"
  /\ (mdCtx # "null" /\ mdOwner \in HasCleanup) => opType = mdOwner
  /\ mdCtx # "null" => mdOwner \in HasCleanup \cup {"DIGEST"}

TypeInv == TypeOK /\ SignDigestKnown

IInv == TypeInv /\ Ownership /\ ContextsReleasedOnce

-----------------------------------------------------------------------------
(***************************************************************************)
(* Facts about the constants and the tables.                               *)
(***************************************************************************)

\* The constants' assumptions, as one fact.
LEMMA ConstantFacts ==
  /\ BufSize \in Nat \ {0}
  /\ ULong \in Nat /\ BufSize < ULong
  /\ HashLen \in [Hashes -> 1..BufSize]
  /\ DigestInfoLen \in [Hashes -> 1..BufSize]
  /\ Pkcs1PadLen \in Nat
  /\ SigLen \in [KeyKinds -> 1..BufSize]
  /\ DataLens \subseteq 0..(ULong - 1)
  /\ SaltLens \subseteq Nat
BY BufSizeAssumption, WidthAssumption, HashLenAssumption, SigLenAssumption,
   InputAssumption

\* EVP_MD_by_mechanism and the mechanism switches return a digest or NULL.
LEMMA TableTypes ==
  /\ \A id : MdByMechanism(id) \in MdOrNone
  /\ \A m : SignMd(m) \in MdOrNone
  /\ \A m : DigestMd(m) \in MdOrNone
  /\ \A m : SignPadding(m) \in Paddings
  /\ \A m : DecryptPadding(m) \in Paddings
BY DEF MdByMechanism, SignMd, DigestMd, SignPadding, DecryptPadding, MdOrNone,
       Hashes, NoMd, Paddings

\* The parameter blocks the session can be given are well formed.
LEMMA ParamTypes ==
  ASSUME NEW m
  PROVE  /\ \A prm \in PssParamsFor(m) :
              prm.given \in BOOLEAN /\ prm.sLen \in Nat
              /\ PssMdOf(prm) \in MdOrNone /\ MdByMechanism(prm.mgf) \in MdOrNone
         /\ \A prm \in OaepParamsFor(m) : prm.given \in BOOLEAN /\ prm.label \in BOOLEAN
<1>1. \A prm \in PssParamsFor(m) : prm.given \in BOOLEAN /\ prm.sLen \in Nat
  <2>. SUFFICES ASSUME NEW prm \in PssParamsFor(m)
                PROVE  prm.given \in BOOLEAN /\ prm.sLen \in Nat
    OBVIOUS
  <2>1. prm = NoPss \/ prm \in [given : {TRUE}, hashAlg : ParamIds, mgf : ParamIds, sLen : SaltLens]
    BY DEF PssParamsFor, PssParams
  <2>2. CASE prm = NoPss
    BY <2>2 DEF NoPss
  <2>3. CASE prm \in [given : {TRUE}, hashAlg : ParamIds, mgf : ParamIds, sLen : SaltLens]
    BY <2>3, ConstantFacts
  <2>. QED  BY <2>1, <2>2, <2>3
<1>2. \A prm \in PssParamsFor(m) :
        PssMdOf(prm) \in MdOrNone /\ MdByMechanism(prm.mgf) \in MdOrNone
  BY TableTypes DEF PssMdOf
<1>3. \A prm \in OaepParamsFor(m) : prm.given \in BOOLEAN /\ prm.label \in BOOLEAN
  <2>. SUFFICES ASSUME NEW prm \in OaepParamsFor(m)
                PROVE  prm.given \in BOOLEAN /\ prm.label \in BOOLEAN
    OBVIOUS
  <2>1. prm = NoOaep \/ prm \in [given : {TRUE}, hashAlg : ParamIds, mgf : ParamIds, label : BOOLEAN]
    BY DEF OaepParamsFor, OaepParams
  <2>2. CASE prm = NoOaep
    BY <2>2 DEF NoOaep
  <2>3. CASE prm \in [given : {TRUE}, hashAlg : ParamIds, mgf : ParamIds, label : BOOLEAN]
    BY <2>3
  <2>. QED  BY <2>1, <2>2, <2>3
<1>. QED  BY <1>1, <1>2, <1>3

-----------------------------------------------------------------------------
(***************************************************************************)
(* Type correctness.                                                       *)
(***************************************************************************)

\* A new session's zeroed op_info is well typed.
LEMMA InitTypeInv == Init => TypeInv
BY ConstantFacts DEF Init, TypeInv, TypeOK, SignDigestKnown, OpTypes, Phases,
   MdStates, PkeyStates, Paddings, MdOrNone, BufForms, RVs, NoBlock, NoKey,
   KeyKinds, NoMd

\* sign_mechanism_init keeps op_info well typed: the digest it records is
\* the mechanism's, and a signing operation left active has initialised it.
LEMMA SignInitTypeInv ==
  ASSUME TypeInv, NEW m \in Mechanisms, NEW key \in KeyKinds \cup {NoKey},
         NEW prm \in PssParamsFor(m), SignInit(m, key, prm)
  PROVE  TypeInv'
<1>1. prm.given \in BOOLEAN /\ prm.sLen \in Nat
      /\ PssMdOf(prm) \in MdOrNone /\ MdByMechanism(prm.mgf) \in MdOrNone
  BY ParamTypes
<1>. QED
  BY <1>1, ConstantFacts, TableTypes
  DEF SignInit, TypeInv, TypeOK, SignDigestKnown, SessionAfter, Ended, HasCleanup,
      LostMd, Faults, OpTypes, Phases, MdStates, RVs, MdOrNone, KeyKinds, NoKey

\* verify_mechanism_init keeps op_info well typed.
LEMMA VerifyInitTypeInv ==
  ASSUME TypeInv, NEW m \in Mechanisms, NEW key \in KeyKinds \cup {NoKey},
         NEW prm \in PssParamsFor(m), VerifyInit(m, key, prm)
  PROVE  TypeInv'
<1>1. prm.given \in BOOLEAN /\ PssMdOf(prm) \in MdOrNone /\ MdByMechanism(prm.mgf) \in MdOrNone
  BY ParamTypes
<1>. QED
  BY <1>1, ConstantFacts, TableTypes
  DEF VerifyInit, TypeInv, TypeOK, SignDigestKnown, SessionAfter, Ended, HasCleanup,
      LostMd, LostPkey, Faults, OpTypes, Phases, MdStates, PkeyStates, RVs, MdOrNone

\* decrypt_mechanism_init keeps op_info well typed.
LEMMA DecryptInitTypeInv ==
  ASSUME TypeInv, NEW m \in Mechanisms, NEW key \in KeyKinds,
         NEW prm \in OaepParamsFor(m), DecryptInit(m, key, prm)
  PROVE  TypeInv'
<1>1. prm.given \in BOOLEAN /\ prm.label \in BOOLEAN
  BY ParamTypes
<1>2. prm.given => MdByMechanism(prm.hashAlg) \in MdOrNone /\ MdByMechanism(prm.mgf) \in MdOrNone
  BY TableTypes
<1>. QED
  BY <1>1, <1>2, ConstantFacts, TableTypes
  DEF DecryptInit, TypeInv, TypeOK, SignDigestKnown, SessionAfter, Ended, HasCleanup,
      LostLabel, Faults, OpTypes, Phases, RVs, MdOrNone, Paddings, DecryptMechs

\* digest_mechanism_init keeps op_info well typed.
LEMMA DigestInitTypeInv ==
  ASSUME TypeInv, NEW m \in Mechanisms, DigestInit(m)
  PROVE  TypeInv'
BY ConstantFacts, TableTypes
DEF DigestInit, TypeInv, TypeOK, SignDigestKnown, SessionAfter, Ended, HasCleanup,
    LostMd, Faults, OpTypes, Phases, MdStates, RVs, MdOrNone

\* The sum buf_len + in_len of digest_mechanism_update, taken modulo the
\* width of CK_ULONG, is a CK_ULONG.
LEMMA ModULong ==
  ASSUME NEW a \in Nat, NEW b \in Nat
  PROVE  (a + b) % ULong \in 0..(ULong - 1)
BY ConstantFacts

\* digest_mechanism_update keeps buf_len a CK_ULONG.
LEMMA UpdateTypeInv ==
  ASSUME TypeInv, NEW len \in DataLens, MechanismUpdate(len)
  PROVE  TypeInv'
<1>1. len \in Nat /\ bufLen \in Nat
  BY ConstantFacts DEF TypeInv, TypeOK
<1>2. bufLen' \in 0..(ULong - 1)
  BY <1>1, ModULong DEF MechanismUpdate, TypeInv, TypeOK
<1>3. opType' \in OpTypes /\ phase' \in Phases /\ rv' \in RVs
  BY DEF MechanismUpdate, SessionAfter, Ended, HasCleanup, OpTypes, Phases, RVs, TypeInv, TypeOK
<1>4. faults' \subseteq Faults /\ bufForm' \in BufForms
  BY DEF MechanismUpdate, TypeInv, TypeOK, Faults, BufForms
<1>5. SignDigestKnown'
  BY DEF MechanismUpdate, SessionAfter, Ended, HasCleanup, TypeInv, SignDigestKnown
<1>. QED
  BY <1>2, <1>3, <1>4, <1>5 DEF MechanismUpdate, TypeInv, TypeOK

\* The session layer's ciphertext buffering keeps op_info well typed.
LEMMA DecryptUpdateTypeInv ==
  ASSUME TypeInv, NEW len \in DataLens, DecryptUpdate(len)
  PROVE  TypeInv'
<1>1. len \in Nat /\ bufLen \in Nat
  BY ConstantFacts DEF TypeInv, TypeOK
<1>2. bufLen' \in 0..(ULong - 1)
  BY <1>1, ConstantFacts DEF DecryptUpdate, TypeInv, TypeOK
<1>3. opType' \in {"DECRYPT", "NOOP"} /\ phase' \in Phases /\ rv' \in RVs
  BY DEF DecryptUpdate, SessionAfter, Ended, HasCleanup, Phases, RVs
<1>. QED
  BY <1>2, <1>3 DEF DecryptUpdate, TypeInv, TypeOK, SignDigestKnown, BufForms, OpTypes

\* sign_mechanism_final keeps op_info well typed: the lengths it writes into
\* buf_len are those of a digest, a DigestInfo or a padded block.
LEMMA SignFinalTypeInv ==
  ASSUME TypeInv, NEW cap \in {outLen - 1, outLen}, SignFinal(cap)
  PROVE  TypeInv'
BY ConstantFacts
DEF SignFinal, PaddingFits, PaddedLen, TypeInv, TypeOK, SignDigestKnown, SessionAfter,
    Ended, HasCleanup, Faults, OpTypes, Phases, RVs, MdStates, BufForms, NoBlock

\* The other finals, the cleanups and cancellation keep op_info well typed.
LEMMA OtherStepsTypeInv ==
  ASSUME TypeInv,
         \/ VerifyFinal \/ DecryptFinal
         \/ SignCleanup \/ VerifyCleanup \/ AbandonOperation
  PROVE  TypeInv'
<1>1. CASE VerifyFinal
  BY <1>1 DEF VerifyFinal, TypeInv, TypeOK, SignDigestKnown, SessionAfter, Ended,
              HasCleanup, OpTypes, Phases, RVs, MdStates
<1>3. CASE DecryptFinal
  BY <1>3 DEF DecryptFinal, TypeInv, TypeOK, SignDigestKnown, SessionAfter, Ended,
              HasCleanup, OpTypes, Phases, RVs, BufForms
<1>4. CASE SignCleanup
  BY <1>4, ConstantFacts DEF SignCleanup, TypeInv, TypeOK, SignDigestKnown, OpTypes,
              Phases, RVs, MdStates
<1>5. CASE VerifyCleanup
  BY <1>5, ConstantFacts DEF VerifyCleanup, VerifyCleanupFaults, LostPkey, TypeInv,
              TypeOK, SignDigestKnown, OpTypes, Phases, RVs, MdStates, PkeyStates, Faults
<1>6. CASE AbandonOperation
  BY <1>6 DEF AbandonOperation, ctxVars, TypeInv, TypeOK, SignDigestKnown, OpTypes, Phases
<1>. QED  BY <1>1, <1>3, <1>4, <1>5, <1>6

\* digest_mechanism_final keeps op_info well typed, whatever capacity the
\* caller declares.
LEMMA DigestFinalTypeInv ==
  ASSUME TypeInv, NEW cap, DigestFinal(cap)
  PROVE  TypeInv'
BY DEF DigestFinal, TypeInv, TypeOK, SignDigestKnown, SessionAfter, Ended,
       HasCleanup, OpTypes, Phases, RVs, MdStates, Faults

\* Every step of the session, or a stutter, keeps op_info well typed.
LEMMA NextTypeInv == TypeInv /\ [Next]_vars => TypeInv'
<1>. SUFFICES ASSUME TypeInv, [Next]_vars PROVE TypeInv'
  OBVIOUS
<1>1. CASE \E m \in Mechanisms, key \in KeyKinds \cup {NoKey} : \E prm \in PssParamsFor(m) :
             SignInit(m, key, prm) \/ VerifyInit(m, key, prm)
  BY <1>1, SignInitTypeInv, VerifyInitTypeInv
<1>2. CASE \E m \in Mechanisms, key \in KeyKinds : \E prm \in OaepParamsFor(m) :
             DecryptInit(m, key, prm)
  BY <1>2, DecryptInitTypeInv
<1>3. CASE \E m \in Mechanisms : DigestInit(m)
  BY <1>3, DigestInitTypeInv
<1>4. CASE \E len \in DataLens : MechanismUpdate(len) \/ DecryptUpdate(len)
  BY <1>4, UpdateTypeInv, DecryptUpdateTypeInv
<1>5. CASE \E cap \in {outLen - 1, outLen} : SignFinal(cap) \/ DigestFinal(cap)
  BY <1>5, SignFinalTypeInv, DigestFinalTypeInv
<1>6. CASE \/ VerifyFinal \/ DecryptFinal
           \/ SignCleanup \/ VerifyCleanup \/ AbandonOperation
  BY <1>6, OtherStepsTypeInv
<1>7. CASE UNCHANGED vars
  BY <1>7 DEF vars, TypeInv, TypeOK, SignDigestKnown
<1>. QED  BY <1>1, <1>2, <1>3, <1>4, <1>5, <1>6, <1>7 DEF Next

\* Type correctness: in every reachable state each field of op_info holds
\* a value of its type, whatever sequence of calls and library failures
\* led there (sign_mechanism_init ... decrypt_mechanism_final).
THEOREM TypeCorrect == Spec => []TypeOK
<1>1. Init => TypeInv
  BY InitTypeInv
<1>2. TypeInv /\ [Next]_vars => TypeInv'
  BY NextTypeInv
<1>3. TypeInv => TypeOK
  BY DEF TypeInv
<1>. QED  BY <1>1, <1>2, <1>3, PTL DEF Spec

-----------------------------------------------------------------------------
(***************************************************************************)
(* Contexts are owned and released once.                                   *)
(***************************************************************************)

OwnInv == Ownership /\ ContextsReleasedOnce

\* A zeroed op_info holds no context.
LEMMA InitOwnInv == Init => OwnInv
BY DEF Init, OwnInv, Ownership, ContextsReleasedOnce

\* The inits run only between operations, when no sign or verify context
\* is live: what they overwrite is at most an abandoned digest context.
LEMMA IdleHoldsNoSignContext ==
  ASSUME TypeInv, Ownership, opType = "NOOP"
  PROVE  /\ pkeyCtx = "null"
         /\ LostPkey = {}
         /\ LostMd \subseteq {"leak_digest_ctx"}
BY DEF TypeInv, TypeOK, Ownership, LostPkey, LostMd, HasCleanup, PkeyStates, OpTypes

LEMMA SignInitOwnInv ==
  ASSUME TypeInv, OwnInv, NEW m \in Mechanisms, NEW key \in KeyKinds \cup {NoKey},
         NEW prm \in PssParamsFor(m), SignInit(m, key, prm)
  PROVE  OwnInv'
<1>1. opType = "NOOP" /\ pkeyCtx = "null" /\ LostMd \subseteq {"leak_digest_ctx"}
  BY IdleHoldsNoSignContext DEF SignInit, OwnInv
<1>2. opType' = "SIGN"
  BY DEF SignInit, SessionAfter, Ended, HasCleanup
<1>. QED
  BY <1>1, <1>2 DEF SignInit, OwnInv, Ownership, ContextsReleasedOnce, HasCleanup,
                    TypeInv, TypeOK, OpTypes

LEMMA VerifyInitOwnInv ==
  ASSUME TypeInv, OwnInv, NEW m \in Mechanisms, NEW key \in KeyKinds \cup {NoKey},
         NEW prm \in PssParamsFor(m), VerifyInit(m, key, prm)
  PROVE  OwnInv'
<1>1. opType = "NOOP" /\ LostPkey = {} /\ LostMd \subseteq {"leak_digest_ctx"}
  BY IdleHoldsNoSignContext DEF VerifyInit, OwnInv
<1>2. opType' = "VERIFY"
  BY DEF VerifyInit, SessionAfter, Ended, HasCleanup
<1>. QED
  BY <1>1, <1>2 DEF VerifyInit, OwnInv, Ownership, ContextsReleasedOnce, HasCleanup,
                    TypeInv, TypeOK, OpTypes

LEMMA DigestInitOwnInv ==
  ASSUME TypeInv, OwnInv, NEW m \in Mechanisms, DigestInit(m)
  PROVE  OwnInv'
<1>1. opType = "NOOP" /\ pkeyCtx = "null" /\ LostMd \subseteq {"leak_digest_ctx"}
  BY IdleHoldsNoSignContext DEF DigestInit, OwnInv
<1>2. opType' \in {"DIGEST", "NOOP"}
  BY DEF DigestInit, SessionAfter, Ended, HasCleanup
<1>. QED
  BY <1>1, <1>2 DEF DigestInit, OwnInv, Ownership, ContextsReleasedOnce, HasCleanup

LEMMA DecryptInitOwnInv ==
  ASSUME TypeInv, OwnInv, NEW m \in Mechanisms, NEW key \in KeyKinds,
         NEW prm \in OaepParamsFor(m), DecryptInit(m, key, prm)
  PROVE  OwnInv'
<1>1. opType = "NOOP" /\ pkeyCtx = "null"
  BY IdleHoldsNoSignContext DEF DecryptInit, OwnInv
<1>2. opType' \in {"DECRYPT", "NOOP"}
  BY DEF DecryptInit, SessionAfter, Ended, HasCleanup
<1>3. mdCtx # "null" => mdOwner \notin HasCleanup
  BY <1>1 DEF OwnInv, Ownership, HasCleanup
<1>4. faults' \cap {"bad_free", "leak_sign_verify_ctx", "leak_pkey"} = {}
  BY DEF DecryptInit, LostLabel, OwnInv, ContextsReleasedOnce
<1>. QED
  BY <1>1, <1>2, <1>3, <1>4 DEF DecryptInit, OwnInv, Ownership, ContextsReleasedOnce

\* sign_mechanism_final finalises md_ctx but keeps it for cleanup, keeps the
\* signing operation in progress and frees nothing.
LEMMA SignFinalOwnInv ==
  ASSUME OwnInv, NEW cap, SignFinal(cap)
  PROVE  OwnInv'
<1>1. mdCtx' # "null" <=> mdCtx # "null"
  BY DEF SignFinal
<1>2. faults' \cap {"bad_free", "leak_sign_verify_ctx", "leak_pkey"}
        = faults \cap {"bad_free", "leak_sign_verify_ctx", "leak_pkey"}
  BY DEF SignFinal
<1>3. opType' = "SIGN"
  BY DEF SignFinal, SessionAfter, Ended, HasCleanup
<1>4. opType = "SIGN" /\ UNCHANGED <<pkeyCtx, mdOwner>>
  BY DEF SignFinal
<1>. QED
  BY <1>1, <1>2, <1>3, <1>4 DEF OwnInv, Ownership, ContextsReleasedOnce

\* Updates and finals keep the operation and its contexts: an md_ctx that
\* is finalised stays live until cleanup, and no final frees anything.
LEMMA UpdateFinalOwnInv ==
  ASSUME TypeInv, OwnInv,
         \/ \E len \in DataLens : MechanismUpdate(len) \/ DecryptUpdate(len)
         \/ \E cap \in {outLen - 1, outLen} : SignFinal(cap)
         \/ VerifyFinal \/ DecryptFinal
  PROVE  OwnInv'
<1>1. CASE \E len \in DataLens : MechanismUpdate(len)
  BY <1>1 DEF MechanismUpdate, SessionAfter, Ended, HasCleanup, OwnInv, Ownership,
              ContextsReleasedOnce
<1>2. CASE \E len \in DataLens : DecryptUpdate(len)
  BY <1>2 DEF DecryptUpdate, SessionAfter, Ended, HasCleanup, OwnInv, Ownership,
              ContextsReleasedOnce
<1>3. CASE \E cap \in {outLen - 1, outLen} : SignFinal(cap)
  BY <1>3, SignFinalOwnInv
<1>4. CASE VerifyFinal
  BY <1>4 DEF VerifyFinal, SessionAfter, Ended, HasCleanup, OwnInv, Ownership,
              ContextsReleasedOnce
<1>5. CASE DecryptFinal
  BY <1>5 DEF DecryptFinal, SessionAfter, Ended, HasCleanup, OwnInv, Ownership,
              ContextsReleasedOnce
<1>. QED  BY <1>1, <1>2, <1>3, <1>4, <1>5

\* digest_mechanism_final destroys only the digest's own md_ctx.
LEMMA DigestFinalOwnInv ==
  ASSUME TypeInv, OwnInv, NEW cap, DigestFinal(cap)
  PROVE  OwnInv'
<1>1. pkeyCtx = "null"
  BY DEF DigestFinal, OwnInv, Ownership, TypeInv, TypeOK, PkeyStates
<1>. QED
  BY <1>1 DEF DigestFinal, SessionAfter, Ended, HasCleanup, OwnInv, Ownership,
              ContextsReleasedOnce

\* sign_mechanism_cleanup destroys md_ctx; a signing operation holds no
\* pkey_ctx.  verify_mechanism_cleanup frees pkey_ctx only when no md_ctx
\* owns it, and an owned pkey_ctx comes without md_ctx, so nothing is
\* freed twice or lost.  Cancelling a digest or decryption leaves no sign
\* or verify context behind.
LEMMA CleanupOwnInv ==
  ASSUME TypeInv, OwnInv, SignCleanup \/ VerifyCleanup \/ AbandonOperation
  PROVE  OwnInv'
<1>1. CASE SignCleanup
  <2>1. pkeyCtx = "null"
    BY <1>1 DEF SignCleanup, OwnInv, Ownership, TypeInv, TypeOK, PkeyStates
  <2>. QED
    BY <1>1, <2>1 DEF SignCleanup, OwnInv, Ownership, ContextsReleasedOnce
<1>2. CASE VerifyCleanup
  <2>1. VerifyCleanupFaults = {}
    BY <1>2 DEF VerifyCleanup, VerifyCleanupFaults, LostPkey, OwnInv, Ownership
  <2>. QED
    BY <1>2, <2>1 DEF VerifyCleanup, OwnInv, Ownership, ContextsReleasedOnce
<1>3. CASE AbandonOperation
  <2>1. pkeyCtx = "null" /\ (mdCtx # "null" => mdOwner = "DIGEST")
    BY <1>3 DEF AbandonOperation, OwnInv, Ownership, HasCleanup, TypeInv, TypeOK,
                PkeyStates
  <2>. QED
    BY <1>3, <2>1 DEF AbandonOperation, ctxVars, OwnInv, Ownership,
                      ContextsReleasedOnce, HasCleanup
<1>. QED  BY <1>1, <1>2, <1>3

\* Every step, or a stutter, of a well-typed session keeps the ownership
\* invariant.
LEMMA NextOwnInv == TypeInv /\ OwnInv /\ [Next]_vars => OwnInv'
<1>. SUFFICES ASSUME TypeInv, OwnInv, [Next]_vars PROVE OwnInv'
  OBVIOUS
<1>1. CASE \E m \in Mechanisms, key \in KeyKinds \cup {NoKey} : \E prm \in PssParamsFor(m) :
             SignInit(m, key, prm) \/ VerifyInit(m, key, prm)
  BY <1>1, SignInitOwnInv, VerifyInitOwnInv
<1>2. CASE \E m \in Mechanisms, key \in KeyKinds : \E prm \in OaepParamsFor(m) :
             DecryptInit(m, key, prm)
  BY <1>2, DecryptInitOwnInv
<1>3. CASE \E m \in Mechanisms : DigestInit(m)
  BY <1>3, DigestInitOwnInv
<1>4. CASE \/ \E len \in DataLens : MechanismUpdate(len) \/ DecryptUpdate(len)
           \/ \E cap \in {outLen - 1, outLen} : SignFinal(cap)
           \/ VerifyFinal \/ DecryptFinal
  BY <1>4, UpdateFinalOwnInv
<1>5. CASE \E cap \in {outLen - 1, outLen} : DigestFinal(cap)
  BY <1>5, DigestFinalOwnInv
<1>6. CASE SignCleanup \/ VerifyCleanup \/ AbandonOperation
  BY <1>6, CleanupOwnInv
<1>7. CASE UNCHANGED vars
  BY <1>7 DEF vars, OwnInv, Ownership, ContextsReleasedOnce
<1>. QED  BY <1>1, <1>2, <1>3, <1>4, <1>5, <1>6, <1>7 DEF Next

\* The sign and verify contexts (md_ctx, an owned pkey_ctx) are released
\* exactly once in every behaviour: no init overwrites a live one and
\* verify_mechanism_cleanup never frees the pkey_ctx that md_ctx owns.
THEOREM ContextsSafe == Spec => []ContextsReleasedOnce
<1>1. Init => IInv
  BY InitTypeInv, InitOwnInv DEF IInv, OwnInv
<1>2. IInv /\ [Next]_vars => IInv'
  BY NextTypeInv, NextOwnInv DEF IInv, OwnInv
<1>3. IInv => ContextsReleasedOnce
  BY DEF IInv
<1>. QED  BY <1>1, <1>2, <1>3, PTL DEF Spec

=============================================================================
