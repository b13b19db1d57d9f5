----------------------------- MODULE OpLifecycle -----------------------------
(***************************************************************************)
(* What a session's Operation Context promises (spec sections 3 and 5),   *)
(* independent of any mechanism: one operation at a time; it begins with  *)
(* an init, continues with updates and finals of the same kind, and a     *)
(* sign or verify operation ends only through its cleanup, which releases *)
(* every cryptographic context the operation owns.                        *)
(*                                                                         *)
(* held is the set of contexts a cleanup must release: the running hash   *)
(* context ("md") or a verification context of the operation's own        *)
(* ("pkey").  Digest and decrypt operations own nothing that a cleanup    *)
(* releases: they have none.                                               *)
(***************************************************************************)
EXTENDS TLAPS

Kinds == {"SIGN", "VERIFY", "DIGEST", "DECRYPT"}
WithCleanup == {"SIGN", "VERIFY"}

\* What an operation of each kind may own: a signing operation its hash
\* context; a verification its combined hash-and-verify context or else a
\* raw verify context (spec 4.4), never both.
Holdings(k) ==
  CASE k = "SIGN"   -> {{}, {"md"}}
    [] k = "VERIFY" -> {{}, {"md"}, {"pkey"}}
    [] OTHER        -> {{}}

VARIABLES
  op,      \* the kind of the operation in progress, or "NOOP"
  stage,   \* "idle", "active", "retry" (after BufferTooSmall) or "ending"
  held     \* the contexts the operation owns

vars == <<op, stage, held>>

\* Where an operation of kind k stands once it has ended: one with a
\* cleanup waits for it, the others are over.
Finished(k) == IF k \in WithCleanup THEN <<k, "ending">> ELSE <<"NOOP", "idle">>

Init == op = "NOOP" /\ stage = "idle" /\ held = {}

\* An init: it may acquire what its kind may own, and either starts the
\* operation or fails and ends it.
Begin(k) ==
  /\ op = "NOOP"
  /\ held' \in Holdings(k)
  /\ \/ op' = k /\ stage' = "active"
     \/ <<op', stage'>> = Finished(k)

\* An update or a final: it neither acquires nor releases a context.
Continue ==
  /\ op \in Kinds
  /\ stage \in {"active", "retry"}
  /\ \/ op' = op /\ stage' \in {"active", "retry"}
     \/ <<op', stage'>> = Finished(op)
  /\ UNCHANGED held

\* The cleanup of a sign or verify operation, callable in any stage
\* (caller cancellation included): it releases everything.
Release ==
  /\ op \in WithCleanup
  /\ op' = "NOOP" /\ stage' = "idle" /\ held' = {}

\* Cancellation of an operation that has no cleanup.
Cancel ==
  /\ op \in Kinds \ WithCleanup
  /\ op' = "NOOP" /\ stage' = "idle"
  /\ UNCHANGED held

Next == (\E k \in Kinds : Begin(k)) \/ Continue \/ Release \/ Cancel

Spec == Init /\ [][Next]_vars

\* The promise of spec 3 and 9: an operation owns only what its kind may
\* own, so nothing is owned between operations (a later init never finds a
\* context to overwrite) and a verification never owns two contexts.
HeldFitsOperation == held \in Holdings(op)

\* Every behaviour of the lifecycle keeps what is owned within what the
\* operation in progress may own.
THEOREM HeldFits == Spec => []HeldFitsOperation
<1>1. Init => HeldFitsOperation
  BY DEF Init, HeldFitsOperation, Holdings
<1>2. HeldFitsOperation /\ [Next]_vars => HeldFitsOperation'
  <2>. SUFFICES ASSUME HeldFitsOperation, [Next]_vars PROVE HeldFitsOperation'
    OBVIOUS
  <2>1. CASE \E k \in Kinds : Begin(k)
    BY <2>1 DEF Begin, Finished, HeldFitsOperation, Holdings, Kinds, WithCleanup
  <2>2. CASE Continue
    BY <2>2 DEF Continue, Finished, HeldFitsOperation, Holdings, Kinds, WithCleanup
  <2>3. CASE Release \/ Cancel
    BY <2>3 DEF Release, Cancel, HeldFitsOperation, Holdings, Kinds, WithCleanup
  <2>4. CASE UNCHANGED vars
    BY <2>4 DEF vars, HeldFitsOperation
  <2>. QED  BY <2>1, <2>2, <2>3, <2>4 DEF Next
<1>. QED  BY <1>1, <1>2, PTL DEF Spec

=============================================================================
