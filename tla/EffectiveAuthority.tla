------------------------- MODULE EffectiveAuthority -------------------------
(***************************************************************************)
(* What Nyst may do next for an action: the intersection of what the       *)
(* runtime decided and of the policy version bound to the action, as the   *)
(* application computes it and as every automatic statement asks for it    *)
(* again in SQL.                                                           *)
(***************************************************************************)
EXTENDS EffectModel

Policies == [execution_mode : {"automatic", "approval_required"},
             auto_continuation : BOOLEAN, auto_compensation : BOOLEAN]

RuntimeAuthority == [primary : Primaries, retry : Retries,
                     continuation : Continuations, recovery : Recoveries]

ApprovalRequired(policy) == policy.execution_mode = "approval_required"

(* Each branch of the code narrows one disposition.                        *)
NarrowedContinuation(runtime, policy) ==
    IF ~policy.auto_continuation THEN "blocked"
    ELSE IF ApprovalRequired(policy) /\ runtime.continuation = "allowed" THEN "conditional"
    ELSE runtime.continuation

NarrowedRecovery(runtime, policy) ==
    IF ~policy.auto_compensation /\ runtime.recovery = "compensate" THEN "escalate"
    ELSE runtime.recovery

NarrowPrimary(primary, continuation, recovery) ==
    IF primary = "retry" THEN "escalate"
    ELSE IF primary = "continue" /\ continuation # "allowed" THEN "hold"
    ELSE IF primary = "compensate" /\ recovery # "compensate" THEN "escalate"
    ELSE primary

Effective(runtime, policy) ==
    LET continuation == NarrowedContinuation(runtime, policy)
        recovery     == NarrowedRecovery(runtime, policy)
    IN  [primary |-> NarrowPrimary(runtime.primary, continuation, recovery),
         retry |-> "forbidden", continuation |-> continuation, recovery |-> recovery]

AutomaticContinuation(runtime, policy) ==
    /\ Effective(runtime, policy).continuation = "allowed"
    /\ policy.auto_continuation
    /\ ~ApprovalRequired(policy)

AutomaticCompensation(runtime, policy) ==
    /\ Effective(runtime, policy).recovery = "compensate"
    /\ policy.auto_compensation
    /\ ~ApprovalRequired(policy)

PermittedReviews(runtime, policy) ==
    {"acknowledge", "request_reobservation", "cancel"} \union
    (IF Effective(runtime, policy).recovery = "compensate"
     THEN {"authorize_compensation"} ELSE {})

-----------------------------------------------------------------------------
(* The predicates embedded in the statements.                              *)
SqlContinuation(runtime, policy) ==
    /\ policy.auto_continuation
    /\ policy.execution_mode = "automatic"
    /\ runtime.continuation = "allowed"

SqlCompensation(runtime, policy) ==
    /\ policy.auto_compensation
    /\ policy.execution_mode = "automatic"
    /\ runtime.primary = "compensate"
    /\ runtime.recovery = "compensate"

RecoveryOperations == {"authorized_continuation", "supported_compensation"}

Permits(operation, runtime, policy) ==
    IF operation = "authorized_continuation"
    THEN AutomaticContinuation(runtime, policy)
    ELSE AutomaticCompensation(runtime, policy)

SqlPermits(operation, runtime, policy) ==
    IF operation = "authorized_continuation"
    THEN SqlContinuation(runtime, policy)
    ELSE SqlCompensation(runtime, policy)
=============================================================================
