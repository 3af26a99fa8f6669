----------------------------- MODULE EffectModel -----------------------------
(***************************************************************************)
(* The closed vocabularies of Nyst: the six effect states, the control     *)
(* decision and the normalised facets of one evidence record.  Wording,    *)
(* reason codes, timestamps and payloads are left out: no property here    *)
(* depends on them.                                                        *)
(***************************************************************************)
EXTENDS Naturals

EffectStates == {"verified", "not_applied", "pending", "compensated",
                 "satisfied_unattributed", "unprovable"}

Strengths    == {"authoritative", "corroborative", "circumstantial", "transport_only"}
Kinds        == {"provider_response", "provider_read", "provider_event", "downstream_state",
                 "transport_error", "compensation_confirmation", "absence_probe",
                 "manual_attestation"}
Dispositions == {"effect_present", "effect_absent", "indeterminate"}
Attributions == {"attributed", "unattributed", "indeterminate"}

Primaries     == {"continue", "retry", "do_not_retry", "hold", "compensate", "escalate"}
Retries       == {"allowed", "forbidden", "unknown"}
Continuations == {"allowed", "blocked", "conditional"}
Recoveries    == {"none", "compensate", "escalate"}

(* "recheck" is the presence of next_check_at. *)
ControlDecision == [primary : Primaries, retry : Retries, continuation : Continuations,
                    recovery : Recoveries, recheck : BOOLEAN]

(* "ref" is the evidence id, its position in the action's ledger; position 0
   in "supersedes" is the null reference.  *)
EvidenceRecord == [ref : Nat \ {0}, kind : Kinds, strength : Strengths,
                   disposition : Dispositions, attribution : Attributions,
                   supersedes : Nat]

(* What an EffectSpec declares about its effect and the core reads.        *)
EffectSpec == [compensation : BOOLEAN, goal_sufficient : BOOLEAN,
               retry_safe : BOOLEAN, idempotent : BOOLEAN]

DispatchStatuses == {"not_started", "claimed", "attempted", "definitely_not_sent"}

(* Defective form: one attempt more than the budget.                       *)
AttemptBudgetAndOne == 3

(* The retry budget: an action is dispatched at most twice, whoever asks.  *)
AttemptBudget == 2

-----------------------------------------------------------------------------
(* The internal lifecycle of an action.  "absent" is the action that does  *)
(* not exist yet.                                                          *)
InternalStates == {"absent", "intent_recorded", "prepared", "dispatching", "observing",
                   "reconciling", "resolved", "abandoned_before_dispatch"}
=============================================================================
