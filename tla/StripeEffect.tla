---------------------------- MODULE StripeEffect -----------------------------
(***************************************************************************)
(* The two Stripe effects, a full refund and a full capture: evaluation of *)
(* the PaymentIntent, the Charge and the refunds an adapter read one after *)
(* another, the spec's assessment and its decision.  Amounts are "none",   *)
(* "exact" (the requested amount) or "other".                              *)
(***************************************************************************)
EXTENDS ReadBack, FiniteSets

StripeSpec == [compensation |-> FALSE, goal_sufficient |-> TRUE,
               retry_safe |-> FALSE, idempotent |-> TRUE]

Evaluation(goal, pending, failed, inconsistent, mine) ==
    [goal |-> goal, pending |-> pending, failed |-> failed,
     inconsistent |-> inconsistent, mine |-> mine]

(* Defective form: a charge that is refunded has a refund that succeeded.  *)
RefundEvaluatedByCharge(view) ==
    Evaluation(view.charge = "exact", FALSE, FALSE, view.charge = "other",
               \E r \in view.refunds : r.mine)

(* evaluate, of a refund: one refund, of the exact amount, that succeeded  *)
(* and that the charge agrees with.                                        *)
RefundEvaluated(view) ==
    LET InState(states) == \E r \in view.refunds : r.exact /\ r.status \in states
        inconsistent == \/ Cardinality(view.refunds) > 1
                        \/ \E r \in view.refunds : ~r.exact
                        \/ view.charge = "other"
        goal == ~inconsistent /\ InState({"succeeded"}) /\ view.charge = "exact"
    IN  Evaluation(goal,
                   ~inconsistent /\ ~goal /\ InState({"pending", "requires_action"}),
                   ~inconsistent /\ ~goal /\ InState({"failed", "canceled"}),
                   inconsistent,
                   \E r \in view.refunds : r.exact /\ r.status = "succeeded" /\ r.mine)

(* evaluate, of a capture: the PaymentIntent succeeded with everything     *)
(* received, and nothing of it was refunded.                               *)
CaptureEvaluated(view) ==
    LET p == view.payment
        inconsistent == \/ view.refunds # {} \/ view.charge # "none"
                        \/ p.status = "succeeded" /\ p.received # "exact"
        goal == ~inconsistent /\ p.status = "succeeded" /\ p.received = "exact"
    IN  Evaluation(goal, ~inconsistent /\ p.status = "processing",
                   ~inconsistent /\ p.status = "canceled", inconsistent, goal /\ p.mine)

StripeEvaluated(effect, view) ==
    IF effect = "refund" THEN RefundEvaluated(view) ELSE CaptureEvaluated(view)

(* preconditionStillValid.                                                 *)
StripeLegal(effect, view) ==
    IF effect = "refund"
    THEN view.payment.status = "succeeded" /\ view.charge = "none" /\ view.refunds = {}
    ELSE view.payment.status = "requires_capture" /\ view.payment.received = "none"

(* refundOperation and captureOperation: what is done is fixed by the      *)
(* topology found at commit, and an unsupported one is refused.            *)
RefundOperation(view) ==
    CASE StripeLegal("refund", view) -> "change"
      [] /\ view.payment.status = "succeeded" /\ view.charge # "other"
         /\ Cardinality(view.refunds) = 1 /\ \A r \in view.refunds : r.exact -> "observe_only"
      [] OTHER -> "refused"

CaptureOperation(view) ==
    IF view.refunds # {} \/ view.charge # "none" THEN "refused"
    ELSE IF StripeLegal("capture", view) THEN "change"
    ELSE IF CaptureEvaluated(view).goal THEN "observe_only" ELSE "refused"

ObservedStatus(effect, view) ==
    IF effect = "refund" THEN {r.status : r \in {x \in view.refunds : x.exact}}
    ELSE {view.payment.status}

StripeSnapshot(effect, view, windowElapsed, held) ==
    LET e == StripeEvaluated(effect, view)
        absent == ~e.goal /\ (windowElapsed \/ e.failed)
    IN  Item("snapshot",
             [found |-> e, elapsed |-> windowElapsed, status |-> ObservedStatus(effect, view)],
             Facets(IF absent THEN "absence_probe" ELSE "provider_read",
                    IF e.goal \/ absent THEN "authoritative" ELSE "circumstantial",
                    CASE e.goal -> "effect_present" [] absent -> "effect_absent"
                      [] OTHER -> "indeterminate",
                    IF ~e.goal THEN "indeterminate"
                    ELSE IF e.mine THEN "attributed" ELSE "unattributed"),
             held)

StripeAssess(ledger) ==
    LET last == LastSnapshot(ledger)
        e    == ledger[last].says.found
    IN  IF Obscured(ledger) THEN ObscuredAssessment(ledger)
        ELSE Assessment(IF e.goal THEN IF e.mine THEN "verified" ELSE "satisfied_unattributed"
                        ELSE IF e.inconsistent THEN "unprovable"
                        ELSE IF e.pending \/ ~(e.failed \/ ledger[last].says.elapsed) THEN "pending"
                        ELSE "not_applied",
                        {last}, FALSE)

(* No financial effect is retried automatically.                           *)
StripeDecide(a) ==
    CASE a.state \in {"verified", "satisfied_unattributed"} ->
           Decision("do_not_retry", "forbidden", "allowed", "none", FALSE)
      [] a.state = "pending" -> Decision("hold", "forbidden", "blocked", "none", a.recheck)
      [] OTHER -> Decision("escalate", "forbidden", "blocked", "escalate", FALSE)
=============================================================================
