------------------------------- MODULE Shadow --------------------------------
(***************************************************************************)
(* Shadow evaluation: what a caller reports of a consequence it caused     *)
(* itself is turned into the evidence the adapter would have appended, and *)
(* goes through the specs and the floors of the runtime.  Here the caller  *)
(* reports truthfully what a provider holds, so that the answer can be      *)
(* compared with that of an action under control over the same facts.  The *)
(* reference provider, of development only, is left out.                   *)
(***************************************************************************)
EXTENDS OktaEffect, StripeEffect

CONSTANT Roles      \* the greatest role of a GitHub repository; 0 is "none"

VARIABLES report,   \* what happened, and what of it the caller reports
          verdict   \* the evaluation, or Unevaluated

shadow == <<report, verdict>>

Unevaluated == [state |-> "none"]

-----------------------------------------------------------------------------
(* What there is at the providers (external).                              *)

OktaCases == [effect : {"okta"}, status : Supported \union {"STAGED"}, desired : Supported]

(* A role held directly, one held through a team or the organisation.      *)
GitHubCases == [effect : {"github"}, direct : 0..Roles, through : 0..Roles, desired : 0..Roles]

Effective(k) == IF k.direct >= k.through THEN k.direct ELSE k.through

RefundSets ==
    {{}} \union {{r} : r \in [exact : BOOLEAN, status : {"pending", "succeeded", "failed"},
                              mine : BOOLEAN]}

StripeCases ==
    [effect : {"refund", "capture"},
     payment : [status : {"requires_capture", "requires_action", "processing", "canceled"},
                received : {"none"}, mine : {FALSE}]
               \union [status : {"succeeded"}, received : {"exact", "other"}, mine : BOOLEAN],
     refunds : RefundSets]

View(k) ==
    LET live == {r \in k.refunds : r.status # "failed"} IN
    [payment |-> k.payment, refunds |-> k.refunds,
     charge |-> CASE live = {} -> "none"
                  [] live # {} /\ (\A r \in live : r.exact) -> "exact"
                  [] OTHER -> "other"]

Cases == OktaCases \union GitHubCases \union StripeCases

Transports == {"success", "ambiguous", "definitely_not_sent"}

-----------------------------------------------------------------------------
(* The GitHub spec over evidence whose payload is given.                   *)
GitHubRead(goal, facets) ==
    Item("snapshot", [goal |-> goal, supported |-> TRUE, elapsed |-> TRUE], facets, {})

GitHubSnapshotOf(goal) ==
    GitHubRead(goal, Facets(IF goal THEN "provider_read" ELSE "absence_probe", "authoritative",
                            IF goal THEN "effect_present" ELSE "effect_absent",
                            IF goal THEN "unattributed" ELSE "indeterminate"))

(* GitHub and Okta assess and decide alike; only Okta's status may be one  *)
(* that is not supported.                                                  *)
SpecOf(effect) == IF effect \in {"okta", "github"} THEN OktaSpec ELSE StripeSpec
Assess(effect, ledger) ==
    IF effect \in {"okta", "github"} THEN OktaAssess(ledger) ELSE StripeAssess(ledger)
Decide(effect, a) ==
    IF effect \in {"okta", "github"} THEN OktaDecide(a) ELSE StripeDecide(a)

(* assess, decide, the floors and the floor of the dispatch boundary.      *)
Outcome(effect, ledger, transport, attempts) ==
    LET a == Assess(effect, ledger)
        f == ApplySafetyFloors(SpecOf(effect), a.state, a.refs, Decide(effect, a),
                               ItemsAsEvidence(ledger))
    IN  [state |-> f.state,
         decision |-> ApplyDispatchBoundaryFloor(f.decision,
                         IF transport = "definitely_not_sent" THEN transport ELSE "attempted",
                         SpecOf(effect).idempotent, attempts)]

-----------------------------------------------------------------------------
(* normalizeObservation                                                    *)

(* Defective form: the role that the mutation sets.                        *)
DirectGoal(k) == k.direct = k.desired

(* The goal of a GitHub observation: the effective role alone, but that    *)
(* inherited access is never "none".                                       *)
EffectiveGoal(k) == Effective(k) = k.desired /\ ~(k.through # 0 /\ k.desired = 0)

ObservedGoal(k) ==
    CASE k.effect = "okta"   -> k.status = k.desired
      [] k.effect = "github" -> EffectiveGoal(k)
      [] OTHER               -> StripeEvaluated(k.effect, View(k)).goal

(* attributed, as the caller reports it; GitHub and Okta cannot tell.      *)
ObservedMine(k) ==
    k.effect \in {"refund", "capture"} /\ StripeEvaluated(k.effect, View(k)).mine

(* A read is authoritative whatever it found.                              *)
ObservedFacets(k) ==
    Facets("provider_read", "authoritative",
           IF ObservedGoal(k) THEN "effect_present" ELSE "effect_absent",
           IF ObservedMine(k) THEN "attributed" ELSE "unattributed")

ObservedSnapshot(k) ==
    CASE k.effect = "okta" ->
           Item("snapshot", [goal |-> ObservedGoal(k), supported |-> k.status \in Supported,
                             elapsed |-> TRUE], ObservedFacets(k), {})
      [] k.effect = "github" -> GitHubRead(ObservedGoal(k), ObservedFacets(k))
      [] OTHER ->
           Item("snapshot",
                [found |-> Evaluation(ObservedGoal(k),
                              k.payment.status \in {"processing", "requires_action"},
                              k.payment.status = "canceled", FALSE, ObservedMine(k)),
                 elapsed |-> TRUE],
                ObservedFacets(k), {})

ObservedTransport(transport) ==
    CASE transport = "ambiguous" -> TransportItem
      [] transport = "success"   -> ResponseItem
      [] transport = "definitely_not_sent" ->
           Item("transport", Mute, Facets("transport_error", "corroborative", "effect_absent",
                                          "attributed"), {})

NormalizeObservation(r) ==
    <<ObservedTransport(r.transport)>> \o
    (IF r.read THEN <<ObservedSnapshot(r.case)>> ELSE <<>>)

(* deriveShadowSemantics.                                                  *)
DeriveShadowSemantics(r) ==
    LET o == Outcome(r.case.effect, NormalizeObservation(r), r.transport,
                     IF r.retried THEN 1 ELSE 0)
    IN  [state |-> o.state, decision |-> o.decision,
         retryBlocked |-> r.retried /\ o.decision.retry # "allowed",
         continuationBlocked |-> r.continued /\ o.decision.continuation # "allowed"]

-----------------------------------------------------------------------------
(* The same facts in the ledger of an action under control, whose adapter  *)
(* reads them when the window is over.                                     *)
AdapterSnapshot(k) ==
    CASE k.effect = "okta" ->
           OktaSnapshot([status |-> k.status, moving |-> FALSE, changed |-> 0], k.desired,
                        TRUE, {})
      [] k.effect = "github" ->
           GitHubSnapshotOf(/\ Effective(k) = k.desired
                            /\ IF k.desired = 0 THEN k.direct = 0 ELSE k.direct # 0)
      [] OTHER -> StripeSnapshot(k.effect, View(k), TRUE, {})

ControlledLedger(r) ==
    (CASE r.transport = "success"   -> <<ResponseItem>>
       [] r.transport = "ambiguous" -> <<TransportItem>>
       [] r.transport = "definitely_not_sent" -> <<TransportItem, NotSentItem>>)
    \o (IF r.read THEN <<AdapterSnapshot(r.case)>> ELSE <<>>)

Controlled(r) == Outcome(r.case.effect, ControlledLedger(r), r.transport, 1)

-----------------------------------------------------------------------------
Reports == [case : Cases, transport : Transports, read : BOOLEAN,
            retried : BOOLEAN, continued : BOOLEAN]

(* What stands for any, where nothing is evaluated.                        *)
SomeReport == [case |-> [effect |-> "okta", status |-> "ACTIVE", desired |-> "ACTIVE"],
               transport |-> "success", read |-> TRUE, retried |-> FALSE,
               continued |-> FALSE]

Init ==
    /\ report \in Reports
    /\ verdict = Unevaluated

(* recordShadowEvaluation.                                                 *)
Evaluate ==
    /\ verdict = Unevaluated
    /\ verdict' = DeriveShadowSemantics(report)
    /\ UNCHANGED report

Next == Evaluate

-----------------------------------------------------------------------------
(* The wanted role is held, and only through a team: the adapter wants a   *)
(* direct one, too, and Shadow does not.                                   *)
HeldByInheritance(k) ==
    k.effect = "github" /\ k.direct = 0 /\ k.desired # 0 /\ k.through = k.desired

(* What Shadow says Enforced would have blocked it would have blocked, and *)
(* nothing else, although Shadow makes its evidence of what a caller tells *)
(* it and the adapters make theirs of what they read.                      *)
ShadowAgrees ==
    LET c == Controlled(report) IN
    verdict # Unevaluated /\ ~HeldByInheritance(report.case) =>
        /\ verdict.retryBlocked = (report.retried /\ c.decision.retry # "allowed")
        /\ verdict.continuationBlocked =
              (report.continued /\ c.decision.continuation # "allowed")
        /\ report.case.effect \in {"okta", "github"} =>
              verdict.state = c.state /\ verdict.decision = c.decision
=============================================================================
