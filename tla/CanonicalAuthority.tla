------------------------- MODULE CanonicalAuthority -------------------------
(***************************************************************************)
(* The Autonomy Line: the most specific rule that matches an action says   *)
(* whether its agent may take it alone, and the rule's bounds may only     *)
(* narrow that to "a person decides".                                      *)
(*                                                                         *)
(* evaluateAuthority: eight layers, the line among them, each of which     *)
(* allows, holds or blocks a consequence.  What any of them blocks is      *)
(* blocked; what some hold one human exception may release, when it speaks *)
(* to every layer that holds.                                              *)
(***************************************************************************)
EXTENDS Integers, Sequences

CONSTANT Null        \* SQL's NULL, and what JavaScript leaves undefined

Dispositions == {"autonomous", "human", "disabled"}
Dimensions   == {"agent", "effect", "outcome_spec", "resource_class"}

Weight == [agent |-> 8, effect |-> 4, outcome_spec |-> 2, resource_class |-> 1]

RuleSpecificity(rule) ==
    LET weight(d) == IF rule[d] = Null THEN 0 ELSE Weight[d]
    IN  weight("agent") + weight("effect") + weight("outcome_spec") + weight("resource_class")

Matches(rule, request) == \A d \in Dimensions : rule[d] \in {Null, request[d]}

(* Of two rules equally specific the one with the smaller id decides.      *)
Decides(rule, rules) ==
    \A other \in rules :
        \/ RuleSpecificity(rule) > RuleSpecificity(other)
        \/ RuleSpecificity(rule) = RuleSpecificity(other) /\ rule.id <= other.id

Over(value, limit) == limit # Null /\ value > limit

(* No comparison with an undefined total holds.                            *)
OverInWindow(rule, request) ==
    /\ request.amount_in_window # Null
    /\ Over(request.amount_in_window + request.amount, rule.max_amount_per_window)

Missing(request, limit) == limit # Null /\ request.amount = Null

(* The bounds of an autonomous rule, in the order they are looked at.      *)
Bounds(rule, request) ==
    << <<"reversibility", rule.requires_reversible /\ request.reversible # TRUE>>,
       <<"open_incident", rule.requires_no_open_incident /\ request.open_incident>>,
       <<"outcome_not_satisfied",
         rule.requires_outcome_satisfied /\ request.outcome_satisfied # TRUE>>,
       <<"amount_per_action", Missing(request, rule.max_amount)>>,
       <<"currency_mismatch",
         /\ rule.max_amount # Null
         /\ rule.currency # Null /\ request.currency # rule.currency>>,
       <<"amount_per_action", request.amount # Null /\ Over(request.amount, rule.max_amount)>>,
       <<"action_count_window", Over(request.actions_in_window + 1, rule.max_actions_per_window)>>,
       <<"amount_window", Missing(request, rule.max_amount_per_window)>>,
       <<"amount_window", request.amount # Null /\ OverInWindow(rule, request)>> >>

Determination(disposition, decidedBy) == [disposition |-> disposition, decided_by |-> decidedBy]

EvaluateAutonomyLine(rules, request) ==
    LET applicable == {rule \in rules : Matches(rule, request)}
        rule       == CHOOSE r \in applicable : Decides(r, applicable)
        exceeded   == SelectSeq(Bounds(rule, request), LAMBDA bound : bound[2])
    IN  IF applicable = {} THEN Determination("human", "no_rule_configured")
        ELSE IF rule.disposition # "autonomous" \/ exceeded = <<>>
             THEN Determination(rule.disposition, "rule_disposition")
             ELSE Determination("human", Head(exceeded)[1])

-----------------------------------------------------------------------------
Verdicts == {"satisfied", "unsatisfied", "indeterminate"}

Kinds == {"continuation_despite_unsatisfied_outcome",
          "continuation_despite_indeterminate_outcome",
          "amount_above_autonomy_line", "action_requiring_human_approval"}

When(condition, disposition) == IF condition THEN disposition ELSE "allowed"

AutonomyLayer(determination) ==
    CASE determination.disposition = "disabled" -> "blocked"
      [] determination.disposition = "human"    -> "held"
      [] OTHER                                  -> "allowed"

(* A dependency is on the verdict of an outcome, or on none (Null).        *)
Unmet(dependency) ==
    dependency # Null /\ dependency.verdict # "satisfied" /\ ~dependency.grant_valid

Layers(request, autonomy) ==
    << <<"effectspec_safety",
         When(request.primary = "escalate" \/ request.continuation = "blocked", "blocked")>>,
       <<"customer_policy",
         When(~request.automatic_continuation /\ request.continuation = "allowed", "held")>>,
       <<"freeze", When(request.frozen, "blocked")>>,
       <<"blast_radius", When(~request.in_budget, "blocked")>>,
       <<"rollout", When(~request.controlled, "held")>>,
       <<"autonomy_line", AutonomyLayer(autonomy)>>,
       <<"outcome_dependency", When(Unmet(request.dependency), "held")>> >>

(* applicableException: the amount one reaches up to its own ceiling, and  *)
(* speaks only to a line that held it for an amount.                       *)
Applies(exception, request, autonomy) ==
    CASE exception.authorizes = "amount_above_autonomy_line" ->
           /\ autonomy.disposition = "human"
           /\ autonomy.decided_by \in {"amount_per_action", "amount_window"}
           /\ exception.max_amount # Null /\ request.amount # Null
           /\ exception.currency \in {Null, request.currency}
           /\ request.amount <= exception.max_amount
      [] exception.authorizes = "action_requiring_human_approval" ->
           autonomy.disposition = "human"
      [] exception.authorizes = "continuation_despite_unsatisfied_outcome" ->
           Unmet(request.dependency) /\ request.dependency.verdict = "unsatisfied"
      [] exception.authorizes = "continuation_despite_indeterminate_outcome" ->
           Unmet(request.dependency) /\ request.dependency.verdict = "indeterminate"

(* Half an authorization is not an authorization.                          *)
Releases(exception, held) ==
    IF exception.authorizes \in {"amount_above_autonomy_line", "action_requiring_human_approval"}
    THEN held = {"autonomy_line"}
    ELSE held = {"outcome_dependency"}

(* The exceptions come newest first, and the first that applies is it.     *)
EvaluateAuthority(rules, request) ==
    LET autonomy   == EvaluateAutonomyLine(rules, request)
        layers     == Layers(request, autonomy)
        answer(d)  == {layers[i][1] : i \in {j \in DOMAIN layers : layers[j][2] = d}}
        applicable == SelectSeq(request.exceptions,
                                LAMBDA e : Applies(e, request, autonomy))
    IN  IF answer("blocked") # {} THEN "blocked"
        ELSE IF \/ answer("held") = {}
                \/ applicable # <<>> /\ Releases(Head(applicable), answer("held"))
             THEN "allowed" ELSE "held"
=============================================================================
