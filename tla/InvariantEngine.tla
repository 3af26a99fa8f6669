--------------------------- MODULE InvariantEngine ---------------------------
(***************************************************************************)
(* The verdict on an outcome: a closed set of operators over the current   *)
(* world facts, each true, false or indeterminate.  A fact has a subject,  *)
(* a provider, a property, a typed value, the time it was observed and the *)
(* time it is fresh until, and is authoritative or only corroborates.      *)
(***************************************************************************)
EXTENDS Integers, FiniteSets

CONSTANT Null

Results  == {"true", "false", "indeterminate"}
Verdicts == {"satisfied", "unsatisfied", "indeterminate"}
Quantified == {"all", "any", "count", "zero"}

Holds(condition) == IF condition THEN "true" ELSE "false"

MaxAge(invariant, context) ==
    IF invariant.max_age = Null THEN context.freshness ELSE invariant.max_age

Age(fact, context) == context.now - fact.observed_at

(* selectFact: the facts an invariant may rest on.                         *)
Usable(invariant, subject, context) ==
    {fact \in context.facts :
        /\ fact.subject = subject /\ fact.property = invariant.property
        /\ Age(fact, context) <= MaxAge(invariant, context)
        /\ fact.fresh_until > context.now
        /\ fact.authoritative \/ invariant.accepts_corroborative}

(* Authoritative sources that disagree are no tie to be broken by recency. *)
Contradicted(facts) == Cardinality({f.value : f \in {g \in facts : g.authoritative}}) > 1

(* Of several newest, any: they agree, unless some only corroborate.       *)
Newest(facts) == CHOOSE f \in facts : \A g \in facts : g.observed_at <= f.observed_at

(* compare: values of different types are not unequal but incomparable.    *)
SameType(left, right) == left.type = right.type

Single(invariant, operator, subject, context) ==
    LET usable == Usable(invariant, subject, context)
        fact   == Newest(usable)
    IN  IF usable = {} \/ Contradicted(usable) THEN "indeterminate"
        ELSE IF operator = "exists" THEN Holds(fact.value.type # "absent")
        ELSE IF operator = "freshness" THEN Holds(Age(fact, context) <= MaxAge(invariant, context))
        ELSE IF invariant.expected = Null \/ ~SameType(fact.value, invariant.expected)
        THEN "indeterminate"
        ELSE CASE operator = "equals"     -> Holds(fact.value = invariant.expected)
               [] operator = "not_equals" -> Holds(fact.value # invariant.expected)
               [] OTHER                   -> "indeterminate"

(* evaluateQuantified: every member is asked the unquantified question.    *)
MemberOperator(invariant) == IF invariant.expected = Null THEN "exists" ELSE "equals"

OverMembers(invariant, context) ==
    LET answered(result) ==
            {m \in invariant.members :
                Single(invariant, MemberOperator(invariant), m, context) = result}
        unseen == answered("indeterminate") # {}
    IN  IF \/ invariant.members = {}
           \/ invariant.operator = "any" /\ ~invariant.any_is_safe
        THEN "indeterminate"
        ELSE CASE invariant.operator = "all" ->
                    IF answered("false") # {} THEN "false"
                    ELSE IF unseen THEN "indeterminate" ELSE "true"
               [] invariant.operator = "any" ->
                    IF answered("true") # {} THEN "true"
                    ELSE IF unseen THEN "indeterminate" ELSE "false"
               [] invariant.operator = "count" ->
                    IF unseen THEN "indeterminate"
                    ELSE Holds(Cardinality(answered("true")) = invariant.expected_count)
               [] invariant.operator = "zero" ->
                    IF unseen THEN "indeterminate" ELSE Holds(answered("true") = {})

EvaluateInvariant(invariant, context) ==
    CASE invariant.operator = "capability_present" ->
           Holds(invariant.capability \in context.capabilities)
      [] invariant.operator \in Quantified -> OverMembers(invariant, context)
      [] OTHER -> Single(invariant, invariant.operator, invariant.subject, context)

(* combineVerdict: false beats indeterminate.                              *)
CombineVerdict(results) ==
    IF "false" \in results THEN "unsatisfied"
    ELSE IF "indeterminate" \in results THEN "indeterminate" ELSE "satisfied"

EvaluateOutcome(required, context) ==
    CombineVerdict({EvaluateInvariant(invariant, context) : invariant \in required})

(* continuationFor.                                                        *)
ContinuationFor(verdict) == IF verdict = "satisfied" THEN "allowed" ELSE "hold"
=============================================================================
