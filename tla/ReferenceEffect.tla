-------------------------- MODULE ReferenceEffect ---------------------------
(***************************************************************************)
(* The reference effect (the fake provider and its EffectSpec): provider   *)
(* idempotency by operation id, attributable reads and a compensation.  It *)
(* ignores supersession, as its assess does.                               *)
(***************************************************************************)
EXTENDS EvidenceLedger

ReferenceSpec == [compensation |-> TRUE, goal_sufficient |-> TRUE,
                  retry_safe |-> TRUE, idempotent |-> TRUE]

(* Defective form: whatever is there is taken for the action's own.        *)
ReferenceReadUnattributed(resource) ==
    IF resource.version = 0 THEN "none_found"
    ELSE IF resource.present THEN "applied" ELSE "other"

(* observe: resource is what the provider holds for the action's object.   *)
ReferenceRead(resource) ==
    CASE resource.version = 0              -> "none_found"
      [] resource.present /\ resource.mine  -> "applied"
      [] resource.present /\ ~resource.mine -> "preexisting"
      [] OTHER                             -> "other"

(* assess reads the evidence in ledger order and takes the first that      *)
(* decides: confirmed compensation, an attributed match, an unattributed   *)
(* match, absence.                                                         *)
ReferenceAssess(ledger) ==
    LET reports(fact) == {i \in DOMAIN ledger : ledger[i].fact = fact}
        first(fact)   == CHOOSE i \in reports(fact) : \A j \in reports(fact) : i <= j
        reads == reports("applied") \union reports("preexisting") \union reports("other")
    IN  CASE reports("undone") # {} ->
               Assessment("compensated", reads \union reports("undone"), FALSE)
          [] reports("undone") = {} /\ reports("applied") # {} ->
               Assessment("verified", {first("applied")}, FALSE)
          [] /\ reports("undone") = {} /\ reports("applied") = {}
             /\ reports("preexisting") # {} ->
               Assessment("satisfied_unattributed", {first("preexisting")}, FALSE)
          [] /\ reports("undone") = {} /\ reports("applied") = {}
             /\ reports("preexisting") = {} /\ reports("none_found") # {} ->
               Assessment("not_applied", {first("none_found")}, FALSE)
          [] OTHER ->
               Assessment("unprovable", reports("transport") \union reports("not_sent"), FALSE)

ReferenceDecide(a) ==
    CASE a.state = "verified"    -> Decision("continue", "forbidden", "allowed", "none", FALSE)
      [] a.state = "not_applied" -> Decision("retry", "allowed", "blocked", "none", FALSE)
      [] a.state = "satisfied_unattributed" ->
           Decision("do_not_retry", "forbidden", "allowed", "none", FALSE)
      [] a.state = "compensated" -> Decision("escalate", "forbidden", "blocked", "escalate", FALSE)
      [] OTHER -> Decision("escalate", "unknown", "blocked", "escalate", FALSE)

ReferenceOutcome(ledger) ==
    LET a == ReferenceAssess(ledger) IN Floored(ReferenceSpec, a, ReferenceDecide(a), ledger)
=============================================================================
