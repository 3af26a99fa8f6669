----------------------------- MODULE OktaEffect ------------------------------
(***************************************************************************)
(* The Okta user suspension effect: what its adapter makes of a user it    *)
(* read, what its EffectSpec makes of the ledger, and what it decides.  A  *)
(* user has a lifecycle status, may be moving to another one, and the time *)
(* of the last change tells two visits of one status apart.                *)
(***************************************************************************)
EXTENDS ReadBack

OktaSpec == [compensation |-> FALSE, goal_sufficient |-> TRUE,
             retry_safe |-> TRUE, idempotent |-> FALSE]

Supported == {"ACTIVE", "SUSPENDED"}

(* commit: what is to be done is fixed by the status found then.           *)
OktaOperation(user, desired) ==
    IF user.status \in Supported /\ user.status # desired THEN "change" ELSE "observe_only"

OktaGoal(user, desired) == user.status = desired /\ ~user.moving

(* The lifecycle operation is legal from the other supported status only.  *)
OktaLegal(user, desired) == ~user.moving /\ user.status \in Supported \ {desired}

OktaSnapshot(user, desired, windowElapsed, held) ==
    LET goal      == OktaGoal(user, desired)
        supported == user.status \in Supported /\ ~user.moving
        absent    == ~goal /\ supported /\ windowElapsed
    IN  Item("snapshot",
             [user |-> user, goal |-> goal, supported |-> supported, elapsed |-> windowElapsed],
             Facets(IF absent THEN "absence_probe" ELSE "provider_read",
                    IF goal \/ absent THEN "authoritative" ELSE "circumstantial",
                    CASE goal -> "effect_present" [] absent -> "effect_absent"
                      [] OTHER -> "indeterminate",
                    IF goal THEN "unattributed" ELSE "indeterminate"),
             held)

OktaAssess(ledger) ==
    LET last == LastSnapshot(ledger)
        says == ledger[last].says
    IN  IF Obscured(ledger) THEN ObscuredAssessment(ledger)
        ELSE Assessment(CASE ~says.supported -> "unprovable"
                          [] says.supported /\ says.goal -> "satisfied_unattributed"
                          [] says.supported /\ ~says.goal ->
                               IF says.elapsed THEN "not_applied" ELSE "pending",
                        {last}, FALSE)

OktaDecide(a) ==
    CASE a.state = "satisfied_unattributed" ->
           Decision("do_not_retry", "forbidden", "allowed", "none", FALSE)
      [] a.state = "not_applied" -> Decision("retry", "allowed", "blocked", "none", FALSE)
      [] a.state = "pending"     -> Decision("hold", "forbidden", "blocked", "none", a.recheck)
      [] OTHER -> Decision("escalate", "forbidden", "blocked", "escalate", FALSE)
=============================================================================
