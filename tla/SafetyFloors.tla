---------------------------- MODULE SafetyFloors ----------------------------
(***************************************************************************)
(* The core safety floors: the clamps the engine applies to what an        *)
(* EffectSpec proposes, given the action's evidence ledger, and the        *)
(* dispatch-boundary floor the runtime applies after them.  Evidence is a  *)
(* set of records with distinct refs; the spec's proposal (a state, the    *)
(* refs it cites, a control decision) is untrusted.                        *)
(***************************************************************************)
EXTENDS EffectModel

Superseded(evidence) == {e.supersedes : e \in evidence}

(* Evidence that no record of the ledger supersedes.                       *)
Active(evidence) == {e \in evidence : e.ref \notin Superseded(evidence)}

(* V1, V1b: cited refs that exist in this ledger and are current.          *)
Cited(refs, evidence) == {e \in Active(evidence) : e.ref \in refs}

Substantive(e) == e.strength \in {"authoritative", "corroborative"}
Authoritatively(e, disposition) ==
    e.strength = "authoritative" /\ e.disposition = disposition

(* E0: the current evidence contradicts itself.                            *)
Contradictory(evidence) ==
    LET active == Active(evidence) IN
    \/ /\ \E e \in active : Authoritatively(e, "effect_present")
       /\ \E e \in active : Authoritatively(e, "effect_absent")
    \/ /\ \E e \in active : e.disposition = "effect_present" /\ e.attribution = "attributed"
       /\ \E e \in active : e.disposition = "effect_present" /\ e.attribution = "unattributed"

(* E1: evidence that the effect exists and is this action's.               *)
AttributedPresence(cited) ==
    \E e \in cited : /\ Authoritatively(e, "effect_present")
                     /\ e.kind \in {"provider_read", "provider_event"}
                     /\ e.attribution = "attributed"

GoalStatePresence(cited) ==
    \E e \in cited : Substantive(e) /\ e.disposition = "effect_present"

(* E2: an explicit, authoritative assertion of absence.                    *)
AbsenceProof(cited) ==
    \E e \in cited : /\ Authoritatively(e, "effect_absent")
                     /\ e.kind \in {"absence_probe", "provider_read"}

(* E4: the compensation and the effect it undid are both evidenced.        *)
CompensationProof(cited) ==
    /\ \E e \in cited : e.kind = "compensation_confirmation" /\ Substantive(e)
    /\ \E e \in cited : /\ e.kind # "compensation_confirmation" /\ Substantive(e)
                        /\ e.attribution = "attributed"

(* Defective form: the evidence is never compared with itself.             *)
EpistemicFloorUncompared(proposed, refs, evidence) ==
    LET cited == Cited(refs, evidence) IN
    IF proposed = "not_applied"
    THEN IF AbsenceProof(cited) THEN "not_applied" ELSE "unprovable"
    ELSE IF proposed = "verified"
    THEN IF AttributedPresence(cited) THEN "verified"
         ELSE IF GoalStatePresence(cited) THEN "satisfied_unattributed" ELSE "unprovable"
    ELSE IF \/ proposed = "satisfied_unattributed" /\ ~GoalStatePresence(cited)
            \/ proposed = "compensated" /\ ~CompensationProof(cited)
    THEN "unprovable"
    ELSE proposed

(* E0-E5: the strongest claim the evidence supports, at most the proposed  *)
(* one.                                                                    *)
EpistemicFloor(proposed, refs, evidence) ==
    LET cited == Cited(refs, evidence)
        present == \E e \in Active(evidence) : Authoritatively(e, "effect_present")
    IN  IF proposed = "not_applied"
        THEN IF AbsenceProof(cited) /\ ~present THEN "not_applied" ELSE "unprovable"
        ELSE IF Contradictory(evidence) THEN "unprovable"
        ELSE IF proposed = "verified"
        THEN IF AttributedPresence(cited) THEN "verified"
             ELSE IF GoalStatePresence(cited) THEN "satisfied_unattributed"
             ELSE "unprovable"
        ELSE IF \/ proposed = "satisfied_unattributed" /\ ~GoalStatePresence(cited)
                \/ proposed = "compensated" /\ ~CompensationProof(cited)
        THEN "unprovable"
        ELSE proposed

-----------------------------------------------------------------------------
(* The control floors, each a clamp on a decision d.                       *)

HoldIfRetry(d) == IF d.primary = "retry" THEN "hold" ELSE d.primary

(* C6: transport evidence alone never authorises a retry.                  *)
C6(d, evidence) ==
    IF d.retry = "allowed" /\ \A e \in Active(evidence) : e.strength = "transport_only"
    THEN [d EXCEPT !.retry = "forbidden", !.primary = HoldIfRetry(d)] ELSE d

C7(d, spec) ==
    IF ~spec.compensation /\ (d.primary = "compensate" \/ d.recovery = "compensate")
    THEN [d EXCEPT !.primary = "escalate", !.recovery = "escalate"] ELSE d

C1(d) == [d EXCEPT !.retry = "forbidden",
                   !.primary = IF @ = "retry" THEN "continue" ELSE @]

C2(d) == [d EXCEPT !.retry = "forbidden", !.continuation = "blocked",
                   !.primary = IF @ \in {"hold", "escalate"} THEN @ ELSE "hold"]

C3(d) == [d EXCEPT !.retry = IF @ = "allowed" THEN "forbidden" ELSE @,
                   !.continuation = "blocked",
                   !.primary = IF @ \in {"hold", "escalate"} THEN @ ELSE "escalate",
                   !.recovery = IF d.primary \in {"hold", "escalate"} THEN @ ELSE "escalate"]

C4(d, spec) ==
    [d EXCEPT !.retry = "forbidden",
              !.primary = IF @ = "retry" THEN "do_not_retry" ELSE @,
              !.continuation = IF @ = "allowed" /\ ~spec.goal_sufficient
                               THEN "conditional" ELSE @]

C5(d, spec) ==
    LET unsafe == d.retry = "allowed" /\ ~spec.retry_safe IN
    [d EXCEPT !.retry = IF unsafe THEN "forbidden" ELSE @,
              !.primary = IF unsafe THEN HoldIfRetry(d) ELSE @,
              !.continuation = "blocked"]

PerState(state, d, spec) ==
    CASE state = "verified"               -> C1(d)
      [] state = "pending"                -> C2(d)
      [] state = "unprovable"             -> C3(d)
      [] state = "satisfied_unattributed" -> C4(d, spec)
      [] state = "not_applied"            -> C5(d, spec)
      [] OTHER                            -> d

(* Defective form: a continuation's word used for a directive.             *)
BlockOrEscalate(state) == IF state = "unprovable" THEN "escalate" ELSE "blocked"

HoldOrEscalate(state) == IF state = "unprovable" THEN "escalate" ELSE "hold"

(* Defective forms: the retry directive survives its disposition, or       *)
(* overrules it.                                                           *)
C8Dropped(d, state) == d
C8Widened(d, state) == IF d.primary = "retry" THEN [d EXCEPT !.retry = "allowed"] ELSE d

(* C8, C9: the directive never says what the dispositions forbid.          *)
C8(d, state) ==
    IF d.primary = "retry" /\ d.retry # "allowed"
    THEN [d EXCEPT !.primary = HoldOrEscalate(state)] ELSE d

C9(d, state) ==
    IF d.primary = "continue" /\ d.continuation = "blocked"
    THEN [d EXCEPT !.primary = HoldOrEscalate(state)] ELSE d

C10(d, state) == [d EXCEPT !.recheck = @ /\ state = "pending"]

(* Defective form: C8 and C9 before the clamps that make them necessary.   *)
ControlFloorReordered(state, d, spec, evidence) ==
    C10(PerState(state, C9(C8(C7(C6(d, evidence), spec), state), state), spec), state)

ControlFloor(state, d, spec, evidence) ==
    C10(C9(C8(PerState(state, C7(C6(d, evidence), spec), spec), state), state), state)

-----------------------------------------------------------------------------
(* One pass of applySafetyFloors.                                          *)
FloorOnce(spec, proposed, refs, decision, evidence) ==
    LET state == EpistemicFloor(proposed, refs, evidence) IN
    [state |-> state, decision |-> ControlFloor(state, decision, spec, evidence)]

(* applySafetyFloors: a changed state is floored once more, from the       *)
(* decision the first pass left and the refs it kept.                      *)
ApplySafetyFloors(spec, proposed, refs, decision, evidence) ==
    LET first == FloorOnce(spec, proposed, refs, decision, evidence)
        kept  == {e.ref : e \in Cited(refs, evidence)}
    IN  IF first.state = proposed THEN first
        ELSE FloorOnce(spec, first.state, kept, first.decision, evidence)

(* The retry floor of the dispatch boundary: without provider idempotency  *)
(* a retry needs durable knowledge that nothing was sent, and the budget   *)
(* of attempts is never exceeded.                                          *)
ApplyDispatchBoundaryFloor(d, status, idempotent, attempts) ==
    IF /\ d.retry = "allowed"
       /\ \/ ~idempotent /\ status # "definitely_not_sent"
          \/ attempts >= AttemptBudget
    THEN [d EXCEPT !.retry = "forbidden", !.primary = HoldIfRetry(d)] ELSE d
=============================================================================
