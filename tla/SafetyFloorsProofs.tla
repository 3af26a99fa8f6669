------------------------- MODULE SafetyFloorsProofs -------------------------
(***************************************************************************)
(* Lemmas about the safety floors, for every ledger, spec declaration and  *)
(* proposal.  A decision is Settled for a state when no floor would change *)
(* it; one pass of the control floors settles it (FloorSettles), the       *)
(* dispatch-boundary floor keeps it settled (BoundaryKeepsSettled), and    *)
(* the epistemic floor is idempotent (EpistemicIdempotent), so the second  *)
(* pass is a fixed point (SettledIsFixed).                                 *)
(***************************************************************************)
EXTENDS SafetyFloors, TLAPS

(* What the floors of each state demand of a decision.                     *)
Fits(state, d, spec) ==
    /\ state = "verified" => d.retry = "forbidden" /\ d.primary # "retry"
    /\ state = "pending" =>
         d.retry = "forbidden" /\ d.continuation = "blocked" /\ d.primary \in {"hold", "escalate"}
    /\ state = "unprovable" =>
         d.retry # "allowed" /\ d.continuation = "blocked" /\ d.primary \in {"hold", "escalate"}
    /\ state = "satisfied_unattributed" =>
         /\ d.retry = "forbidden" /\ d.primary # "retry"
         /\ d.continuation = "allowed" => spec.goal_sufficient
    /\ state = "not_applied" =>
         /\ d.retry = "allowed" => spec.retry_safe
         /\ d.continuation = "blocked"

Settled(state, d, spec, evidence) ==
    /\ d.retry = "allowed" => \E e \in Active(evidence) : e.strength # "transport_only"
    /\ ~spec.compensation => d.primary # "compensate" /\ d.recovery # "compensate"
    /\ Fits(state, d, spec)
    /\ d.primary = "retry" => d.retry = "allowed"
    /\ d.primary = "continue" => d.continuation # "blocked"
    /\ d.recheck => state = "pending"

(* No clamp grants a retry, a continuation, or a compensation or retry     *)
(* directive that the decision it is applied to does not hold.             *)
Tightens(d, p) ==
    /\ d.retry = "allowed" => p.retry = "allowed"
    /\ d.continuation = "allowed" => p.continuation = "allowed"
    /\ d.primary = "compensate" => p.primary = "compensate"
    /\ d.primary = "retry" => p.primary = "retry"

(* Citing what survived the first sanitation cites the same records.       *)
LEMMA KeptCited ==
    ASSUME NEW refs, NEW evidence
    PROVE  Cited({e.ref : e \in Cited(refs, evidence)}, evidence) = Cited(refs, evidence)
BY DEF Cited

(* The epistemic floor yields an effect state, and flooring it again       *)
(* changes nothing.                                                        *)
LEMMA EpistemicIdempotent ==
    ASSUME NEW proposed \in EffectStates, NEW refs, NEW evidence,
           NEW kept, Cited(kept, evidence) = Cited(refs, evidence)
    PROVE  /\ EpistemicFloor(proposed, refs, evidence) \in EffectStates
           /\ EpistemicFloor(EpistemicFloor(proposed, refs, evidence), kept, evidence)
                = EpistemicFloor(proposed, refs, evidence)
BY DEF EpistemicFloor, EffectStates

(* C6 keeps the type and only tightens; a retry it leaves allowed rests on *)
(* more than transport evidence.                                           *)
LEMMA C6Settles ==
    ASSUME NEW d \in ControlDecision, NEW evidence
    PROVE  LET r == C6(d, evidence) IN
           /\ r \in ControlDecision
           /\ Tightens(r, d)
           /\ r.retry = "allowed" => \E e \in Active(evidence) : e.strength # "transport_only"
BY DEF C6, HoldIfRetry, Tightens, ControlDecision, Primaries, Retries, Continuations, Recoveries

(* C7 keeps the type, the retry, and only tightens; an unsupported         *)
(* compensation is gone after it.                                          *)
LEMMA C7Settles ==
    ASSUME NEW d \in ControlDecision, NEW spec
    PROVE  LET r == C7(d, spec) IN
           /\ r \in ControlDecision
           /\ Tightens(r, d)
           /\ r.retry = d.retry
           /\ ~spec.compensation => r.primary # "compensate" /\ r.recovery # "compensate"
BY DEF C7, Tightens, ControlDecision, Primaries, Retries, Continuations, Recoveries

(* The floors of a state keep the type, only tighten, give what the state  *)
(* demands, and bring back no compensation.                                *)
LEMMA PerStateFits ==
    ASSUME NEW state \in EffectStates, NEW d \in ControlDecision, NEW spec
    PROVE  /\ PerState(state, d, spec) \in ControlDecision
           /\ Tightens(PerState(state, d, spec), d)
           /\ Fits(state, PerState(state, d, spec), spec)
           /\ PerState(state, d, spec).recovery = "compensate" => d.recovery = "compensate"
<1>. DEFINE Goal == /\ PerState(state, d, spec) \in ControlDecision
                    /\ Tightens(PerState(state, d, spec), d)
                    /\ Fits(state, PerState(state, d, spec), spec)
                    /\ PerState(state, d, spec).recovery = "compensate" =>
                         d.recovery = "compensate"
<1>. USE DEF PerState, Tightens, Fits, ControlDecision, Primaries, Retries, Continuations,
             Recoveries
<1>1. state = "verified" => Goal
  BY DEF C1
<1>2. state = "pending" => Goal
  BY DEF C2
<1>3. state = "unprovable" => Goal
  BY DEF C3
<1>4. state = "satisfied_unattributed" => Goal
  BY DEF C4
<1>5. state = "not_applied" => Goal
  BY DEF C5, HoldIfRetry
<1>6. state = "compensated" => Goal
  OBVIOUS
<1>7. QED
  <2>. HIDE DEF Goal
  <2>1. Goal
    BY <1>1, <1>2, <1>3, <1>4, <1>5, <1>6 DEF EffectStates
  <2>2. QED
    BY <2>1 DEF Goal

(* A decision that fits its state is left alone by the floors of the       *)
(* state.                                                                  *)
LEMMA FitsIsFixed ==
    ASSUME NEW state \in EffectStates, NEW d \in ControlDecision, NEW spec,
           Fits(state, d, spec)
    PROVE  PerState(state, d, spec) = d
<1>. USE DEF PerState, Fits, ControlDecision
<1>1. state = "verified" => PerState(state, d, spec) = d
  BY DEF C1
<1>2. state = "pending" => PerState(state, d, spec) = d
  BY DEF C2
<1>3. state = "unprovable" => PerState(state, d, spec) = d
  BY DEF C3
<1>4. state = "satisfied_unattributed" => PerState(state, d, spec) = d
  BY DEF C4
<1>5. state = "not_applied" => PerState(state, d, spec) = d
  BY DEF C5
<1>6. state = "compensated" => PerState(state, d, spec) = d
  OBVIOUS
<1>7. QED
  <2>. HIDE DEF PerState
  <2>1. QED
    BY <1>1, <1>2, <1>3, <1>4, <1>5, <1>6 DEF EffectStates

(* C8 to C10 keep the type, only tighten, still fit the state, and leave a *)
(* directive, dispositions and recheck time that agree.                    *)
LEMMA ConsistencySettles ==
    ASSUME NEW state \in EffectStates, NEW d \in ControlDecision, NEW spec,
           Fits(state, d, spec)
    PROVE  LET r == C10(C9(C8(d, state), state), state) IN
           /\ r \in ControlDecision
           /\ Tightens(r, d)
           /\ r.retry = d.retry /\ r.recovery = d.recovery
           /\ Fits(state, r, spec)
           /\ r.primary = "retry" => r.retry = "allowed"
           /\ r.primary = "continue" => r.continuation # "blocked"
           /\ r.recheck => state = "pending"
<1>. USE DEF Tightens, Fits, HoldOrEscalate, ControlDecision, Primaries, Retries,
             Continuations, Recoveries
<1>1. LET r == C8(d, state) IN
      /\ r \in ControlDecision /\ Tightens(r, d) /\ Fits(state, r, spec)
      /\ r.retry = d.retry /\ r.recovery = d.recovery
      /\ r.primary = "retry" => r.retry = "allowed"
  BY DEF C8
<1>2. ASSUME NEW e \in ControlDecision, Fits(state, e, spec), e.primary = "retry" => e.retry = "allowed"
      PROVE  LET r == C9(e, state) IN
             /\ r \in ControlDecision /\ Tightens(r, e) /\ Fits(state, r, spec)
             /\ r.retry = e.retry /\ r.recovery = e.recovery
             /\ r.primary = "retry" => r.retry = "allowed"
             /\ r.primary = "continue" => r.continuation # "blocked"
  BY <1>2 DEF C9
<1>3. ASSUME NEW e \in ControlDecision
      PROVE  LET r == C10(e, state) IN
             /\ r \in ControlDecision
             /\ r.primary = e.primary /\ r.retry = e.retry
             /\ r.continuation = e.continuation /\ r.recovery = e.recovery
             /\ r.recheck => state = "pending"
  BY DEF C10
<1>. DEFINE f == C8(d, state)
            g == C9(f, state)
            r == C10(g, state)
<1>4. /\ f \in ControlDecision /\ Tightens(f, d) /\ Fits(state, f, spec)
      /\ f.retry = d.retry /\ f.recovery = d.recovery
      /\ f.primary = "retry" => f.retry = "allowed"
  BY <1>1
<1>. HIDE DEF f
<1>5. /\ g \in ControlDecision /\ Tightens(g, f) /\ Fits(state, g, spec)
      /\ g.retry = f.retry /\ g.recovery = f.recovery
      /\ g.primary = "retry" => g.retry = "allowed"
      /\ g.primary = "continue" => g.continuation # "blocked"
  BY <1>2, <1>4
<1>. HIDE DEF g
<1>6. /\ r \in ControlDecision
      /\ r.primary = g.primary /\ r.retry = g.retry
      /\ r.continuation = g.continuation /\ r.recovery = g.recovery
      /\ r.recheck => state = "pending"
  BY <1>3, <1>5
<1>. HIDE DEF r
<1>7. /\ Tightens(r, d) /\ Fits(state, r, spec)
      /\ r.retry = d.retry /\ r.recovery = d.recovery
      /\ r.primary = "retry" => r.retry = "allowed"
      /\ r.primary = "continue" => r.continuation # "blocked"
  BY <1>4, <1>5, <1>6
<1>8. QED
  BY <1>6, <1>7 DEF f, g, r

(* One pass of the control floors settles a decision and only tightens it. *)
LEMMA FloorSettles ==
    ASSUME NEW state \in EffectStates, NEW d \in ControlDecision, NEW spec, NEW evidence
    PROVE  LET r == ControlFloor(state, d, spec, evidence) IN
           /\ r \in ControlDecision
           /\ Tightens(r, d)
           /\ Settled(state, r, spec, evidence)
<1>. DEFINE a == C6(d, evidence)
            b == C7(a, spec)
            c == PerState(state, b, spec)
            r == C10(C9(C8(c, state), state), state)
<1>1. /\ a \in ControlDecision /\ Tightens(a, d)
      /\ a.retry = "allowed" => \E e \in Active(evidence) : e.strength # "transport_only"
  BY C6Settles
<1>2. /\ b \in ControlDecision /\ Tightens(b, a) /\ b.retry = a.retry
      /\ ~spec.compensation => b.primary # "compensate" /\ b.recovery # "compensate"
  BY <1>1, C7Settles
<1>3. /\ c \in ControlDecision /\ Tightens(c, b) /\ Fits(state, c, spec)
      /\ c.recovery = "compensate" => b.recovery = "compensate"
  BY <1>2, PerStateFits
<1>4. /\ r \in ControlDecision /\ Tightens(r, c) /\ Fits(state, r, spec)
      /\ r.retry = c.retry /\ r.recovery = c.recovery
      /\ r.primary = "retry" => r.retry = "allowed"
      /\ r.primary = "continue" => r.continuation # "blocked"
      /\ r.recheck => state = "pending"
  BY <1>3, ConsistencySettles
<1>5. ControlFloor(state, d, spec, evidence) = r
  BY DEF ControlFloor
<1>. HIDE DEF a, b, c, r
<1>6. Tightens(r, d) /\ Settled(state, r, spec, evidence)
  BY <1>1, <1>2, <1>3, <1>4 DEF Tightens, Settled
<1>7. QED
  BY <1>4, <1>5, <1>6

(* No floor changes a settled decision.                                    *)
LEMMA SettledIsFixed ==
    ASSUME NEW state \in EffectStates, NEW d \in ControlDecision, NEW spec, NEW evidence,
           Settled(state, d, spec, evidence)
    PROVE  ControlFloor(state, d, spec, evidence) = d
<1>1. C6(d, evidence) = d
  BY DEF C6, Settled
<1>2. C7(d, spec) = d
  BY DEF C7, Settled
<1>3. C8(d, state) = d /\ C9(d, state) = d
  BY DEF C8, C9, Settled
<1>4. C10(d, state) = d
  BY DEF C10, Settled, ControlDecision
<1>5. PerState(state, d, spec) = d
  BY FitsIsFixed DEF Settled
<1>6. QED
  BY <1>1, <1>2, <1>3, <1>4, <1>5 DEF ControlFloor

(* The dispatch-boundary floor keeps a settled decision settled, and only  *)
(* tightens it.                                                            *)
LEMMA BoundaryKeepsSettled ==
    ASSUME NEW state \in EffectStates, NEW d \in ControlDecision, NEW spec, NEW evidence,
           NEW status, NEW idempotent, NEW attempts,
           Settled(state, d, spec, evidence)
    PROVE  LET r == ApplyDispatchBoundaryFloor(d, status, idempotent, attempts) IN
           /\ r \in ControlDecision
           /\ Tightens(r, d)
           /\ Settled(state, r, spec, evidence)
<1>. DEFINE r == ApplyDispatchBoundaryFloor(d, status, idempotent, attempts)
<1>. DEFINE held == [d EXCEPT !.retry = "forbidden", !.primary = HoldIfRetry(d)]
<1>0. /\ held \in ControlDecision
      /\ held.retry = "forbidden" /\ held.continuation = d.continuation
      /\ held.recovery = d.recovery /\ held.recheck = d.recheck
      /\ held.primary # "retry" /\ held.primary \in {d.primary, "hold"}
      /\ r \in {d, held}
  BY DEF ApplyDispatchBoundaryFloor, HoldIfRetry, ControlDecision, Primaries, Retries
<1>. HIDE DEF r, held
<1>1. /\ r \in ControlDecision /\ Tightens(r, d)
      /\ r = d \/ (r.retry = "forbidden" /\ r.primary # "retry")
      /\ r.retry = d.retry \/ r.retry = "forbidden"
      /\ r.continuation = d.continuation /\ r.recovery = d.recovery /\ r.recheck = d.recheck
      /\ r.primary = d.primary \/ r.primary = "hold"
  BY <1>0 DEF Tightens
<1>2. Settled(state, r, spec, evidence)
  BY <1>1 DEF Settled, Fits
<1>3. QED
  BY <1>1, <1>2 DEF r
-----------------------------------------------------------------------------
(* What every derivation returns.                                          *)
LEMMA DeriveFacts ==
    ASSUME NEW spec \in EffectSpec, NEW proposed \in EffectStates, NEW refs,
           NEW decision \in ControlDecision, NEW evidence, NEW status, NEW attempts
    PROVE  LET floored == ApplySafetyFloors(spec, proposed, refs, decision, evidence)
               d == ApplyDispatchBoundaryFloor(floored.decision, status, spec.idempotent, attempts)
               kept == {e.ref : e \in Cited(refs, evidence)}
           IN  /\ floored.state \in EffectStates
               /\ floored.state = EpistemicFloor(floored.state, kept, evidence)
               /\ d \in ControlDecision
               /\ Tightens(d, decision)
               /\ Settled(floored.state, d, spec, evidence)
<1>. DEFINE kept == {e.ref : e \in Cited(refs, evidence)}
            state == EpistemicFloor(proposed, refs, evidence)
            once == ControlFloor(state, decision, spec, evidence)
            twice == ControlFloor(state, once, spec, evidence)
            floored == ApplySafetyFloors(spec, proposed, refs, decision, evidence)
            d == ApplyDispatchBoundaryFloor(floored.decision, status, spec.idempotent, attempts)
<1>1. Cited(kept, evidence) = Cited(refs, evidence)
  BY KeptCited
<1>2. state \in EffectStates /\ EpistemicFloor(state, kept, evidence) = state
  <2>. HIDE DEF kept
  <2>. QED  BY <1>1, EpistemicIdempotent
<1>3. once \in ControlDecision /\ Tightens(once, decision) /\ Settled(state, once, spec, evidence)
  BY <1>2, FloorSettles
<1>4. twice \in ControlDecision /\ Tightens(twice, once) /\ Settled(state, twice, spec, evidence)
  BY <1>2, <1>3, FloorSettles
<1>5. \/ floored = [state |-> state, decision |-> once]
      \/ floored = [state |-> state, decision |-> twice]
  <2>. HIDE DEF kept
  <2>1. FloorOnce(spec, proposed, refs, decision, evidence) = [state |-> state, decision |-> once]
    BY DEF FloorOnce
  <2>2. FloorOnce(spec, state, kept, once, evidence) = [state |-> state, decision |-> twice]
    BY <1>2 DEF FloorOnce
  <2>3. QED
    BY <2>1, <2>2 DEF ApplySafetyFloors, kept
<1>. HIDE DEF state, once, twice, floored, kept
<1>6. /\ floored.state = state
      /\ floored.decision \in ControlDecision
      /\ Tightens(floored.decision, decision)
      /\ Settled(state, floored.decision, spec, evidence)
  BY <1>3, <1>4, <1>5 DEF Tightens
<1>7. d \in ControlDecision /\ Tightens(d, floored.decision) /\ Settled(state, d, spec, evidence)
  BY <1>2, <1>6, BoundaryKeepsSettled
<1>. HIDE DEF d
<1>8. Tightens(d, decision)
  BY <1>6, <1>7 DEF Tightens
<1>9. QED
  BY <1>2, <1>6, <1>7, <1>8 DEF floored, d, kept

(* Flooring returns an effect state and a control decision.                *)
LEMMA FlooredType ==
    ASSUME NEW spec, NEW proposed \in EffectStates, NEW refs,
           NEW decision \in ControlDecision, NEW evidence
    PROVE  ApplySafetyFloors(spec, proposed, refs, decision, evidence)
             \in [state : EffectStates, decision : ControlDecision]
<1>. DEFINE kept == {e.ref : e \in Cited(refs, evidence)}
            state == EpistemicFloor(proposed, refs, evidence)
            once == ControlFloor(state, decision, spec, evidence)
            twice == ControlFloor(state, once, spec, evidence)
<1>1. state \in EffectStates /\ EpistemicFloor(state, kept, evidence) = state
  <2>1. Cited(kept, evidence) = Cited(refs, evidence)
    BY KeptCited
  <2>. HIDE DEF kept
  <2>2. QED  BY <2>1, EpistemicIdempotent
<1>2. once \in ControlDecision /\ twice \in ControlDecision
  BY <1>1, FloorSettles
<1>3. ApplySafetyFloors(spec, proposed, refs, decision, evidence)
        \in {[state |-> state, decision |-> once], [state |-> state, decision |-> twice]}
  <2>. HIDE DEF kept
  <2>1. FloorOnce(spec, proposed, refs, decision, evidence) = [state |-> state, decision |-> once]
    BY DEF FloorOnce
  <2>2. FloorOnce(spec, state, kept, once, evidence) = [state |-> state, decision |-> twice]
    BY <1>1 DEF FloorOnce
  <2>3. QED
    BY <2>1, <2>2 DEF ApplySafetyFloors, kept
<1>. HIDE DEF state, once, twice
<1>4. QED
  BY <1>1, <1>2, <1>3

(* The floors never strengthen a claim.                                    *)
LEMMA FlooredClaim ==
    ASSUME NEW spec, NEW proposed, NEW refs, NEW decision, NEW evidence,
           NEW state \in {"verified", "compensated", "not_applied"},
           ApplySafetyFloors(spec, proposed, refs, decision, evidence).state = state
    PROVE  proposed = state
<1>1. \A p, r : EpistemicFloor(p, r, evidence) = state => p = state
  BY DEF EpistemicFloor
<1>2. \A p, r, d : FloorOnce(spec, p, r, d, evidence).state = EpistemicFloor(p, r, evidence)
  BY DEF FloorOnce
<1>3. QED
  BY <1>1, <1>2 DEF ApplySafetyFloors

(* What flooring returns: no floor would change it, and it is no wider     *)
(* than what was proposed.                                                 *)
LEMMA FlooredFacts ==
    ASSUME NEW spec \in EffectSpec, NEW proposed \in EffectStates, NEW refs,
           NEW decision \in ControlDecision, NEW evidence
    PROVE  LET floored == ApplySafetyFloors(spec, proposed, refs, decision, evidence)
               kept == {e.ref : e \in Cited(refs, evidence)}
           IN  /\ floored.state \in EffectStates
               /\ floored.state = EpistemicFloor(floored.state, kept, evidence)
               /\ floored.decision \in ControlDecision
               /\ Tightens(floored.decision, decision)
               /\ Settled(floored.state, floored.decision, spec, evidence)
<1>. DEFINE floored == ApplySafetyFloors(spec, proposed, refs, decision, evidence)
<1>1. ApplyDispatchBoundaryFloor(floored.decision, "definitely_not_sent", spec.idempotent, 0)
        = floored.decision
  BY DEF ApplyDispatchBoundaryFloor, AttemptBudget
<1>2. LET d == ApplyDispatchBoundaryFloor(floored.decision, "definitely_not_sent",
                                         spec.idempotent, 0)
           kept == {e.ref : e \in Cited(refs, evidence)}
      IN  /\ floored.state \in EffectStates
          /\ floored.state = EpistemicFloor(floored.state, kept, evidence)
          /\ d \in ControlDecision
          /\ Tightens(d, decision)
          /\ Settled(floored.state, d, spec, evidence)
  BY DeriveFacts
<1>. HIDE DEF floored
<1>3. QED
  BY <1>1, <1>2, Zenon DEF floored

(* The dispatch-boundary floor returns a control decision.                 *)
LEMMA BoundaryFloorType ==
    ASSUME NEW d \in ControlDecision, NEW status, NEW idempotent, NEW attempts
    PROVE  ApplyDispatchBoundaryFloor(d, status, idempotent, attempts) \in ControlDecision
BY DEF ApplyDispatchBoundaryFloor, HoldIfRetry, ControlDecision, Primaries, Retries
=============================================================================
