----------------------------- MODULE Derivation -----------------------------
(***************************************************************************)
(* The derivation of a resolution from the evidence ledger of one action,  *)
(* by an EffectSpec nobody trusts: it may propose any state, cite any refs *)
(* (unknown and superseded ones included) and propose any decision.  The   *)
(* ledger grows until the resolution is derived; the resolution keeps what *)
(* it was derived from.                                                    *)
(***************************************************************************)
EXTENDS SafetyFloors

CONSTANTS Specs,          \* the declarations of the specs registered
          Profiles,       \* what a record may say: EvidenceRecord without ref, supersedes
          Decisions,      \* the control decisions a spec may propose
          MaxEvidence     \* bound on the ledger

ASSUME SpecsAssumption == Specs \subseteq EffectSpec
ASSUME ProfilesAssumption ==
    Profiles \subseteq [kind : Kinds, strength : Strengths,
                        disposition : Dispositions, attribution : Attributions]
ASSUME DecisionsAssumption == Decisions \subseteq ControlDecision
ASSUME MaxEvidenceAssumption == MaxEvidence \in Nat

VARIABLES ledger,         \* the records appended, a set: the ref is the position
          length,         \* how many there are
          resolution      \* what was derived, or NoResolution

vars == <<ledger, length, resolution>>

NoResolution == [state |-> "none"]

Record(ref, profile, supersedes) ==
    [ref |-> ref, kind |-> profile.kind, strength |-> profile.strength,
     disposition |-> profile.disposition, attribution |-> profile.attribution,
     supersedes |-> supersedes]

Init == /\ ledger = {}
        /\ length = 0
        /\ resolution = NoResolution

(* A record is appended; what it supersedes must already exist.            *)
AppendEvidence(profile, supersedes) ==
    /\ length < MaxEvidence
    /\ supersedes \in 0..length
    /\ length' = length + 1
    /\ ledger' = ledger \union {Record(length + 1, profile, supersedes)}
    /\ UNCHANGED resolution

(* assess and decide by the spec, the safety floors, then the boundary     *)
(* floor over the dispatch facts of the runtime row.  Of its status only   *)
(* "definitely_not_sent" counts.                                           *)
Derive(spec, proposed, refs, decision, status, attempts) ==
    LET floored == ApplySafetyFloors(spec, proposed, refs, decision, ledger) IN
    /\ resolution' =
         [state    |-> floored.state,
          decision |-> ApplyDispatchBoundaryFloor(floored.decision, status,
                                                  spec.idempotent, attempts),
          cited    |-> {e.ref : e \in Cited(refs, ledger)},
          spec     |-> spec,
          proposed |-> decision]
    /\ UNCHANGED <<ledger, length>>

(* One derivation is enough: what it returns is a function of the ledger.  *)
Next ==
    /\ resolution = NoResolution
    /\ \/ \E profile \in Profiles, supersedes \in 0..MaxEvidence : AppendEvidence(profile, supersedes)
       \/ \E spec \in Specs, proposed \in EffectStates, refs \in SUBSET (1..MaxEvidence),
             decision \in Decisions, status \in {"attempted", "definitely_not_sent"},
             attempts \in 1..AttemptBudget :
             Derive(spec, proposed, refs, decision, status, attempts)

Spec == Init /\ [][Next]_vars

-----------------------------------------------------------------------------
(* The type of the ledger and of the resolution.                           *)
TypeOK ==
    /\ length \in Nat
    /\ ledger \subseteq EvidenceRecord
    /\ \/ resolution = NoResolution
       \/ resolution \in [state : EffectStates, decision : ControlDecision,
                          cited : SUBSET Nat, spec : EffectSpec, proposed : ControlDecision]

Derived == resolution # NoResolution

CitedNow == Cited(resolution.cited, ledger)

(* Certainty never exceeds evidence: whatever the spec proposed, a claim   *)
(* the engine signs is backed by current records of this ledger that say   *)
(* so, and no positive claim is signed over current authoritative evidence *)
(* that contradicts it (safetyFloors.ts, E0-E4 over V1-V1b).               *)
CertaintyIsEvidenced ==
    Derived =>
      /\ resolution.state = "verified" =>
           AttributedPresence(CitedNow) /\ ~Contradictory(ledger)
      /\ resolution.state = "satisfied_unattributed" =>
           GoalStatePresence(CitedNow) /\ ~Contradictory(ledger)
      /\ resolution.state = "compensated" =>
           CompensationProof(CitedNow) /\ ~Contradictory(ledger)
      /\ resolution.state = "not_applied" =>
           /\ AbsenceProof(CitedNow)
           /\ \A e \in Active(ledger) : ~Authoritatively(e, "effect_present")

(* What is authorised fits what is claimed: a retry only of an effect      *)
(* proven absent or undone, a dependent continuation only on a goal known  *)
(* to be reached, and a directive the dispositions do not contradict.  The *)
(* boundary floor runs after the others and must not undo them.            *)
AuthorizationFitsClaim ==
    Derived =>
      LET d == resolution.decision IN
      /\ d.retry = "allowed" => resolution.state \in {"not_applied", "compensated"}
      /\ d.continuation = "allowed" =>
           \/ resolution.state \in {"verified", "compensated"}
           \/ resolution.state = "satisfied_unattributed" /\ resolution.spec.goal_sufficient
      /\ d.primary = "retry" => d.retry = "allowed"
      /\ d.primary = "continue" => d.continuation # "blocked"
      /\ ~resolution.spec.compensation => d.primary # "compensate"

(* A spec may be stricter than the core, never weaker, and the core never  *)
(* grants what the spec did not propose: no clamp widens a retry, a        *)
(* continuation or a compensation.                                         *)
FloorsOnlyTighten ==
    Derived =>
      LET d == resolution.decision
          p == resolution.proposed IN
      /\ d.retry = "allowed" => p.retry = "allowed"
      /\ d.continuation = "allowed" => p.continuation = "allowed"
      /\ d.primary = "compensate" => p.primary = "compensate"
      /\ d.primary = "retry" => p.primary = "retry"

(* The second pass is enough: flooring the signed claim and decision again *)
(* changes neither, so a resolution re-derived from its own output over    *)
(* the same ledger is the same resolution.                                 *)
FloorsConverge ==
    Derived =>
      FloorOnce(resolution.spec, resolution.state, resolution.cited,
                resolution.decision, ledger)
        = [state |-> resolution.state, decision |-> resolution.decision]
=============================================================================
