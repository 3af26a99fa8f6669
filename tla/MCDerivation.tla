---------------------------- MODULE MCDerivation ----------------------------
(***************************************************************************)
(* What resolutions rest on: the floors over what any spec may propose     *)
(* (Derivation) and the engine that signs them for several callers         *)
(* (Sandbox), both extended here; the Okta and Stripe adapters and specs   *)
(* over what their providers hold, and the evaluation of consequences that *)
(* were not under control.  They share nothing, so that one of them is     *)
(* followed at a time.                                                     *)
(***************************************************************************)
EXTENDS Derivation, Sandbox, TLC

CONSTANTS Effects, MaxLooks, MaxFaults, MaxChanges, Roles

ASSUME EffectsAssumption == Effects \subseteq {"okta", "refund", "capture"}
ASSUME AdapterBounds == {MaxLooks, MaxFaults, MaxChanges, Roles} \subseteq Nat

VARIABLES followed,      \* "floors", "engine", "adapters" or "shadow"
          effect, operation, object, elapsed, items, request, unsent, worker, claim, left,
          report, verdict

Reading   == INSTANCE Adapters
Shadowing == INSTANCE Shadow

reading == <<effect, operation, object, elapsed, items, request, unsent, worker, claim, left>>
shadow  == <<report, verdict>>

InitAll == /\ followed \in {"floors", "engine", "adapters", "shadow"}
           /\ Init /\ Reading!Init /\ SandboxInit
           /\ followed # "adapters" =>
                 effect = "okta" /\ object.user.status = Reading!Desired
           /\ IF followed = "shadow" THEN Shadowing!Init
              ELSE report = Shadowing!SomeReport /\ verdict = Shadowing!Unevaluated

NextAll ==
    /\ UNCHANGED followed
    /\ \/ followed = "floors" /\ Next /\ UNCHANGED <<reading, shadow, sandbox>>
       \/ followed = "engine" /\ SandboxNext /\ UNCHANGED <<vars, reading, shadow>>
       \/ followed = "adapters" /\ Reading!Next /\ UNCHANGED <<vars, shadow, sandbox>>
       \/ followed = "shadow" /\ Shadowing!Next /\ UNCHANGED <<vars, reading, sandbox>>

SpecAll == InitAll /\ [][NextAll]_<<followed, vars, reading, shadow, sandbox>>

(* The types of the derivation and of the adapters.                        *)
TypesOK == TypeOK /\ Reading!TypeOK

(* What an adapter reports is true: an attempt called "definitely_not_sent" *)
(* never reaches the provider, and every certainty held at some moment of   *)
(* the read it rests on.                                                    *)
AdaptersTellTheTruth == Reading!UnsentIsUntouched /\ Reading!ClaimsHeldWhenRead

(* The sandbox engine, for several callers and specs that misbehave: one   *)
(* dispatch under a recorded plan, no end without a resolution that may    *)
(* end it, and no certainty or permission beyond the reported records.     *)
EngineHolds == LifecycleHolds /\ RogueIsClamped

(* Shadow says what Enforced would have done with the same facts.          *)
ShadowAgrees == Shadowing!ShadowAgrees

-----------------------------------------------------------------------------
(* One profile per branch of the floors.                                   *)
MCProfiles ==
    {Facets("provider_read", "authoritative", "effect_present", "attributed"),
     Facets("provider_read", "authoritative", "effect_present", "unattributed"),
     Facets("absence_probe", "authoritative", "effect_absent", "indeterminate"),
     Facets("compensation_confirmation", "corroborative", "effect_present", "attributed"),
     Facets("transport_error", "transport_only", "indeterminate", "indeterminate")}

(* GitHub and Okta, Stripe, the reference spec, and a spec that declares nothing. *)
MCSpecs ==
    {[compensation |-> FALSE, goal_sufficient |-> TRUE,  retry_safe |-> TRUE,  idempotent |-> FALSE],
     [compensation |-> FALSE, goal_sufficient |-> TRUE,  retry_safe |-> FALSE, idempotent |-> TRUE],
     [compensation |-> TRUE,  goal_sufficient |-> FALSE, retry_safe |-> TRUE,  idempotent |-> TRUE]}

MCDecisions == [primary : Primaries, retry : {"allowed", "forbidden"},
                continuation : Continuations, recovery : {"none", "compensate"},
                recheck : {TRUE}]

(* The callers of the engine are alike.                                    *)
MCSymmetry == Permutations(Resolvers)
=============================================================================
