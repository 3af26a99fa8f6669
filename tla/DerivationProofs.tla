-------------------------- MODULE DerivationProofs --------------------------
(***************************************************************************)
(* The properties of the derivation hold for every ledger, every set of    *)
(* spec declarations and every proposal.  The argument: every derived      *)
(* decision is Settled for the derived state and tightens the proposed one *)
(* (DeriveFacts), which is the inductive DerivedIsSettled; the properties  *)
(* follow from it.                                                         *)
(*                                                                         *)
(* Then the sandbox engine, for any number of resolvers: what each of them *)
(* carries towards a save is clamped, and what is saved stays so           *)
(* (EngineInv).  Then the adapters: an attempt that may still be called    *)
(* unsent was not sent (SendInv), and what was read part by part, in a     *)
(* worker's hands, in the ledger and in the claim, was so at some moment   *)
(* while it was read (ReadInv).  Then the evaluation of what was not under *)
(* control: of the one ledger and of the other the last snapshot decides,  *)
(* and snapshots of the same case are alike (OutcomesAgree).               *)
(***************************************************************************)
EXTENDS MCDerivation, SafetyFloorsProofs, Sequences, FiniteSetTheorems

(* The ledger only ever holds evidence records and what is derived is an   *)
(* effect state and a control decision (deriveAndPersist).                 *)
THEOREM DerivationType == Spec => []TypeOK
<1>1. Init => TypeOK
  BY DEF Init, TypeOK
<1>2. TypeOK /\ [Next]_vars => TypeOK'
  <2>. SUFFICES ASSUME TypeOK, [Next]_vars PROVE TypeOK'
    OBVIOUS
  <2>1. ASSUME NEW profile \in Profiles, NEW supersedes \in 0..MaxEvidence,
               AppendEvidence(profile, supersedes), resolution = NoResolution
        PROVE  TypeOK'
    <3>1. Record(length + 1, profile, supersedes) \in EvidenceRecord
      BY <2>1, ProfilesAssumption, MaxEvidenceAssumption DEF AppendEvidence, Record, EvidenceRecord, TypeOK
    <3>2. QED
      BY <2>1, <3>1 DEF AppendEvidence, TypeOK
  <2>2. ASSUME NEW spec \in Specs, NEW proposed \in EffectStates,
               NEW refs \in SUBSET (1..MaxEvidence), NEW decision \in Decisions,
               NEW status, NEW attempts,
               Derive(spec, proposed, refs, decision, status, attempts)
        PROVE  TypeOK'
    <3>. DEFINE floored == ApplySafetyFloors(spec, proposed, refs, decision, ledger)
                d == ApplyDispatchBoundaryFloor(floored.decision, status, spec.idempotent, attempts)
                cited == {e.ref : e \in Cited(refs, ledger)}
    <3>1. spec \in EffectSpec /\ decision \in ControlDecision
      BY SpecsAssumption, DecisionsAssumption
    <3>2. floored.state \in EffectStates /\ d \in ControlDecision
      BY <3>1, DeriveFacts
    <3>3. cited \in SUBSET Nat
      BY DEF Cited, Active, TypeOK, EvidenceRecord
    <3>4. resolution' = [state |-> floored.state, decision |-> d, cited |-> cited,
                         spec |-> spec, proposed |-> decision]
      BY <2>2 DEF Derive
    <3>. HIDE DEF floored, d, cited
    <3>5. QED
      BY <2>2, <3>1, <3>2, <3>3, <3>4 DEF Derive, TypeOK
  <2>3. CASE UNCHANGED vars
    BY <2>3 DEF vars, TypeOK
  <2>4. QED
    BY <2>1, <2>2, <2>3 DEF Next
<1>3. QED
  BY <1>1, <1>2, PTL DEF Spec

(* What is derived is a fixed point of the floors and no wider than what   *)
(* the spec proposed: the inductive core of the four results below.        *)
DerivedIsSettled ==
    Derived =>
      /\ resolution.state \in EffectStates
      /\ resolution.state = EpistemicFloor(resolution.state, resolution.cited, ledger)
      /\ resolution.decision \in ControlDecision
      /\ Tightens(resolution.decision, resolution.proposed)
      /\ Settled(resolution.state, resolution.decision, resolution.spec, ledger)

(* Every derivation establishes it, and nothing happens after one.         *)
THEOREM DerivationSettled == Spec => []DerivedIsSettled
<1>1. Init => DerivedIsSettled
  BY DEF Init, DerivedIsSettled, Derived
<1>2. DerivedIsSettled /\ [Next]_vars => DerivedIsSettled'
  <2>. SUFFICES ASSUME DerivedIsSettled, [Next]_vars PROVE DerivedIsSettled'
    OBVIOUS
  <2>1. ASSUME NEW profile, NEW supersedes, AppendEvidence(profile, supersedes),
               resolution = NoResolution
        PROVE  DerivedIsSettled'
    BY <2>1 DEF AppendEvidence, DerivedIsSettled, Derived
  <2>2. ASSUME NEW spec \in Specs, NEW proposed \in EffectStates,
               NEW refs, NEW decision \in Decisions, NEW status, NEW attempts,
               Derive(spec, proposed, refs, decision, status, attempts)
        PROVE  DerivedIsSettled'
    <3>. DEFINE floored == ApplySafetyFloors(spec, proposed, refs, decision, ledger)
                d == ApplyDispatchBoundaryFloor(floored.decision, status, spec.idempotent, attempts)
                cited == {e.ref : e \in Cited(refs, ledger)}
    <3>1. spec \in EffectSpec /\ decision \in ControlDecision
      BY SpecsAssumption, DecisionsAssumption
    <3>2. /\ floored.state \in EffectStates
          /\ floored.state = EpistemicFloor(floored.state, cited, ledger)
          /\ d \in ControlDecision
          /\ Tightens(d, decision)
          /\ Settled(floored.state, d, spec, ledger)
      BY <3>1, DeriveFacts
    <3>3. /\ resolution' = [state |-> floored.state, decision |-> d, cited |-> cited,
                            spec |-> spec, proposed |-> decision]
          /\ ledger' = ledger
      BY <2>2 DEF Derive
    <3>. HIDE DEF floored, d, cited
    <3>4. /\ resolution'.state = floored.state /\ resolution'.decision = d
          /\ resolution'.cited = cited /\ resolution'.spec = spec
          /\ resolution'.proposed = decision
      BY <3>3
    <3>5. QED
      BY <3>2, <3>3, <3>4 DEF DerivedIsSettled
  <2>3. CASE UNCHANGED vars
    BY <2>3 DEF vars, DerivedIsSettled, Derived
  <2>4. QED
    BY <2>1, <2>2, <2>3 DEF Next
<1>3. QED
  BY <1>1, <1>2, PTL DEF Spec

(* For every ledger and every spec, a signed claim is backed by current    *)
(* evidence that says so, and contradicted by none.                        *)
THEOREM CertaintyTheorem == Spec => []CertaintyIsEvidenced
<1>1. DerivedIsSettled => CertaintyIsEvidenced
  BY DEF DerivedIsSettled, CertaintyIsEvidenced, CitedNow, EpistemicFloor
<1>2. QED
  BY <1>1, DerivationSettled, PTL

(* For every ledger and every spec, a retry, a continuation and a          *)
(* directive are authorised only where the claim permits them.             *)
THEOREM AuthorizationTheorem == Spec => []AuthorizationFitsClaim
<1>1. DerivedIsSettled => AuthorizationFitsClaim
  BY DEF DerivedIsSettled, AuthorizationFitsClaim, Settled, Fits, EffectStates
<1>2. QED
  BY <1>1, DerivationSettled, PTL

(* The core never widens what a spec proposed.                             *)
THEOREM TighteningTheorem == Spec => []FloorsOnlyTighten
<1>1. DerivedIsSettled => FloorsOnlyTighten
  BY DEF DerivedIsSettled, FloorsOnlyTighten, Tightens
<1>2. QED
  BY <1>1, DerivationSettled, PTL

(* Two passes of the floors are enough: a third changes nothing.           *)
THEOREM ConvergenceTheorem == Spec => []FloorsConverge
<1>1. DerivedIsSettled => FloorsConverge
  <2>. SUFFICES ASSUME DerivedIsSettled, Derived PROVE FloorsConverge
    BY DEF FloorsConverge
  <2>1. ControlFloor(resolution.state, resolution.decision, resolution.spec, ledger)
          = resolution.decision
    BY SettledIsFixed DEF DerivedIsSettled
  <2>2. QED
    BY <2>1 DEF FloorsConverge, FloorOnce, DerivedIsSettled
<1>2. QED
  BY <1>1, DerivationSettled, PTL

-----------------------------------------------------------------------------
(* The sandbox engine, over the specification of the run that checks it.   *)
Reported == {"created", "applied", "transport", "none_found", "accepted", "inconsistent",
             "wrong", "undone", "preexisting"}

(* What is left of a script.                                               *)
Scripts == {<<"created", "applied">>, <<"transport", "none_found">>,
            <<"accepted", "inconsistent">>, <<"wrong", "undone">>,
            <<"transport", "preexisting">>, <<"transport">>, <<"wrong">>, <<"applied">>,
            <<"none_found">>, <<"inconsistent">>, <<"undone">>, <<"preexisting">>}

Lifecycle == {"none", "intent_recorded", "prepared", "dispatching", "observing",
              "reconciling", "resolved"}

Drafts == [state : EffectStates, decision : ControlDecision, basis : Nat]

Standing ==
    [pc : {"idle", "prepared", "dispatching", "reporting", "found", "reading", "drawn", "saved"},
     script : Scripts \union {<<>>}, spec : EffectSpecs \union {"none"},
     draft : Drafts \union {[state |-> "none"]}]

(* What a resolver at each point knows.                                    *)
ResolverOK(k) ==
    /\ k \in Standing
    /\ k.pc = "reporting" =>
          k.script # <<>> /\ (k.script = <<"undone">> => \E i \in DOMAIN records : records[i] = "wrong")
    /\ k.pc \in {"found", "reading"} => k.spec \in EffectSpecs
    /\ k.pc = "drawn" => k.draft \in Drafts /\ k.draft.basis <= Len(records) /\ Clamped(k.draft)
    /\ k.pc = "saved" => \E i \in DOMAIN resolutions : resolutions[i] = k.draft

(* What was undone was found wrong before.                                 *)
RecordsOK ==
    /\ records \in Seq(Reported)
    /\ (\E i \in DOMAIN records : records[i] = "undone") =>
          \E i \in DOMAIN records : records[i] = "wrong"

LifecycleOK ==
    /\ action \in [state : Lifecycle, plan : BOOLEAN]
    /\ dispatches = IF action.state \in {"none", "intent_recorded", "prepared"} THEN 0 ELSE 1
    /\ action.state \notin {"none", "intent_recorded"} => action.plan

SavedOK ==
    /\ resolutions \in Seq(Drafts)
    /\ \A i \in DOMAIN resolutions :
          resolutions[i].basis <= Len(records) /\ Clamped(resolutions[i])
    /\ action.state = "resolved" => \E i \in DOMAIN resolutions : resolutions[i].state # "pending"

EngineInv ==
    /\ LifecycleOK /\ RecordsOK /\ SavedOK
    /\ caller = [c \in Resolvers |-> caller[c]]
    /\ \A c \in Resolvers : ResolverOK(caller[c])

(* It is what the run checks of the engine, and why.                       *)
LEMMA EngineGives == EngineInv => EngineHolds
BY DEF EngineInv, LifecycleOK, SavedOK, EngineHolds, LifecycleHolds, RogueIsClamped

(* It holds of a resolver at rest,                                         *)
LEMMA AtRestOK == ResolverOK(AtRest)
BY DEF ResolverOK, AtRest, Standing

(* ... and at the start.                                                   *)
LEMMA EngineInit == SandboxInit => EngineInv
BY AtRestOK DEF SandboxInit, EngineInv, LifecycleOK, RecordsOK, SavedOK, NoAction, Lifecycle

(* The facets by which the floors tell the reports apart.                  *)
LEMMA WhatReportsSay ==
    ASSUME NEW r \in Reported
    PROVE  LET says == Says(r) IN
           /\ says.attribution = "attributed" /\ says.disposition = "effect_present"
                /\ says.strength = "authoritative" => r = "applied"
           /\ r = "preexisting" =>
                says.strength = "authoritative" /\ says.disposition = "effect_present"
                  /\ says.attribution = "unattributed"
           /\ r = "applied" =>
                says.strength = "authoritative" /\ says.disposition = "effect_present"
           /\ says.strength = "authoritative" /\ says.disposition = "effect_absent"
                => r = "none_found"
BY DEF Reported, Says, Profile, Facets, ObservationFailures

Given == {RecordOf(i) : i \in DOMAIN records}

(* No report supersedes another.                                           *)
LEMMA GivenActive == records \in Seq(Reported) => Active(Given) = Given
BY DEF Given, RecordOf, Active, Superseded

(* A proposal of any of the specs, and its decision.                       *)
LEMMA Proposed ==
    ASSUME NEW spec \in EffectSpecs
    PROVE  LET a == Assess(spec) IN
           /\ a.state \in EffectStates
           /\ Decide(spec, a) \in ControlDecision
           /\ a.state = "compensated" =>
                /\ \E i \in DOMAIN records : records[i] = "undone"
                /\ Decide(spec, a).retry = "forbidden" /\ Decide(spec, a).continuation = "blocked"
<1>1. CASE spec = "rogue"
  BY <1>1 DEF Assess, Decide, Assessment, Decision, EffectStates, ControlDecision, Primaries,
              Retries, Continuations, Recoveries
<1>2. CASE spec = "rogue-absence"
  BY <1>2 DEF Assess, Decide, Assessment, Decision, EffectStates, ControlDecision, Primaries,
              Retries, Continuations, Recoveries
<1>3. CASE spec = "honest"
  <2>1. PICK a : a = HonestAssess
    OBVIOUS
  <2>2. /\ a.state \in EffectStates
        /\ a.state = "compensated" => \E i \in DOMAIN records : records[i] = "undone"
    BY <2>1 DEF HonestAssess, Assessment, EffectStates
  <2>3. /\ HonestDecide(a) \in ControlDecision
        /\ a.state = "compensated" =>
             HonestDecide(a).retry = "forbidden" /\ HonestDecide(a).continuation = "blocked"
    BY DEF HonestDecide, ReferenceDecide, Decision, ControlDecision, Primaries,
           Retries, Continuations, Recoveries
  <2>4. Assess(spec) = a /\ Decide(spec, a) = HonestDecide(a)
    BY <1>3, <2>1 DEF Assess, Decide
  <2>5. QED
    BY <2>2, <2>3, <2>4
<1>4. QED
  BY <1>1, <1>2, <1>3 DEF EffectSpecs

(* Whatever a spec makes of the records, what the floors leave of it is    *)
(* clamped.                                                                *)
LEMMA ResolvedClamped ==
    ASSUME RecordsOK, NEW spec \in EffectSpecs
    PROVE  LET floored == Resolved(spec)
               draft == [state |-> floored.state, decision |-> floored.decision,
                         basis |-> Len(records)]
           IN  draft \in Drafts /\ Clamped(draft)
<1>1. PICK a : a = Assess(spec)
  OBVIOUS
<1>2. PICK d : d = Decide(spec, a)
  OBVIOUS
<1>3. PICK f : f = ApplySafetyFloors(ReferenceSpec, a.state, a.refs, d, Given)
  OBVIOUS
<1>4. Resolved(spec) = f
  BY <1>1, <1>2, <1>3 DEF Resolved, Given
<1>5. /\ a.state \in EffectStates /\ d \in ControlDecision
      /\ a.state = "compensated" =>
           /\ \E i \in DOMAIN records : records[i] = "undone"
           /\ d.retry = "forbidden" /\ d.continuation = "blocked"
  BY <1>1, <1>2, Proposed
<1>6. PICK quoted :
        /\ f.state \in EffectStates
        /\ f.state = EpistemicFloor(f.state, quoted, Given)
        /\ f.decision \in ControlDecision
        /\ Tightens(f.decision, d)
        /\ Settled(f.state, f.decision, ReferenceSpec, Given)
  <2>1. ReferenceSpec \in EffectSpec
    BY DEF ReferenceSpec, EffectSpec
  <2>2. LET floored == ApplySafetyFloors(ReferenceSpec, a.state, a.refs, d, Given)
            quoted == {e.ref : e \in Cited(a.refs, Given)}
        IN  /\ floored.state \in EffectStates
            /\ floored.state = EpistemicFloor(floored.state, quoted, Given)
            /\ floored.decision \in ControlDecision
            /\ Tightens(floored.decision, d)
            /\ Settled(floored.state, floored.decision, ReferenceSpec, Given)
    BY <1>5, <2>1, FlooredFacts
  <2>3. QED
    BY <1>3, <2>2
<1>7. f.state = "compensated" => a.state = "compensated"
  BY <1>3, FlooredClaim
<1>8. PICK seen : seen = {records[j] : j \in 1..Len(records)}
  OBVIOUS
<1>9. /\ seen \subseteq Reported /\ Active(Given) = Given
      /\ \A r \in seen : \E e \in Given :
            /\ e.strength = Says(r).strength /\ e.disposition = Says(r).disposition
            /\ e.attribution = Says(r).attribution
      /\ \A e \in Given : \E r \in seen :
            /\ e.strength = Says(r).strength /\ e.disposition = Says(r).disposition
            /\ e.attribution = Says(r).attribution
      /\ \A i \in DOMAIN records : records[i] \in seen
  <2>1. DOMAIN records = 1..Len(records)
    BY DEF RecordsOK
  <2>2. \A i \in DOMAIN records : records[i] \in Reported
    BY DEF RecordsOK
  <2>3. Active(Given) = Given
    BY GivenActive DEF RecordsOK
  <2>4. \A i \in DOMAIN records : records[i] \in seen
    BY <1>8, <2>1
  <2>5. \A r \in seen : \E i \in DOMAIN records : records[i] = r
    BY <1>8, <2>1
  <2>6. \A i \in DOMAIN records :
          /\ RecordOf(i) \in Given
          /\ RecordOf(i).strength = Says(records[i]).strength
          /\ RecordOf(i).disposition = Says(records[i]).disposition
          /\ RecordOf(i).attribution = Says(records[i]).attribution
    BY DEF Given, RecordOf
  <2>7. \A e \in Given : \E i \in DOMAIN records : e = RecordOf(i)
    BY DEF Given
  <2>8. QED
    BY <2>2, <2>3, <2>4, <2>5, <2>6, <2>7
<1>10. f.state = "verified" => "applied" \in seen /\ "preexisting" \notin seen
  <2>. SUFFICES ASSUME f.state = "verified"
                PROVE  "applied" \in seen /\ "preexisting" \notin seen
    OBVIOUS
  <2>1. ~Contradictory(Given) /\ AttributedPresence(Cited(quoted, Given))
    BY <1>6 DEF EpistemicFloor
  <2>2. PICK e \in Given : /\ e.strength = "authoritative" /\ e.disposition = "effect_present"
                           /\ e.attribution = "attributed"
    BY <2>1 DEF AttributedPresence, Authoritatively, Cited, Active
  <2>3. "applied" \in seen
    BY <1>9, <2>2, WhatReportsSay
  <2>4. ~ \E g \in Given : g.disposition = "effect_present" /\ g.attribution = "unattributed"
    BY <1>9, <2>1, <2>2 DEF Contradictory
  <2>5. "preexisting" \notin seen
    BY <1>9, <2>4, WhatReportsSay
  <2>6. QED
    BY <2>3, <2>5
<1>11. f.state = "not_applied" =>
          "none_found" \in seen /\ seen \intersect {"applied", "preexisting"} = {}
  <2>. SUFFICES ASSUME f.state = "not_applied"
                PROVE  "none_found" \in seen /\ seen \intersect {"applied", "preexisting"} = {}
    OBVIOUS
  <2>1. /\ AbsenceProof(Cited(quoted, Given))
        /\ ~ \E e \in Active(Given) : Authoritatively(e, "effect_present")
    BY <1>6 DEF EpistemicFloor
  <2>2. PICK e \in Given : e.strength = "authoritative" /\ e.disposition = "effect_absent"
    BY <2>1 DEF AbsenceProof, Authoritatively, Cited, Active
  <2>3. "none_found" \in seen
    BY <1>9, <2>2, WhatReportsSay
  <2>4. "applied" \notin seen /\ "preexisting" \notin seen
    BY <1>9, <2>1, WhatReportsSay DEF Authoritatively
  <2>5. QED
    BY <2>3, <2>4
<1>12. f.state = "compensated" => {"undone", "wrong"} \subseteq seen
  BY <1>5, <1>7, <1>9 DEF RecordsOK
<1>13. f.decision.retry = "allowed" => f.state = "not_applied"
  BY <1>5, <1>6, <1>7 DEF Settled, Fits, Tightens, EffectStates
<1>14. f.decision.continuation = "allowed" =>
          f.state \in {"verified", "satisfied_unattributed"}
  BY <1>5, <1>6, <1>7 DEF Settled, Fits, Tightens, EffectStates
<1>15. PICK draft : draft = [state |-> f.state, decision |-> f.decision, basis |-> Len(records)]
  OBVIOUS
<1>16. draft \in Drafts
  BY <1>6, <1>15 DEF Drafts, RecordsOK
<1>17. Clamped(draft)
  <2>1. /\ draft.state = f.state /\ draft.decision = f.decision
        /\ seen = {records[j] : j \in 1..draft.basis}
    BY <1>8, <1>15
  <2>2. QED
    BY <1>10, <1>11, <1>12, <1>13, <1>14, <2>1, Zenon DEF Clamped
<1>18. QED
  BY <1>4, <1>15, <1>16, <1>17

(* The ledger and the resolutions grow.                                    *)
Grown ==
    /\ Len(records) <= Len(records') /\ Len(records') \in Nat
    /\ \A i \in 1..Len(records) : records'[i] = records[i]
    /\ \A i \in DOMAIN resolutions : i \in DOMAIN resolutions' /\ resolutions'[i] = resolutions[i]

LEMMA ClampedKept ==
    ASSUME RecordsOK, Grown, NEW r \in Drafts, r.basis <= Len(records), Clamped(r)
    PROVE  Clamped(r)' /\ r.basis <= Len(records')
<1>1. r.basis \in Nat /\ Len(records) \in Nat
  BY DEF Drafts, RecordsOK
<1>2. {records'[j] : j \in 1..r.basis} = {records[j] : j \in 1..r.basis}
  BY <1>1 DEF Grown
<1>3. r.basis <= Len(records')
  BY <1>1 DEF Grown
<1>4. QED
  BY <1>2, <1>3, Zenon DEF Clamped

(* What a resolver that does not move knows stays true.                    *)
LEMMA ResolverKept ==
    ASSUME RecordsOK, RecordsOK', Grown, NEW k, ResolverOK(k)
    PROVE  ResolverOK(k)'
<1>1. k \in Standing
  BY DEF ResolverOK
<1>2. k.pc = "reporting" => /\ k.script # <<>>
                            /\ k.script = <<"undone">> => \E i \in DOMAIN records' : records'[i] = "wrong"
  <2>1. DOMAIN records = 1..Len(records) /\ DOMAIN records' = 1..Len(records')
        /\ Len(records) \in Nat
    BY DEF RecordsOK
  <2>2. QED
    BY <2>1 DEF ResolverOK, Grown
<1>3. k.pc = "drawn" => k.draft \in Drafts /\ k.draft.basis <= Len(records') /\ Clamped(k.draft)'
  BY ClampedKept DEF ResolverOK
<1>4. k.pc = "saved" => \E i \in DOMAIN resolutions' : resolutions'[i] = k.draft
  BY DEF ResolverOK, Grown
<1>5. QED
  BY <1>1, <1>2, <1>3, <1>4 DEF ResolverOK

(* A resolver moves, and the tables still agree.                           *)
LEMMA ResolverMoves ==
    ASSUME EngineInv, NEW c \in Resolvers, NEW k, ResolverOK(k)', Set(c, k),
           LifecycleOK', RecordsOK', SavedOK', Grown
    PROVE  EngineInv'
<1>1. caller' = [caller EXCEPT ![c] = k] /\ caller = [d \in Resolvers |-> caller[d]]
  BY DEF Set, EngineInv
<1>2. caller' = [d \in Resolvers |-> caller'[d]] /\ caller'[c] = k
      /\ \A d \in Resolvers : d # c => caller'[d] = caller[d]
  BY <1>1
<1>3. ASSUME NEW d \in Resolvers PROVE ResolverOK(caller[d])'
  <2>1. CASE d = c
    BY <1>2, <2>1, Zenon DEF ResolverOK, Clamped
  <2>2. CASE d # c
    <3>1. PICK j : j = caller[d]
      OBVIOUS
    <3>2. ResolverOK(j)'
      BY <3>1, ResolverKept DEF EngineInv
    <3>3. caller'[d] = j
      BY <1>2, <2>2, <3>1
    <3>4. QED
      BY <3>2, <3>3, Zenon DEF ResolverOK, Clamped
  <2>3. QED
    BY <2>1, <2>2
<1>4. QED
  BY <1>2, <1>3 DEF EngineInv

LEMMA NothingGrown ==
    ASSUME EngineInv, UNCHANGED <<records, resolutions>>
    PROVE  Grown /\ RecordsOK'
BY DEF EngineInv, Grown, RecordsOK

LEMMA SavedKept ==
    ASSUME EngineInv, Grown, UNCHANGED resolutions,
           action'.state = "resolved" =>
             action.state = "resolved" \/ \E i \in DOMAIN resolutions : resolutions[i].state # "pending"
    PROVE  SavedOK'
<1>1. /\ resolutions \in Seq(Drafts) 
      /\ \A i \in DOMAIN resolutions :
            resolutions[i] \in Drafts /\ resolutions[i].basis <= Len(records) /\ Clamped(resolutions[i])
      /\ RecordsOK
  BY DEF EngineInv, SavedOK
<1>2. \A i \in DOMAIN resolutions : resolutions[i].basis <= Len(records') /\ Clamped(resolutions[i])'
  BY <1>1, ClampedKept
<1>3. \A i \in DOMAIN resolutions' : resolutions'[i].basis <= Len(records') /\ Clamped(resolutions[i])'
  BY <1>2
<1>4. QED
  BY <1>1, <1>3 DEF EngineInv, SavedOK

(* Without a change of the tables.                                         *)
LEMMA OnlyMoves ==
    ASSUME EngineInv, NEW c \in Resolvers, NEW k, ResolverOK(k), Set(c, k),
           UNCHANGED <<kept, dispatches>>
    PROVE  EngineInv'
<1>1. Grown /\ RecordsOK' /\ UNCHANGED <<action, records, resolutions>>
  BY NothingGrown DEF kept
<1>2. SavedOK'
  BY <1>1, SavedKept
<1>3. LifecycleOK'
  BY <1>1 DEF EngineInv, LifecycleOK
<1>4. ResolverOK(k)'
  BY <1>1, ResolverKept DEF EngineInv
<1>5. QED
  BY <1>1, <1>2, <1>3, <1>4, ResolverMoves

(* The action moves on, short of its end.                                  *)
LEMMA ActionMoves ==
    ASSUME EngineInv, NEW c \in Resolvers, NEW k, ResolverOK(k), Set(c, k),
           UNCHANGED <<records, resolutions>>, LifecycleOK',
           action'.state # "resolved"
    PROVE  EngineInv'
<1>1. Grown /\ RecordsOK'
  BY NothingGrown
<1>2. SavedOK'
  BY <1>1, SavedKept
<1>3. ResolverOK(k)'
  BY <1>1, ResolverKept DEF EngineInv
<1>4. QED
  BY <1>1, <1>2, <1>3, ResolverMoves

-----------------------------------------------------------------------------
LEMMA IntentStep ==
    ASSUME EngineInv, NEW c \in Resolvers, RecordIntent(c)
    PROVE  EngineInv'
<1>1. LifecycleOK' /\ action'.state # "resolved" /\ UNCHANGED <<records, resolutions>>
  BY DEF RecordIntent, NoAction, EngineInv, LifecycleOK, Lifecycle
<1>2. Set(c, AtRest) \/ caller' = caller
  BY DEF RecordIntent
<1>3. ResolverOK(caller[c]) /\ Set(c, caller[c])
  BY DEF RecordIntent, EngineInv, Set
<1>4. QED
  BY <1>1, <1>3, ActionMoves

LEMMA PrepareStep ==
    ASSUME EngineInv, NEW c \in Resolvers, Prepare(c)
    PROVE  EngineInv'
<1>1. LifecycleOK' /\ action'.state # "resolved" /\ UNCHANGED <<records, resolutions>>
  BY DEF Prepare, Preparable, EngineInv, LifecycleOK, Lifecycle
<1>2. PICK k : k = [AtRest EXCEPT !.pc = "prepared"]
  OBVIOUS
<1>3. ResolverOK(k)
  BY <1>2 DEF ResolverOK, AtRest, Standing
<1>4. Set(c, k)
  BY <1>2 DEF Prepare
<1>5. QED
  BY <1>1, <1>3, <1>4, ActionMoves

LEMMA DispatchingStep ==
    ASSUME EngineInv, NEW c \in Resolvers, EnterDispatching(c)
    PROVE  EngineInv'
<1>1. LifecycleOK' /\ action'.state # "resolved" /\ UNCHANGED <<records, resolutions>>
  BY DEF EnterDispatching, EngineInv, LifecycleOK, Lifecycle
<1>2. PICK k : k = [AtRest EXCEPT !.pc = "dispatching"]
  OBVIOUS
<1>3. ResolverOK(k)
  BY <1>2 DEF ResolverOK, AtRest, Standing
<1>4. Set(c, k)
  BY <1>2 DEF EnterDispatching
<1>5. QED
  BY <1>1, <1>3, <1>4, ActionMoves

LEMMA ObservingStep ==
    ASSUME EngineInv, NEW c \in Resolvers, EnterObserving(c)
    PROVE  EngineInv'
<1>1. LifecycleOK' /\ action'.state # "resolved" /\ UNCHANGED <<records, resolutions>>
  BY DEF EnterObserving, EngineInv, LifecycleOK, Lifecycle
<1>2. Set(c, AtRest)
  BY DEF EnterObserving, Leave
<1>3. QED
  BY <1>1, <1>2, AtRestOK, ActionMoves

LEMMA ObserveStep ==
    ASSUME EngineInv, NEW c \in Resolvers, Observe(c)
    PROVE  EngineInv'
<1>1. PICK scenario \in Scenarios :
        Set(c, [AtRest EXCEPT !.pc = "reporting", !.script = Script(scenario)])
  BY DEF Observe
<1>2. PICK k : k = [AtRest EXCEPT !.pc = "reporting", !.script = Script(scenario)]
  OBVIOUS
<1>3. Script(scenario) \in Scripts \ {<<"undone">>}
  <2>1. Script(scenario) \in Scripts
    BY ScenariosAssumption DEF Script, Scripts
  <2>2. Script(scenario) # <<"undone">>
    BY ScenariosAssumption DEF Script
  <2>3. QED
    BY <2>1, <2>2
<1>4. ResolverOK(k)
  <2>1. k = [pc |-> "reporting", script |-> Script(scenario), spec |-> "none",
             draft |-> [state |-> "none"]]
    BY <1>2 DEF AtRest
  <2>2. \A s \in Scripts : s # <<>>
    BY DEF Scripts
  <2>3. QED
    BY <1>3, <2>1, <2>2 DEF ResolverOK, Standing
<1>5. QED
  BY <1>1, <1>2, <1>4, OnlyMoves DEF Observe

(* The first of a script is reported, the rest is left.                    *)
LEMMA Reporting ==
    ASSUME NEW s \in Scripts
    PROVE  /\ Head(s) \in Reported
           /\ Len(s) # 1 => Tail(s) \in Scripts
           /\ Head(s) = "undone" => s = <<"undone">>
           /\ Len(s) # 1 /\ Tail(s) = <<"undone">> => Head(s) = "wrong"
           /\ s # <<>>
<1>1. \A x : Head(<<x>>) = x /\ Len(<<x>>) = 1
  OBVIOUS
<1>2. \A x, y : Head(<<x, y>>) = x /\ Len(<<x, y>>) = 2 /\ Tail(<<x, y>>) = <<y>>
  OBVIOUS
<1>3. \A x, y : <<x>> = <<y>> => x = y
  OBVIOUS
<1>4. CASE \E x \in Reported : s = <<x>>
  BY <1>1, <1>4
<1>5. CASE s \in {<<"created", "applied">>, <<"transport", "none_found">>,
                  <<"accepted", "inconsistent">>, <<"wrong", "undone">>,
                  <<"transport", "preexisting">>}
  <2>1. PICK x \in Reported, y \in Reported :
          /\ s = <<x, y>> /\ <<y>> \in Scripts /\ x # "undone" /\ (y = "undone" => x = "wrong")
    BY <1>5 DEF Reported, Scripts
  <2>2. QED
    BY <1>2, <1>3, <2>1
<1>6. QED
  BY <1>4, <1>5 DEF Scripts, Reported

LEMMA AppendStep ==
    ASSUME EngineInv, NEW c \in Resolvers, AppendRecord(c)
    PROVE  EngineInv'
<1>1. PICK j : j = caller[c]
  OBVIOUS
<1>2. /\ j \in Standing /\ j.pc = "reporting" /\ j.script \in Scripts
      /\ j.script = <<"undone">> => \E i \in DOMAIN records : records[i] = "wrong"
  BY <1>1 DEF AppendRecord, Is, EngineInv, ResolverOK, Standing
<1>3. PICK r : r = Head(j.script)
  OBVIOUS
<1>4. r \in Reported /\ records \in Seq(Reported) /\ records' = Append(records, r)
  BY <1>1, <1>2, <1>3, Reporting DEF AppendRecord, EngineInv, RecordsOK
<1>5. /\ records' \in Seq(Reported) /\ Len(records') = Len(records) + 1 /\ Len(records) \in Nat
      /\ \A i \in 1..Len(records) : records'[i] = records[i]
      /\ records'[Len(records) + 1] = r
      /\ DOMAIN records = 1..Len(records) /\ DOMAIN records' = 1..(Len(records) + 1)
  BY <1>4
<1>6. Grown
  BY <1>5 DEF Grown, AppendRecord
<1>7. RecordsOK'
  <2>1. (\E i \in DOMAIN records : records[i] = "wrong") => \E i \in DOMAIN records' : records'[i] = "wrong"
    BY <1>5
  <2>2. (\E i \in DOMAIN records' : records'[i] = "undone") =>
           r = "undone" \/ \E i \in DOMAIN records : records[i] = "undone"
    BY <1>5
  <2>3. r = "undone" => \E i \in DOMAIN records : records[i] = "wrong"
    BY <1>2, <1>3, Reporting
  <2>4. QED
    BY <1>5, <2>1, <2>2, <2>3 DEF EngineInv, RecordsOK
<1>8. SavedOK' /\ LifecycleOK'
  <2>1. SavedOK'
    BY <1>6, SavedKept DEF AppendRecord
  <2>2. QED
    BY <2>1 DEF AppendRecord, EngineInv, LifecycleOK
<1>9. CASE Len(j.script) = 1
  <2>1. Set(c, AtRest)
    BY <1>1, <1>9 DEF AppendRecord, Leave
  <2>2. ResolverOK(AtRest)'
    BY <1>6, <1>7, AtRestOK, ResolverKept DEF EngineInv
  <2>3. QED
    BY <1>6, <1>7, <1>8, <2>1, <2>2, ResolverMoves
<1>10. CASE Len(j.script) # 1
  <2>1. PICK k : k = [j EXCEPT !.script = Tail(@)]
    OBVIOUS
  <2>2. Set(c, k)
    BY <1>1, <1>10, <2>1 DEF AppendRecord
  <2>3. /\ k.pc = "reporting" /\ k.script = Tail(j.script) /\ k.script \in Scripts
        /\ k \in Standing
    BY <1>2, <1>10, <2>1, Reporting DEF Standing
  <2>4. k.script = <<"undone">> => r = "wrong"
    BY <1>2, <1>3, <1>10, <2>3, Reporting
  <2>5. k.script # <<>>
    BY <2>3, Reporting
  <2>6. ResolverOK(k)'
    BY <1>5, <2>3, <2>4, <2>5 DEF ResolverOK
  <2>7. QED
    BY <1>6, <1>7, <1>8, <2>2, <2>6, ResolverMoves
<1>11. QED
  BY <1>9, <1>10

LEMMA ResolveStep ==
    ASSUME EngineInv, NEW c \in Resolvers, Resolve(c)
    PROVE  EngineInv'
<1>1. PICK spec \in EffectSpecs :
        Set(c, [AtRest EXCEPT !.pc = IF action.state = "observing" THEN "found" ELSE "reading",
                              !.spec = spec])
  BY DEF Resolve
<1>2. PICK k : k = [AtRest EXCEPT !.pc = IF action.state = "observing" THEN "found" ELSE "reading",
                                  !.spec = spec]
  OBVIOUS
<1>3. ResolverOK(k)
  BY <1>2 DEF ResolverOK, AtRest, Standing
<1>4. QED
  BY <1>1, <1>2, <1>3, OnlyMoves DEF Resolve

LEMMA ReconcilingStep ==
    ASSUME EngineInv, NEW c \in Resolvers, EnterReconciling(c)
    PROVE  EngineInv'
<1>1. CASE action.state = "observing"
  <2>1. LifecycleOK' /\ action'.state # "resolved" /\ UNCHANGED <<records, resolutions>>
    BY <1>1 DEF EnterReconciling, EngineInv, LifecycleOK, Lifecycle
  <2>2. PICK j : j = caller[c]
    OBVIOUS
  <2>3. PICK k : k = [j EXCEPT !.pc = "reading"]
    OBVIOUS
  <2>4. ResolverOK(j) /\ j.pc = "found"
    BY <2>2 DEF EngineInv, EnterReconciling, Is
  <2>5. ResolverOK(k)
    BY <2>3, <2>4 DEF ResolverOK, Standing
  <2>6. Set(c, k)
    BY <1>1, <2>2, <2>3 DEF EnterReconciling
  <2>7. QED
    BY <2>1, <2>5, <2>6, ActionMoves
<1>2. CASE action.state # "observing"
  BY <1>2, AtRestOK, OnlyMoves DEF EnterReconciling, Leave, kept
<1>3. QED
  BY <1>1, <1>2

LEMMA ReconcileStep ==
    ASSUME EngineInv, NEW c \in Resolvers, Reconcile(c)
    PROVE  EngineInv'
<1>1. PICK j : j = caller[c]
  OBVIOUS
<1>2. ResolverOK(j) /\ j.pc = "reading" /\ j.spec \in EffectSpecs
  BY <1>1 DEF EngineInv, Reconcile, Is, ResolverOK
<1>3. PICK f : f = Resolved(j.spec)
  OBVIOUS
<1>4. PICK draft : draft = [state |-> f.state, decision |-> f.decision, basis |-> Len(records)]
  OBVIOUS
<1>5. draft \in Drafts /\ Clamped(draft)
  <2>1. LET floored == Resolved(j.spec)
            d == [state |-> floored.state, decision |-> floored.decision,
                  basis |-> Len(records)]
        IN  d \in Drafts /\ Clamped(d)
    BY <1>2, ResolvedClamped DEF EngineInv
  <2>2. QED
    BY <1>3, <1>4, <2>1
<1>6. PICK k : k = [j EXCEPT !.pc = "drawn", !.draft = draft]
  OBVIOUS
<1>7. Set(c, k)
  BY <1>1, <1>3, <1>4, <1>6 DEF Reconcile
<1>8. k \in Standing /\ k.pc = "drawn" /\ k.draft = draft
  BY <1>2, <1>5, <1>6 DEF ResolverOK, Standing
<1>9. draft.basis <= Len(records)
  BY <1>4 DEF EngineInv, RecordsOK
<1>10. ResolverOK(k)
  BY <1>5, <1>8, <1>9 DEF ResolverOK
<1>11. QED
  BY <1>7, <1>10, OnlyMoves DEF Reconcile

LEMMA SaveStep ==
    ASSUME EngineInv, NEW c \in Resolvers, Save(c)
    PROVE  EngineInv'
<1>1. PICK j : j = caller[c]
  OBVIOUS
<1>2. /\ ResolverOK(j) /\ j.pc = "drawn" /\ j.draft \in Drafts /\ j \in Standing
      /\ j.draft.basis <= Len(records) /\ Clamped(j.draft)
  BY <1>1 DEF EngineInv, Save, Is, ResolverOK
<1>3. PICK draft : draft = j.draft
  OBVIOUS
<1>4. /\ resolutions \in Seq(Drafts) /\ resolutions' = Append(resolutions, draft)
      /\ UNCHANGED <<records, action, dispatches>>
  BY <1>1, <1>3 DEF Save, EngineInv, SavedOK
<1>5. /\ resolutions' \in Seq(Drafts) /\ Len(resolutions) \in Nat
      /\ DOMAIN resolutions = 1..Len(resolutions) /\ DOMAIN resolutions' = 1..(Len(resolutions) + 1)
      /\ \A i \in 1..Len(resolutions) : resolutions'[i] = resolutions[i]
      /\ resolutions'[Len(resolutions) + 1] = draft
  BY <1>2, <1>3, <1>4
<1>6. Grown /\ RecordsOK' /\ LifecycleOK'
  BY <1>4, <1>5 DEF Grown, EngineInv, RecordsOK, LifecycleOK
<1>7. \A r \in Drafts : r.basis <= Len(records) /\ Clamped(r) =>
        r.basis <= Len(records') /\ Clamped(r)'
  BY <1>6, ClampedKept DEF EngineInv
<1>8. \A i \in DOMAIN resolutions' :
         resolutions'[i] \in Drafts /\ resolutions'[i].basis <= Len(records) /\ Clamped(resolutions'[i])
  <2>1. ASSUME NEW i \in 1..Len(resolutions)
        PROVE  resolutions'[i] \in Drafts /\ resolutions'[i].basis <= Len(records) /\ Clamped(resolutions'[i])
    <3>1. resolutions'[i] = resolutions[i]
      BY <1>5
    <3>2. resolutions[i] \in Drafts /\ resolutions[i].basis <= Len(records) /\ Clamped(resolutions[i])
      BY <1>4, <1>5 DEF EngineInv, SavedOK
    <3>3. QED
      BY <3>1, <3>2, Zenon DEF Clamped
  <2>2. draft \in Drafts /\ draft.basis <= Len(records) /\ Clamped(draft)
    BY <1>2, <1>3, Zenon DEF Clamped
  <2>3. QED
    BY <1>5, <2>1, <2>2
<1>9. SavedOK'
  <2>1. \A i \in DOMAIN resolutions' :
          resolutions'[i].basis <= Len(records') /\ Clamped(resolutions[i])'
    BY <1>7, <1>8
  <2>2. action'.state = "resolved" => \E i \in DOMAIN resolutions' : resolutions'[i].state # "pending"
    BY <1>4, <1>5 DEF EngineInv, SavedOK
  <2>3. QED
    BY <1>5, <2>1, <2>2 DEF SavedOK
<1>10. PICK k : k = [j EXCEPT !.pc = "saved"]
  OBVIOUS
<1>11. Set(c, k)
  BY <1>1, <1>10 DEF Save
<1>12. k \in Standing /\ k.pc = "saved" /\ k.draft = draft
  BY <1>2, <1>3, <1>10 DEF Standing
<1>13. ResolverOK(k)'
  BY <1>5, <1>12 DEF ResolverOK
<1>14. QED
  BY <1>6, <1>9, <1>11, <1>13, ResolverMoves

LEMMA SettleStep ==
    ASSUME EngineInv, NEW c \in Resolvers, Settle(c)
    PROVE  EngineInv'
<1>1. Set(c, AtRest) /\ UNCHANGED <<records, resolutions, dispatches>>
  BY DEF Settle, Leave
<1>2. PICK i \in DOMAIN resolutions : resolutions[i] = caller[c].draft
  BY DEF Settle, Is, EngineInv, ResolverOK
<1>3. LifecycleOK'
  BY DEF Settle, EngineInv, LifecycleOK, Lifecycle
<1>4. action'.state = "resolved" =>
        action.state = "resolved" \/ resolutions[i].state # "pending"
  BY <1>2 DEF Settle, EngineInv, LifecycleOK
<1>5. Grown /\ RecordsOK'
  BY <1>1, NothingGrown
<1>6. SavedOK'
  BY <1>1, <1>4, <1>5, SavedKept
<1>7. ResolverOK(AtRest)'
  BY <1>5, AtRestOK, ResolverKept DEF EngineInv
<1>8. QED
  BY <1>1, <1>3, <1>5, <1>6, <1>7, ResolverMoves

LEMMA StopStep ==
    ASSUME EngineInv, NEW c \in Resolvers, Stop(c)
    PROVE  EngineInv'
BY AtRestOK, OnlyMoves DEF Stop, Leave

LEMMA EngineRest ==
    ASSUME EngineInv, UNCHANGED sandbox
    PROVE  EngineInv'
<1>1. UNCHANGED <<action, records, resolutions, caller, dispatches>>
  BY DEF sandbox
<1>2. LifecycleOK' /\ RecordsOK'
  BY <1>1 DEF EngineInv, LifecycleOK, RecordsOK
<1>3. Grown
  BY <1>1, NothingGrown
<1>4. SavedOK'
  BY <1>1, <1>3, SavedKept
<1>5. ASSUME NEW c \in Resolvers PROVE ResolverOK(caller[c])'
  <2>1. PICK j : j = caller[c]
    OBVIOUS
  <2>2. ResolverOK(j)'
    BY <1>2, <1>3, <2>1, ResolverKept DEF EngineInv
  <2>3. caller'[c] = j
    BY <1>1, <2>1
  <2>4. QED
    BY <2>2, <2>3, Zenon DEF ResolverOK, Clamped
<1>6. QED
  BY <1>1, <1>2, <1>4, <1>5 DEF EngineInv

(* The sandbox engine, for any number of callers that interleave and stop: *)
(* one dispatch under a recorded plan, no end without a resolution that    *)
(* may end it, and no certainty beyond the reported records, whatever the  *)
(* spec (engine/resolver.ts).                                              *)
THEOREM EngineTheorem == SpecAll => []EngineHolds
<1>1. InitAll => EngineInv
  BY EngineInit DEF InitAll
<1>2. EngineInv /\ [NextAll]_<<followed, vars, reading, shadow, sandbox>> => EngineInv'
  <2>. SUFFICES ASSUME EngineInv, [NextAll]_<<followed, vars, reading, shadow, sandbox>>
                PROVE  EngineInv'
    OBVIOUS
  <2>1. ASSUME SandboxNext PROVE EngineInv'
    BY <2>1, IntentStep, PrepareStep, DispatchingStep, ObservingStep, ObserveStep, AppendStep,
       ResolveStep, ReconcilingStep, ReconcileStep, SaveStep, SettleStep, StopStep
       DEF SandboxNext
  <2>2. CASE UNCHANGED sandbox
    BY <2>2, EngineRest
  <2>3. QED
    BY <2>1, <2>2 DEF NextAll
<1>3. QED
  BY <1>1, <1>2, EngineGives, PTL DEF SpecAll
-----------------------------------------------------------------------------
(* A sequence is one over its own elements, and stays so.                  *)
LEMMA AppendAny ==
    ASSUME NEW s, s \in Seq({s[i] : i \in DOMAIN s}), NEW x
    PROVE  /\ Append(s, x) \in Seq({Append(s, x)[i] : i \in DOMAIN Append(s, x)})
           /\ Len(s) \in Nat /\ DOMAIN s = 1..Len(s) /\ DOMAIN Append(s, x) = 1..(Len(s) + 1)
           /\ Len(Append(s, x)) = Len(s) + 1
           /\ \A i \in 1..Len(s) : Append(s, x)[i] = s[i]
           /\ Append(s, x)[Len(s) + 1] = x
<1>1. PICK A : A = {s[i] : i \in DOMAIN s}
  OBVIOUS
<1>2. s \in Seq(A \union {x})
  BY <1>1
<1>3. PICK t : t = Append(s, x)
  OBVIOUS
<1>4. /\ t \in Seq(A \union {x})
           /\ Len(s) \in Nat /\ DOMAIN s = 1..Len(s) /\ DOMAIN t = 1..(Len(s) + 1)
           /\ Len(t) = Len(s) + 1
           /\ \A i \in 1..Len(s) : t[i] = s[i]
           /\ t[Len(s) + 1] = x
  BY <1>2, <1>3
<1>5. t \in Seq({t[i] : i \in DOMAIN t})
  BY <1>4
<1>6. QED
 BY <1>3, <1>4, <1>5
(* A set of at most one element.                                           *)
LEMMA AtMostOne == ASSUME NEW S, IsFiniteSet(S), ~(Cardinality(S) > 1)
   PROVE S = {} \/ \E r : S = {r}
<1>. SUFFICES ASSUME S # {} PROVE \E r : S = {r}
  OBVIOUS
<1>1. PICK r : r \in S
  OBVIOUS
<1>2. Cardinality(S \ {r}) = Cardinality(S) - 1 /\ IsFiniteSet(S \ {r}) /\ Cardinality(S) \in Nat /\ Cardinality(S \ {r}) \in Nat
  BY <1>1, FS_RemoveElement, FS_CardinalityType
<1>3. Cardinality(S \ {r}) = 0
  BY <1>2
<1>4. S \ {r} = {}
  BY <1>2, <1>3, FS_EmptySet
<1>5. S = {r}
  BY <1>1, <1>4
<1>6. QED
  BY <1>5
-----------------------------------------------------------------------------
(* The adapters: an attempt called "definitely_not_sent" was not sent.     *)
Places == {"idle", "read", "seen", "write", "sent", "report", "derive"}

Shaped(k) ==
    /\ k = [pc |-> k.pc, attempt |-> k.attempt, next |-> k.next, view |-> k.view,
            prior |-> k.prior, held |-> k.held, item |-> k.item, unsent |-> k.unsent]
    /\ k.pc \in Places /\ k.attempt \in 0..AttemptBudget

WorkersShaped ==
    /\ worker = [w \in Reading!Workers |-> worker[w]]
    /\ \A w \in Reading!Workers : Shaped(worker[w])

(* What was not sent yet.                                                  *)
Dispatching(k) ==
    /\ k.pc # "idle" => k.attempt # 0 /\ k.attempt \notin unsent
    /\ unsent \subseteq 1..k.attempt
    /\ \A n \in Reading!Tries : n > k.attempt \/ n \in unsent => request[n] = "none"
    /\ k.pc \in {"read", "seen", "write"} \/ (k.pc = "report" /\ k.unsent) =>
          request[k.attempt] = "none"

SendInv ==
    /\ effect \in {"okta", "refund", "capture"} /\ WorkersShaped
    /\ request \in [Reading!Tries -> {"none", "flying", "landed", "dropped"}]
    /\ Dispatching(worker["dispatcher"])

LEMMA SendGives == SendInv => Reading!UnsentIsUntouched
BY DEF SendInv, Dispatching, Reading!UnsentIsUntouched, WorkersShaped, Shaped, Reading!Workers,
       Reading!Tries, AttemptBudget, Reading!AttemptBudget

LEMMA RestingShaped == Shaped(Reading!Resting)
BY DEF Shaped, Reading!Resting, Places, AttemptBudget

LEMMA SendInit == Reading!Init => SendInv
<1>. SUFFICES ASSUME Reading!Init PROVE SendInv
  OBVIOUS
<1>1. /\ worker = [w \in Reading!Workers |-> Reading!Resting]
      /\ request = [n \in Reading!Tries |-> "none"] /\ unsent = {} /\ effect \in Effects
  BY DEF Reading!Init
<1>2. WorkersShaped
  BY <1>1, RestingShaped DEF WorkersShaped
<1>3. Dispatching(worker["dispatcher"])
  BY <1>1 DEF Dispatching, Reading!Workers, Reading!Resting, Reading!Tries
<1>4. QED
  BY <1>1, <1>2, <1>3, EffectsAssumption DEF SendInv

(* One worker moves.                                                       *)
LEMMA WorkerMoves ==
    ASSUME WorkersShaped, NEW w \in Reading!Workers, NEW k, Shaped(k), Reading!Becomes(w, k)
    PROVE  /\ WorkersShaped' /\ worker'[w] = k
           /\ \A v \in Reading!Workers : v # w => worker'[v] = worker[v]
BY DEF WorkersShaped, Reading!Becomes

(* The provider changes: those in the middle of a read see it.             *)
LEMMA WorkersSee ==
    ASSUME WorkersShaped, NEW o, Reading!Changes(o)
    PROVE  /\ WorkersShaped'
           /\ \A w \in Reading!Workers :
                \/ worker[w].pc # "read" /\ worker'[w] = worker[w]
                \/ /\ worker[w].pc = "read"
                   /\ worker'[w] = [worker[w] EXCEPT !.held = @ \union {Reading!Reached(o)}]
<1>1. worker' = [w \in Reading!Workers |-> IF worker[w].pc = "read"
                       THEN [worker[w] EXCEPT !.held = @ \union {Reading!Reached(o)}]
                       ELSE worker[w]]
  BY DEF Reading!Changes
<1>2. ASSUME NEW w \in Reading!Workers
      PROVE  /\ Shaped(worker'[w])
             /\ \/ worker[w].pc # "read" /\ worker'[w] = worker[w]
                \/ /\ worker[w].pc = "read"
                   /\ worker'[w] = [worker[w] EXCEPT !.held = @ \union {Reading!Reached(o)}]
  <2>1. PICK k : k = worker[w]
    OBVIOUS
  <2>2. Shaped(k)
    BY <2>1 DEF WorkersShaped
  <2>3. PICK x : x = k.held \union {Reading!Reached(o)}
    OBVIOUS
  <2>4. PICK j : j = [k EXCEPT !.held = x]
    OBVIOUS
  <2>5. Shaped(j)
    BY <2>2, <2>4 DEF Shaped
  <2>6. QED
    BY <1>1, <2>1, <2>2, <2>3, <2>4, <2>5
<1>3. QED
  BY <1>1, <1>2 DEF WorkersShaped

(* The workers of the adapters.                                            *)
LEMMA Names == Reading!Workers = {"dispatcher", "observer"} /\ Reading!Tries = {1, 2}
                 /\ AttemptBudget = 2
BY DEF Reading!Workers, Reading!Tries, Reading!AttemptBudget, AttemptBudget

(* A worker reports.                                                       *)
LEMMA Reporter ==
    ASSUME WorkersShaped, NEW w \in Reading!Workers, NEW item, NEW notSent,
           Reading!Reports(w, item, notSent)
    PROVE  \E k : /\ k = [worker[w] EXCEPT !.pc = "report", !.item = item, !.unsent = notSent,
                                           !.view = Reading!Unread, !.next = 1]
                  /\ Shaped(k) /\ Reading!Becomes(w, k)
<1>1. PICK j : j = worker[w]
  OBVIOUS
<1>2. PICK k : k = [j EXCEPT !.pc = "report", !.item = item, !.unsent = notSent,
                             !.view = Reading!Unread, !.next = 1]
  OBVIOUS
<1>3. Shaped(j)
  BY <1>1 DEF WorkersShaped
<1>4. Shaped(k)
  BY <1>2, <1>3 DEF Shaped, Places
<1>5. QED
  BY <1>1, <1>2, <1>4 DEF Reading!Reports

LEMMA ReportSends ==
    ASSUME SendInv, NEW item, NEW notSent, Reading!Reports("dispatcher", item, notSent),
           worker["dispatcher"].pc # "idle",
           notSent => worker["dispatcher"].pc \in {"read", "seen", "write"},
           UNCHANGED <<effect, request, unsent>>
    PROVE  SendInv'
<1>1. PICK k : /\ k = [worker["dispatcher"] EXCEPT !.pc = "report", !.item = item,
                                 !.unsent = notSent, !.view = Reading!Unread, !.next = 1]
               /\ Shaped(k) /\ Reading!Becomes("dispatcher", k)
  BY Reporter, Names DEF SendInv
<1>2. WorkersShaped' /\ worker'["dispatcher"] = k
  BY <1>1, WorkerMoves, Names DEF SendInv
<1>3. k.pc = "report" /\ k.attempt = worker["dispatcher"].attempt /\ k.unsent = notSent
  BY <1>1, Names DEF SendInv, WorkersShaped, Shaped
<1>4. QED
  BY <1>2, <1>3 DEF SendInv, Dispatching

(* What does not concern the dispatcher.                                   *)
LEMMA ObserverSends ==
    ASSUME SendInv, NEW k, Shaped(k), Reading!Becomes("observer", k), UNCHANGED <<effect, request, unsent>>
    PROVE  SendInv'
BY WorkerMoves, Names DEF SendInv, Dispatching

LEMMA DispatchSends ==
    ASSUME SendInv, NEW n \in Reading!Tries, Reading!Dispatch(n)
    PROVE  SendInv'
<1>1. PICK k : k = [Reading!Resting EXCEPT !.pc = "read", !.attempt = n,
                                           !.held = {Reading!Reached(object)}]
  OBVIOUS
<1>2. Shaped(k) /\ k.pc = "read" /\ k.attempt = n
  <2>1. PICK h : h = {Reading!Reached(object)}
    OBVIOUS
  <2>2. k = [pc |-> "read", attempt |-> n, next |-> 1, view |-> Reading!Unread, prior |-> 0,
             held |-> h, item |-> Reading!ResponseItem, unsent |-> FALSE]
    BY <1>1, <2>1 DEF Reading!Resting
  <2>3. n \in 0..AttemptBudget
    BY Names
  <2>4. QED
    BY <2>2, <2>3 DEF Shaped, Places
<1>3. Reading!Becomes("dispatcher", k) /\ worker["dispatcher"].attempt = n - 1
      /\ UNCHANGED <<effect, request, unsent>>
  BY <1>1 DEF Reading!Dispatch, Reading!world
<1>4. WorkersShaped' /\ worker'["dispatcher"] = k
  BY <1>2, <1>3, WorkerMoves, Names DEF SendInv
<1>5. QED
  BY <1>2, <1>3, <1>4, Names DEF SendInv, Dispatching

LEMMA ChangeSends ==
    ASSUME SendInv, NEW o, Reading!Changes(o), UNCHANGED <<effect, unsent>>,
           \/ UNCHANGED request
           \/ \E n \in Reading!Tries : request[n] = "flying" /\ request' = [request EXCEPT ![n] = "landed"]
    PROVE  SendInv'
<1>1. PICK j, k : j = worker["dispatcher"] /\ k = worker'["dispatcher"]
  OBVIOUS
<1>2. WorkersShaped'
  BY WorkersSee DEF SendInv
<1>3. k.pc = j.pc /\ k.attempt = j.attempt /\ k.unsent = j.unsent
  <2>1. k = j \/ k = [j EXCEPT !.held = @ \union {Reading!Reached(o)}]
    BY <1>1, WorkersSee, Names DEF SendInv
  <2>2. Shaped(j)
    BY <1>1, Names DEF SendInv, WorkersShaped
  <2>3. QED
    BY <2>1, <2>2 DEF Shaped
<1>4. /\ request' \in [Reading!Tries -> {"none", "flying", "landed", "dropped"}]
      /\ \A n \in Reading!Tries : request[n] = "none" => request'[n] = "none"
  BY DEF SendInv
<1>5. j.attempt \in 0..2
  BY <1>1, Names DEF SendInv, WorkersShaped, Shaped
<1>6. QED
  BY <1>1, <1>2, <1>3, <1>4, <1>5, Names DEF SendInv, Dispatching

LEMMA DropSends ==
    ASSUME SendInv, NEW n \in Reading!Tries, Reading!Drop(n)
    PROVE  SendInv'
<1>1. UNCHANGED <<effect, worker, unsent>> /\ request[n] = "flying" /\ request' = [request EXCEPT ![n] = "dropped"]
  BY DEF Reading!Drop
<1>2. /\ request' \in [Reading!Tries -> {"none", "flying", "landed", "dropped"}]
      /\ \A m \in Reading!Tries : request[m] = "none" => request'[m] = "none"
  BY <1>1 DEF SendInv
<1>3. worker["dispatcher"].attempt \in 0..2
  BY Names DEF SendInv, WorkersShaped, Shaped
<1>4. QED
  BY <1>1, <1>2, <1>3, Names DEF SendInv, Dispatching, WorkersShaped

LEMMA ReadSends ==
    ASSUME SendInv, NEW w \in Reading!Workers, Reading!Read(w)
    PROVE  SendInv'
<1>0. PICK part : part = Reading!Reads[worker[w].next]
  OBVIOUS
<1>1. PICK view, next, pc :
        pc \in {"read", "seen"} /\
        Reading!Becomes(w, [worker[w] EXCEPT !.view = view, !.next = next, !.pc = pc])
  <2>1. PICK view : view = IF part \in DOMAIN worker[w].view
                           THEN [worker[w].view EXCEPT ![part] = object[part]]
                           ELSE worker[w].view
    OBVIOUS
  <2>2. PICK pc : pc = IF worker[w].next = Len(Reading!Reads) THEN "seen" ELSE worker[w].pc
    OBVIOUS
  <2>3. /\ pc \in {"read", "seen"}
        /\ Reading!Becomes(w, [worker[w] EXCEPT !.view = view, !.next = worker[w].next + 1, !.pc = pc])
    BY <1>0, <2>1, <2>2 DEF Reading!Read
  <2>4. QED
    BY <2>3
<1>2. PICK k : k = [worker[w] EXCEPT !.view = view, !.next = next, !.pc = pc]
  OBVIOUS
<1>3. Shaped(k) /\ k.pc = pc /\ k.attempt = worker[w].attempt /\ k.unsent = worker[w].unsent
  <2>1. PICK j : j = worker[w]
    OBVIOUS
  <2>2. Shaped(j) /\ pc \in Places
    BY <1>1, <2>1 DEF SendInv, WorkersShaped, Places
  <2>3. k = [j EXCEPT !.view = view, !.next = next, !.pc = pc]
    BY <1>2, <2>1
  <2>4. Shaped(k) /\ k.pc = pc /\ k.attempt = j.attempt /\ k.unsent = j.unsent
    BY <2>2, <2>3 DEF Shaped
  <2>5. QED
    BY <2>1, <2>4
<1>4. Reading!Becomes(w, k) /\ worker[w].pc = "read" /\ UNCHANGED <<effect, request, unsent>>
  BY <1>1, <1>2 DEF Reading!Read, Reading!world
<1>5. WorkersShaped' /\ worker'[w] = k
      /\ \A v \in Reading!Workers : v # w => worker'[v] = worker[v]
  BY <1>3, <1>4, WorkerMoves DEF SendInv
<1>6. CASE w = "dispatcher"
  BY <1>3, <1>4, <1>5, <1>6, Names DEF SendInv, Dispatching
<1>7. CASE w # "dispatcher"
  BY <1>4, <1>5, <1>7, Names DEF SendInv, Dispatching
<1>8. QED
  BY <1>6, <1>7

LEMMA DecideSends ==
    ASSUME SendInv, Reading!Decide
    PROVE  SendInv'
<1>1. UNCHANGED <<effect, request, unsent>> /\ worker["dispatcher"].pc = "seen"
  BY DEF Reading!Decide, Reading!world
<1>2. \/ \E item, notSent : Reading!Reports("dispatcher", item, notSent)
      \/ Reading!Becomes("dispatcher", [worker["dispatcher"] EXCEPT !.pc = "write"])
  BY DEF Reading!Decide, Reading!world
<1>3. CASE \E item, notSent : Reading!Reports("dispatcher", item, notSent)
  BY <1>1, <1>3, ReportSends
<1>4. CASE Reading!Becomes("dispatcher", [worker["dispatcher"] EXCEPT !.pc = "write"])
  <2>1. PICK j : j = worker["dispatcher"]
    OBVIOUS
  <2>2. PICK k : k = [j EXCEPT !.pc = "write"]
    OBVIOUS
  <2>3. Shaped(j)
    BY <2>1, Names DEF SendInv, WorkersShaped
  <2>4. Shaped(k) /\ k.pc = "write" /\ k.attempt = j.attempt
    BY <2>2, <2>3 DEF Shaped, Places
  <2>5. WorkersShaped' /\ worker'["dispatcher"] = k
    BY <1>4, <2>1, <2>2, <2>4, WorkerMoves, Names DEF SendInv
  <2>6. QED
    BY <1>1, <2>1, <2>4, <2>5 DEF SendInv, Dispatching
<1>5. QED
  BY <1>2, <1>3, <1>4

LEMMA FailsSends ==
    ASSUME SendInv, Reading!DispatchFails
    PROVE  SendInv'
<1>1. PICK item, notSent : Reading!Reports("dispatcher", item, notSent)
  BY DEF Reading!DispatchFails, Reading!world
<1>2. worker["dispatcher"].pc \in {"read", "write"} /\ UNCHANGED <<effect, request, unsent>>
  BY DEF Reading!DispatchFails, Reading!world
<1>3. QED
  BY <1>1, <1>2, ReportSends

LEMMA SendSends ==
    ASSUME SendInv, Reading!Send
    PROVE  SendInv'
<1>1. PICK j : j = worker["dispatcher"]
  OBVIOUS
<1>2. PICK k : k = [j EXCEPT !.pc = "sent"]
  OBVIOUS
<1>3. Shaped(j)
  BY <1>1, Names DEF SendInv, WorkersShaped
<1>4. Shaped(k) /\ k.pc = "sent" /\ k.attempt = j.attempt
  BY <1>2, <1>3 DEF Shaped, Places
<1>5. /\ j.pc = "write" /\ Reading!Becomes("dispatcher", k) /\ UNCHANGED <<effect, unsent>>
      /\ request' = [request EXCEPT ![j.attempt] = "flying"]
  BY <1>1, <1>2 DEF Reading!Send, Reading!world
<1>6. WorkersShaped' /\ worker'["dispatcher"] = k
  BY <1>4, <1>5, WorkerMoves, Names DEF SendInv
<1>7. /\ request' \in [Reading!Tries -> {"none", "flying", "landed", "dropped"}]
      /\ \A n \in Reading!Tries : n # j.attempt => request'[n] = request[n]
  BY <1>5 DEF SendInv
<1>8. j.attempt \in {1, 2} /\ j.attempt \notin unsent /\ unsent \subseteq 1..j.attempt
      /\ \A n \in Reading!Tries : n > j.attempt \/ n \in unsent => request[n] = "none"
  BY <1>1, <1>3, <1>5, Names DEF SendInv, Dispatching, Shaped
<1>9. QED
  BY <1>4, <1>5, <1>6, <1>7, <1>8, Names DEF SendInv, Dispatching

LEMMA RespondSends ==
    ASSUME SendInv, Reading!Respond
    PROVE  SendInv'
<1>1. Reading!Reports("dispatcher", Reading!ResponseItem, FALSE)
      /\ worker["dispatcher"].pc = "sent" /\ UNCHANGED <<effect, request, unsent>>
  BY DEF Reading!Respond, Reading!world
<1>2. QED
  BY <1>1, ReportSends

(* After the send no error proves that nothing was sent.                   *)
LEMMA ResponseFailsSends ==
    ASSUME SendInv, Reading!ResponseFails
    PROVE  SendInv'
<1>1. PICK cause : Reading!Reports("dispatcher", Reading!TransportItem,
                                   Reading!ProvesNotSent(cause, TRUE))
  BY DEF Reading!ResponseFails, Reading!world
<1>2. worker["dispatcher"].pc = "sent" /\ UNCHANGED <<effect, request, unsent>>
  BY DEF Reading!ResponseFails, Reading!world
<1>3. ~Reading!ProvesNotSent(cause, TRUE)
  BY <1>2 DEF Reading!ProvesNotSent
<1>4. QED
  BY <1>1, <1>2, <1>3, ReportSends

LEMMA ReportedSends ==
    ASSUME SendInv, Reading!AppendReported
    PROVE  SendInv'
<1>1. PICK j : j = worker["dispatcher"]
  OBVIOUS
<1>2. Shaped(j) /\ j.pc = "report" /\ j.attempt \in {0, 1, 2}
  BY <1>1, Names DEF SendInv, WorkersShaped, Reading!AppendReported, Shaped
<1>3. PICK k : k = [Reading!Resting EXCEPT !.attempt = j.attempt]
  OBVIOUS
<1>4. Shaped(k) /\ k.pc = "idle" /\ k.attempt = j.attempt
  <2>1. k = [pc |-> "idle", attempt |-> j.attempt, next |-> 1, view |-> Reading!Unread, prior |-> 0,
             held |-> {}, item |-> Reading!ResponseItem, unsent |-> FALSE]
    BY <1>3 DEF Reading!Resting
  <2>2. QED
    BY <1>2, <2>1, Names DEF Shaped, Places
<1>5. /\ Reading!Becomes("dispatcher", k) /\ UNCHANGED <<effect, request>>
      /\ unsent' = IF j.unsent THEN unsent \union {j.attempt} ELSE unsent
  BY <1>1, <1>3 DEF Reading!AppendReported, Reading!world
<1>6. WorkersShaped' /\ worker'["dispatcher"] = k
  BY <1>4, <1>5, WorkerMoves, Names DEF SendInv
<1>7. /\ j.attempt \in {1, 2} /\ unsent \subseteq 1..j.attempt
      /\ \A n \in Reading!Tries : n > j.attempt \/ n \in unsent => request[n] = "none"
      /\ j.unsent => request[j.attempt] = "none"
  BY <1>1, <1>2, Names DEF SendInv, Dispatching
<1>8. CASE j.unsent
  <2>1. unsent' = unsent \union {j.attempt} /\ request' = request /\ effect' = effect
    BY <1>5, <1>8
  <2>2. unsent' \subseteq 1..k.attempt
    <3>1. PICK m \in {1, 2} : m = j.attempt
      BY <1>7
    <3>2. unsent \subseteq 1..m /\ m \in 1..m
      BY <1>7, <3>1
    <3>3. unsent' = unsent \union {m} /\ k.attempt = m
      BY <1>4, <2>1, <3>1
    <3>4. QED
      BY <3>2, <3>3
  <2>3. \A n \in Reading!Tries : n > k.attempt \/ n \in unsent' => request'[n] = "none"
    BY <1>4, <1>7, <1>8, <2>1
  <2>4. QED
    BY <1>4, <1>6, <2>1, <2>2, <2>3 DEF SendInv, Dispatching
<1>9. CASE ~j.unsent
  BY <1>4, <1>5, <1>6, <1>7, <1>9, Names DEF SendInv, Dispatching
<1>10. QED
  BY <1>8, <1>9

LEMMA ObserveSends ==
    ASSUME SendInv,
           \/ Reading!Observe \/ Reading!Observed \/ Reading!ObserveFails
           \/ Reading!AppendObservation \/ Reading!Derive
    PROVE  SendInv'
<1>1. UNCHANGED <<effect, request, unsent>>
  BY DEF Reading!Observe, Reading!Observed, Reading!ObserveFails, Reading!AppendObservation,
         Reading!Derive, Reading!world
<1>2. CASE \E item, notSent : Reading!Reports("observer", item, notSent)
  <2>1. PICK item, notSent : Reading!Reports("observer", item, notSent)
    BY <1>2
  <2>2. PICK k : Shaped(k) /\ Reading!Becomes("observer", k)
    BY <2>1, Reporter, Names DEF SendInv
  <2>3. QED
    BY <1>1, <2>2, ObserverSends
<1>3. CASE Reading!Observe
  <2>1. PICK n, h : n = Len(items) /\ h = {Reading!Reached(object)}
    OBVIOUS
  <2>2. PICK k : k = [Reading!Resting EXCEPT !.pc = "read", !.prior = n, !.held = h]
    OBVIOUS
  <2>3. k = [pc |-> "read", attempt |-> 0, next |-> 1, view |-> Reading!Unread, prior |-> n,
             held |-> h, item |-> Reading!ResponseItem, unsent |-> FALSE]
    BY <2>2 DEF Reading!Resting
  <2>4. Shaped(k)
    BY <2>3, Names DEF Shaped, Places
  <2>5. Reading!Becomes("observer", k)
    BY <1>3, <2>1, <2>2 DEF Reading!Observe
  <2>6. QED
    BY <1>1, <2>4, <2>5, ObserverSends
<1>4. CASE Reading!AppendObservation
  <2>1. PICK k : k = [Reading!Resting EXCEPT !.pc = "derive"]
    OBVIOUS
  <2>2. k = [pc |-> "derive", attempt |-> 0, next |-> 1, view |-> Reading!Unread, prior |-> 0,
             held |-> {}, item |-> Reading!ResponseItem, unsent |-> FALSE]
    BY <2>1 DEF Reading!Resting
  <2>3. Shaped(k)
    BY <2>2, Names DEF Shaped, Places
  <2>4. QED
    BY <1>1, <1>4, <2>1, <2>3, ObserverSends DEF Reading!AppendObservation
<1>5. CASE Reading!Derive
  BY <1>1, <1>5, RestingShaped, ObserverSends DEF Reading!Derive, Reading!Rest
<1>6. QED
  BY <1>2, <1>3, <1>4, <1>5 DEF Reading!Observed, Reading!ObserveFails

LEMMA SendRest ==
    ASSUME SendInv, UNCHANGED <<effect, worker, request, unsent>>
    PROVE  SendInv'
BY DEF SendInv, WorkersShaped, Dispatching

LEMMA SendStep ==
    ASSUME SendInv, Reading!Next
    PROVE  SendInv'
<1>1. ASSUME NEW n \in Reading!Tries, Reading!Land(n) PROVE SendInv'
  <2>1. PICK o : Reading!Changes(o)
    BY <1>1 DEF SendInv, Reading!Land, Reading!Takes
  <2>2. QED
    BY <1>1, <2>1, ChangeSends DEF Reading!Land, Reading!world
<1>2. ASSUME Reading!Change PROVE SendInv'
  BY <1>2, ChangeSends DEF Reading!Change
<1>3. ASSUME Reading!WindowElapses PROVE SendInv'
  BY <1>3, SendRest DEF Reading!WindowElapses
<1>4. QED
  BY <1>1, <1>2, <1>3, DispatchSends, DropSends, ReadSends, DecideSends, FailsSends, SendSends,
     RespondSends, ResponseFailsSends, ReportedSends, ObserveSends
     DEF Reading!Next
-----------------------------------------------------------------------------
(* What the adapters claim was so while they read.                         *)
Rows == [exact : BOOLEAN, status : {"pending", "succeeded", "failed"}, mine : BOOLEAN]
Paid == [status : {"requires_capture", "processing", "succeeded", "canceled"},
         received : {"none", "exact", "other"}, mine : BOOLEAN]

(* By whom a part of the object, taken alone, says the goal was reached.   *)
SuspendedBy(user) ==
    IF user.status = "SUSPENDED" /\ ~user.moving THEN "other" ELSE "nobody"
RefundedBy(refunds) ==
    IF \E r \in refunds : refunds = {r} /\ r.exact /\ r.status = "succeeded"
    THEN IF \E r \in refunds : r.mine THEN "mine" ELSE "other"
    ELSE "nobody"
CapturedBy(payment) ==
    IF payment.status = "succeeded" /\ payment.received = "exact"
    THEN IF payment.mine THEN "mine" ELSE "other"
    ELSE "nobody"

Well(o) ==
    /\ o = [user |-> o.user, payment |-> o.payment, charge |-> o.charge, refunds |-> o.refunds]
    /\ effect # "okta" =>
          /\ o.payment \in Paid
          /\ o.refunds \subseteq Rows /\ IsFiniteSet(o.refunds)
          /\ o.charge = Reading!ChargeOf(o.refunds)

ObjectOK == Well(object)

(* Whether the first n parts were read.                                    *)
Has(k, n) == k.pc = "seen" \/ (k.pc = "read" /\ k.next > n)

(* What was read, part by part.  A capture is refunded for good, so that a *)
(* payment without refunds had none when it was read.                      *)
ViewOK(k) ==
    /\ k.view = [part \in {"user", "payment", "charge", "refunds"} |-> k.view[part]]
    /\ k.pc = "read" => Reading!Reached(object) \in k.held
                        /\ k.next \in 1..(IF effect = "okta" THEN 2 ELSE 4)
    /\ effect = "okta" /\ Has(k, 1) => SuspendedBy(k.view["user"]) \in k.held
    /\ effect = "refund" /\ Has(k, 3) =>
          /\ k.view["charge"] \in {"none", "exact", "other"}
          /\ k.view["charge"] = "none" => "nobody" \in k.held
    /\ effect = "refund" /\ k.pc = "seen" =>
          /\ k.view["refunds"] \subseteq Rows /\ IsFiniteSet(k.view["refunds"])
          /\ RefundedBy(k.view["refunds"]) \in k.held
    /\ effect = "capture" /\ Has(k, 2) =>
          /\ CapturedBy(k.view["payment"]) = "nobody" => "nobody" \in k.held
          /\ (IF k.pc = "seen" THEN k.view["refunds"] ELSE object.refunds) = {} =>
                CapturedBy(k.view["payment"]) \in k.held

(* What a snapshot says was so at some moment of the read.                 *)
Claimed(item) ==
    item.type = "snapshot" =>
      IF effect = "okta" THEN (IF item.says.goal THEN "other" ELSE "nobody") \in item.held
      ELSE LET e == item.says.found IN
           /\ e.goal /\ e.mine => "mine" \in item.held
           /\ e.goal /\ ~e.mine => "other" \in item.held
           /\ ~e.goal /\ ~e.inconsistent /\ ~e.pending => "nobody" \in item.held

Tells(k) ==
    /\ k.prior \in Nat /\ k.prior <= Len(items)
    /\ k.pc = "report" => Claimed(k.item) /\ k.item.supersedes \in 0..Len(items)

Listed(l) ==
    /\ l \in Seq({l[i] : i \in DOMAIN l})
    /\ \A i \in DOMAIN l : Claimed(l[i]) /\ l[i].supersedes \in 0..(i - 1)

ClaimOK ==
    /\ claim.state \in EffectStates \union {"none"}
    /\ claim.cited \subseteq DOMAIN items
    /\ Reading!ClaimsHeldWhenRead

ReadInv ==
    /\ operation \in {"change", "observe_only"} /\ elapsed \in BOOLEAN
    /\ ObjectOK
    /\ \A w \in Reading!Workers : ViewOK(worker[w]) /\ Tells(worker[w])
    /\ Listed(items) /\ ClaimOK

LEMMA ReachedBy ==
    ASSUME effect \in {"okta", "refund", "capture"}, NEW o
    PROVE  Reading!Reached(o) =
             CASE effect = "okta" -> SuspendedBy(o.user)
               [] effect = "refund" -> RefundedBy(o.refunds)
               [] effect = "capture" -> IF o.refunds = {} THEN CapturedBy(o.payment) ELSE "nobody"
<1>1. CASE effect = "okta"
  BY <1>1 DEF Reading!Reached, SuspendedBy, Reading!Desired
<1>2. CASE effect = "refund"
  BY <1>2 DEF Reading!Reached, RefundedBy
<1>3. CASE effect = "capture"
  BY <1>3 DEF Reading!Reached, CapturedBy
<1>4. QED
  BY <1>1, <1>2, <1>3

LEMMA OktaReached == effect = "okta" => \A o : Reading!Reached(o) = SuspendedBy(o.user)
BY ReachedBy
LEMMA RefundReached == effect = "refund" => \A o : Reading!Reached(o) = RefundedBy(o.refunds)
BY ReachedBy
LEMMA CaptureReached ==
    effect = "capture" =>
      \A o : Reading!Reached(o) = IF o.refunds = {} THEN CapturedBy(o.payment) ELSE "nobody"
BY ReachedBy

LEMMA SameCount == ASSUME NEW S PROVE Reading!Cardinality(S) = Cardinality(S)
BY DEF Reading!Cardinality, Cardinality

(* What the adapter makes of a refund it read is so.                       *)
LEMMA RefundClaimed ==
    ASSUME NEW view, NEW held, view.refunds \subseteq Rows, IsFiniteSet(view.refunds),
           view.charge \in {"none", "exact", "other"}, view.charge = "none" => "nobody" \in held,
           RefundedBy(view.refunds) \in held
    PROVE  LET e == Reading!RefundEvaluated(view) IN
           /\ e.goal /\ e.mine => "mine" \in held
           /\ e.goal /\ ~e.mine => "other" \in held
           /\ ~e.goal /\ ~e.inconsistent /\ ~e.pending => "nobody" \in held
<1>1. PICK rs : rs = view.refunds
  OBVIOUS
<1>2. PICK e : e = Reading!RefundEvaluated(view)
  OBVIOUS
<1>3. PICK inconsistent \in BOOLEAN :
        inconsistent <=> \/ Reading!Cardinality(rs) > 1 \/ \E r \in rs : ~r.exact
                         \/ view.charge = "other"
  OBVIOUS
<1>4. PICK won \in BOOLEAN : won <=> \E r \in rs : r.exact /\ r.status = "succeeded"
  OBVIOUS
<1>5. /\ e.goal <=> ~inconsistent /\ won /\ view.charge = "exact"
      /\ e.inconsistent <=> inconsistent
      /\ e.mine <=> \E r \in rs : r.exact /\ r.status = "succeeded" /\ r.mine
  BY <1>1, <1>2, <1>3, <1>4 DEF Reading!RefundEvaluated, Reading!Evaluation
<1>6. ~inconsistent => (rs = {} \/ \E r : rs = {r}) /\ \A r \in rs : r.exact
  BY <1>1, <1>3, AtMostOne, SameCount
<1>7. ~inconsistent /\ won => \E r \in rs : rs = {r} /\ r.exact /\ r.status = "succeeded"
  BY <1>4, <1>6
<1>8. RefundedBy(rs) \in held
  BY <1>1
<1>9. e.goal => RefundedBy(rs) = IF e.mine THEN "mine" ELSE "other"
  BY <1>5, <1>7 DEF RefundedBy
<1>10. ~e.goal /\ ~e.inconsistent => "nobody" \in held
  <2>1. CASE won
    <3>1. ~e.inconsistent => view.charge = "none" \/ view.charge = "exact"
      BY <1>3, <1>5
    <3>2. ~e.goal /\ ~e.inconsistent => view.charge # "exact"
      BY <1>5, <2>1
    <3>3. QED
      BY <3>1, <3>2
  <2>2. CASE ~won
    BY <1>4, <1>8, <2>2 DEF RefundedBy
  <2>3. QED
    BY <2>1, <2>2
<1>11. QED
  BY <1>2, <1>8, <1>9, <1>10

LEMMA CaptureClaimed ==
    ASSUME NEW view, NEW held,
           CapturedBy(view.payment) = "nobody" => "nobody" \in held,
           view.refunds = {} => CapturedBy(view.payment) \in held
    PROVE  LET e == Reading!CaptureEvaluated(view) IN
           /\ e.goal /\ e.mine => "mine" \in held
           /\ e.goal /\ ~e.mine => "other" \in held
           /\ ~e.goal /\ ~e.inconsistent /\ ~e.pending => "nobody" \in held
<1>1. PICK p : p = view.payment
  OBVIOUS
<1>2. PICK e : e = Reading!CaptureEvaluated(view)
  OBVIOUS
<1>3. PICK won \in BOOLEAN : won <=> p.status = "succeeded" /\ p.received = "exact"
  OBVIOUS
<1>4. /\ e.goal <=> won /\ view.refunds = {} /\ view.charge = "none"
      /\ e.mine <=> e.goal /\ p.mine
      /\ ~e.inconsistent => /\ view.refunds = {} /\ view.charge = "none"
                            /\ p.status = "succeeded" => p.received = "exact"
  BY <1>1, <1>2, <1>3 DEF Reading!CaptureEvaluated, Reading!Evaluation
<1>5. e.goal => CapturedBy(p) = IF e.mine THEN "mine" ELSE "other"
  BY <1>3, <1>4 DEF CapturedBy
<1>6. ~e.goal /\ ~e.inconsistent => CapturedBy(p) = "nobody"
  BY <1>3, <1>4 DEF CapturedBy
<1>7. e.goal => CapturedBy(p) \in held
  BY <1>1, <1>4
<1>8. QED
  BY <1>1, <1>2, <1>5, <1>6, <1>7

(* A snapshot of what was read.                                            *)
LEMMA SnapshotClaimed ==
    ASSUME SendInv, NEW w \in Reading!Workers, NEW k, k = worker[w], k.pc = "seen", ViewOK(k),
           NEW late, NEW item, item = Reading!SnapshotItem(w, late)
    PROVE  /\ Claimed(item) /\ item.supersedes = 0 /\ item.type = "snapshot"
           /\ item = [type |-> item.type, says |-> item.says, facets |-> item.facets,
                      held |-> item.held, supersedes |-> item.supersedes]
<1>1. CASE effect = "okta"
  <2>1. /\ item.type = "snapshot" /\ item.supersedes = 0 /\ item.held = k.held
        /\ item.says.goal <=> Reading!OktaGoal(k.view.user, Reading!Desired)
        /\ item = [type |-> item.type, says |-> item.says, facets |-> item.facets,
                   held |-> item.held, supersedes |-> item.supersedes]
    BY <1>1 DEF Reading!SnapshotItem, Reading!OktaSnapshot, Reading!Item
  <2>2. SuspendedBy(k.view.user) \in k.held
    BY <1>1 DEF ViewOK, Has
  <2>3. item.says.goal <=> SuspendedBy(k.view.user) = "other"
    BY <2>1 DEF Reading!OktaGoal, Reading!Desired, SuspendedBy
  <2>4. SuspendedBy(k.view.user) = IF item.says.goal THEN "other" ELSE "nobody"
    BY <2>3 DEF SuspendedBy
  <2>5. QED
    BY <1>1, <2>1, <2>2, <2>4 DEF Claimed
<1>2. CASE effect # "okta"
  <2>1. /\ item.type = "snapshot" /\ item.supersedes = 0 /\ item.held = k.held
        /\ item.says.found = Reading!StripeEvaluated(effect, k.view)
        /\ item = [type |-> item.type, says |-> item.says, facets |-> item.facets,
                   held |-> item.held, supersedes |-> item.supersedes]
    BY <1>2 DEF Reading!SnapshotItem, Reading!StripeSnapshot, Reading!Item
  <2>2. CASE effect = "refund"
    <3>1. item.says.found = Reading!RefundEvaluated(k.view)
      BY <2>1, <2>2 DEF Reading!StripeEvaluated
    <3>2. /\ k.view.refunds \subseteq Rows /\ IsFiniteSet(k.view.refunds)
          /\ k.view.charge \in {"none", "exact", "other"}
          /\ k.view.charge = "none" => "nobody" \in k.held
          /\ RefundedBy(k.view.refunds) \in k.held
      BY <2>2 DEF ViewOK, Has
    <3>3. LET e == Reading!RefundEvaluated(k.view) IN
           /\ e.goal /\ e.mine => "mine" \in k.held
           /\ e.goal /\ ~e.mine => "other" \in k.held
           /\ ~e.goal /\ ~e.inconsistent /\ ~e.pending => "nobody" \in k.held
      BY <3>2, RefundClaimed
    <3>4. QED
      BY <1>2, <2>1, <3>1, <3>3 DEF Claimed
  <2>3. CASE effect = "capture"
    <3>1. item.says.found = Reading!CaptureEvaluated(k.view)
      BY <2>1, <2>3 DEF Reading!StripeEvaluated
    <3>2. /\ CapturedBy(k.view.payment) = "nobody" => "nobody" \in k.held
          /\ k.view.refunds = {} => CapturedBy(k.view.payment) \in k.held
      BY <2>3 DEF ViewOK, Has
    <3>3. LET e == Reading!CaptureEvaluated(k.view) IN
           /\ e.goal /\ e.mine => "mine" \in k.held
           /\ e.goal /\ ~e.mine => "other" \in k.held
           /\ ~e.goal /\ ~e.inconsistent /\ ~e.pending => "nobody" \in k.held
      BY <3>2, CaptureClaimed
    <3>4. QED
      BY <1>2, <2>1, <3>1, <3>3 DEF Claimed
  <2>4. QED
    BY <1>2, <2>2, <2>3 DEF SendInv
<1>3. QED
  BY <1>1, <1>2

(* What says nothing of the object claims nothing.                         *)
LEMMA MuteClaimed ==
    ASSUME NEW item, \/ item \in {Reading!ResponseItem, Reading!TransportItem, Reading!NotSentItem}
                     \/ \E category : item = Reading!FailureItem(category)
    PROVE  /\ Claimed(item) /\ item.supersedes = 0
           /\ item = [type |-> item.type, says |-> item.says, facets |-> item.facets,
                      held |-> item.held, supersedes |-> item.supersedes]
BY DEF Claimed, Reading!ResponseItem, Reading!TransportItem, Reading!NotSentItem,
       Reading!FailureItem, Reading!Item

(* The object stays what the adapters can read.                            *)
LEMMA RefundsReplaced ==
    ASSUME ObjectOK, effect # "okta", NEW refunds, refunds \subseteq Rows, IsFiniteSet(refunds)
    PROVE  Well(Reading!WithRefunds(refunds)) /\ Reading!WithRefunds(refunds).refunds = refunds
<1>1. PICK o : o = Reading!WithRefunds(refunds)
  OBVIOUS
<1>2. PICK c : c = Reading!ChargeOf(refunds)
  OBVIOUS
<1>3. o = [object EXCEPT !.refunds = refunds, !.charge = c]
  BY <1>1, <1>2 DEF Reading!WithRefunds
<1>4. o = [user |-> object.user, payment |-> object.payment, charge |-> c, refunds |-> refunds]
  BY <1>3 DEF ObjectOK, Well
<1>5. Well(o) /\ o.refunds = refunds
  BY <1>2, <1>4 DEF ObjectOK, Well
<1>6. QED
  BY <1>1, <1>5

LEMMA PaymentReplaced ==
    ASSUME ObjectOK, effect # "okta", NEW p \in Paid, NEW o, o = [object EXCEPT !.payment = p]
    PROVE  Well(o) /\ o.refunds = object.refunds
<1>1. o = [user |-> object.user, payment |-> p, charge |-> object.charge,
           refunds |-> object.refunds]
  BY DEF ObjectOK, Well
<1>2. QED
  BY <1>1 DEF ObjectOK, Well

LEMMA UserReplaced ==
    ASSUME ObjectOK, effect = "okta", NEW u, NEW o, o = [object EXCEPT !.user = u]
    PROVE  Well(o)
BY DEF ObjectOK, Well

LEMMA SuccessorsWell ==
    ASSUME SendInv, ObjectOK, NEW o \in Reading!Successors
    PROVE  Well(o) /\ (effect = "capture" /\ object.refunds # {} => o.refunds # {})
<1>1. CASE effect = "okta"
  <2>1. PICK u : o = [object EXCEPT !.user = u]
    BY <1>1 DEF Reading!Successors
  <2>2. QED
    BY <1>1, <2>1, UserReplaced
<1>2. CASE effect = "refund"
  <2>1. object.refunds \subseteq Rows /\ IsFiniteSet(object.refunds)
    BY <1>2 DEF ObjectOK, Well
  <2>2. \/ \E r \in object.refunds, s \in {"succeeded", "failed"} :
              o = Reading!WithRefunds((object.refunds \ {r}) \union {[r EXCEPT !.status = s]})
        \/ \E x \in BOOLEAN :
              o = Reading!WithRefunds(object.refunds \union {Reading!Refund(x, "pending", FALSE)})
    <3>1. PICK A : A = UNION {{Reading!WithRefunds((object.refunds \ {r})
                                                     \union {[r EXCEPT !.status = s]}) :
                                 s \in {"succeeded", "failed"} \ {r.status}} :
                                r \in {x \in object.refunds : x.status # "failed"}}
      OBVIOUS
    <3>2. PICK B : B = {Reading!WithRefunds(object.refunds
                                            \union {Reading!Refund(x, "pending", FALSE)}) :
                          x \in IF object.charge = "none" THEN BOOLEAN ELSE {}}
      OBVIOUS
    <3>3. o \in A \union B
      <4>1. effect # "okta"
        BY <1>2
      <4>2. QED
        BY <1>2, <3>1, <3>2, <4>1, Zenon DEF Reading!Successors
    <3>4. o \in A => \E r \in object.refunds, s \in {"succeeded", "failed"} :
              o = Reading!WithRefunds((object.refunds \ {r}) \union {[r EXCEPT !.status = s]})
      BY <3>1
    <3>5. o \in B => \E x \in BOOLEAN :
              o = Reading!WithRefunds(object.refunds \union {Reading!Refund(x, "pending", FALSE)})
      BY <3>2
    <3>6. QED
      BY <3>3, <3>4, <3>5
  <2>3. ASSUME NEW r \in object.refunds, NEW s \in {"succeeded", "failed"},
               o = Reading!WithRefunds((object.refunds \ {r}) \union {[r EXCEPT !.status = s]})
        PROVE  Well(o)
    <3>1. [r EXCEPT !.status = s] \in Rows
      BY <2>1 DEF Rows
    <3>2. PICK rs : rs = (object.refunds \ {r}) \union {[r EXCEPT !.status = s]}
      OBVIOUS
    <3>3. rs \subseteq Rows /\ IsFiniteSet(rs)
      BY <2>1, <3>1, <3>2, FS_RemoveElement, FS_AddElement
    <3>4. QED
      BY <1>2, <2>3, <3>2, <3>3, RefundsReplaced
  <2>4. ASSUME NEW x \in BOOLEAN,
               o = Reading!WithRefunds(object.refunds \union {Reading!Refund(x, "pending", FALSE)})
        PROVE  Well(o)
    <3>1. Reading!Refund(x, "pending", FALSE) \in Rows
      BY DEF Rows, Reading!Refund
    <3>2. PICK rs : rs = object.refunds \union {Reading!Refund(x, "pending", FALSE)}
      OBVIOUS
    <3>3. rs \subseteq Rows /\ IsFiniteSet(rs)
      BY <2>1, <3>1, <3>2, FS_AddElement
    <3>4. QED
      BY <1>2, <2>4, <3>2, <3>3, RefundsReplaced
  <2>5. QED
    BY <1>2, <2>2, <2>3, <2>4
<1>3. CASE effect = "capture"
  <2>1. \/ \E received \in {"exact", "other"} :
             o = [object EXCEPT !.payment = [@ EXCEPT !.status = "succeeded",
                                                      !.received = received]]
        \/ o = [object EXCEPT !.payment.status = "canceled"]
        \/ o = Reading!WithRefunds({Reading!Refund(TRUE, "pending", FALSE)})
    BY <1>3 DEF Reading!Successors
  <2>2. object.payment \in Paid
    BY <1>3 DEF ObjectOK, Well
  <2>3. ASSUME NEW received \in {"exact", "other"},
               o = [object EXCEPT !.payment = [@ EXCEPT !.status = "succeeded",
                                                        !.received = received]]
        PROVE  Well(o) /\ o.refunds = object.refunds
    <3>1. PICK p : p = [object.payment EXCEPT !.status = "succeeded", !.received = received]
      OBVIOUS
    <3>2. p \in Paid
      BY <2>2, <3>1 DEF Paid
    <3>3. o = [object EXCEPT !.payment = p]
      BY <2>3, <3>1
    <3>4. QED
      BY <1>3, <3>2, <3>3, PaymentReplaced
  <2>4. ASSUME o = [object EXCEPT !.payment.status = "canceled"]
        PROVE  Well(o) /\ o.refunds = object.refunds
    <3>1. PICK p : p = [object.payment EXCEPT !.status = "canceled"]
      OBVIOUS
    <3>2. p \in Paid
      BY <2>2, <3>1 DEF Paid
    <3>3. o = [object EXCEPT !.payment = p]
      BY <2>4, <3>1
    <3>4. QED
      BY <1>3, <3>2, <3>3, PaymentReplaced
  <2>5. ASSUME o = Reading!WithRefunds({Reading!Refund(TRUE, "pending", FALSE)})
        PROVE  Well(o) /\ o.refunds # {}
    <3>1. PICK r : r = Reading!Refund(TRUE, "pending", FALSE)
      OBVIOUS
    <3>2. PICK rs : rs = {r}
      OBVIOUS
    <3>3. r \in Rows
      BY <3>1 DEF Rows, Reading!Refund
    <3>4. rs \subseteq Rows /\ IsFiniteSet(rs) /\ rs # {}
      BY <3>2, <3>3, FS_Singleton
    <3>5. QED
      BY <1>3, <2>5, <3>1, <3>2, <3>4, RefundsReplaced
  <2>6. QED
    BY <2>1, <2>3, <2>4, <2>5
<1>4. QED
  BY <1>1, <1>2, <1>3 DEF SendInv

LEMMA TakenWell ==
    ASSUME SendInv, ObjectOK, NEW status \in {"pending", "succeeded"}, Reading!Takes(status)
    PROVE  \E o : /\ Reading!Changes(o) /\ Well(o)
                  /\ effect = "capture" /\ object.refunds # {} => o.refunds # {}
<1>1. CASE effect = "okta"
  <2>1. PICK u, o : o = [object EXCEPT !.user = u] /\ Reading!Changes(o)
    <3>1. PICK u : u = [status |-> Reading!Desired, moving |-> FALSE,
                        changed |-> object.user.changed + 1]
      OBVIOUS
    <3>2. Reading!Changes([object EXCEPT !.user = u])
      BY <1>1, <3>1 DEF Reading!Takes
    <3>3. QED
      BY <3>2
  <2>2. QED
    BY <1>1, <2>1, UserReplaced
<1>2. CASE effect = "refund"
  <2>1. PICK r : r = Reading!Refund(TRUE, status, TRUE)
    OBVIOUS
  <2>2. PICK rs : rs = object.refunds \union {r}
    OBVIOUS
  <2>3. r \in Rows
    BY <2>1 DEF Rows, Reading!Refund
  <2>4. rs \subseteq Rows /\ IsFiniteSet(rs)
    BY <1>2, <2>2, <2>3, FS_AddElement DEF ObjectOK, Well
  <2>5. Reading!Changes(Reading!WithRefunds(rs))
    BY <1>2, <2>1, <2>2 DEF Reading!Takes
  <2>6. QED
    BY <1>2, <2>4, <2>5, RefundsReplaced
<1>3. CASE effect = "capture"
  <2>1. PICK p : p = [status |-> IF status = "pending" THEN "processing" ELSE status,
                      received |-> IF status = "pending" THEN "none" ELSE "exact",
                      mine |-> TRUE]
    OBVIOUS
  <2>2. p \in Paid
    BY <2>1 DEF Paid
  <2>3. PICK o : o = [object EXCEPT !.payment = p]
    OBVIOUS
  <2>4. Reading!Changes(o)
    BY <1>3, <2>1, <2>3 DEF Reading!Takes
  <2>5. QED
    BY <1>3, <2>2, <2>3, <2>4, PaymentReplaced
<1>4. QED
  BY <1>1, <1>2, <1>3 DEF SendInv

LEMMA ReadInit == Reading!Init => ReadInv
<1>. SUFFICES ASSUME Reading!Init PROVE ReadInv
  OBVIOUS
<1>1. /\ effect \in {"okta", "refund", "capture"}
      /\ worker = [w \in Reading!Workers |-> Reading!Resting] /\ items = <<>>
      /\ claim = Reading!NoClaim /\ elapsed = FALSE
  BY EffectsAssumption DEF Reading!Init
<1>2. operation \in {"change", "observe_only"}
  BY <1>1 DEF Reading!Init, Reading!OktaOperation, Reading!RefundOperation,
              Reading!CaptureOperation
<1>3. ObjectOK
  <2>1. PICK user \in Reading!Users, payment \in {Reading!Uncaptured, Reading!Captured},
             refunds \in {{}, {Reading!Refund(TRUE, "pending", FALSE)}} :
               object = Reading!Held(effect, user, payment, refunds)
    BY DEF Reading!Init
  <2>2. payment \in Paid
    <3>1. Reading!Uncaptured \in Paid
      BY DEF Paid, Reading!Uncaptured
    <3>2. Reading!Captured \in Paid
      BY DEF Paid, Reading!Captured
    <3>3. QED
      BY <2>1, <3>1, <3>2
  <2>3. refunds \subseteq Rows /\ IsFiniteSet(refunds)
    <3>1. PICK r : r = Reading!Refund(TRUE, "pending", FALSE)
      OBVIOUS
    <3>2. r \in Rows
      BY <3>1 DEF Rows, Reading!Refund
    <3>3. IsFiniteSet({}) /\ IsFiniteSet({r})
      BY FS_EmptySet, FS_Singleton
    <3>4. QED
      BY <2>1, <3>1, <3>2, <3>3
  <2>4. PICK c : c = Reading!ChargeOf(refunds)
    OBVIOUS
  <2>5. object = [user |-> IF effect = "okta" THEN user ELSE {},
                  payment |-> IF effect = "okta" THEN {} ELSE payment,
                  charge |-> IF effect = "okta" THEN {} ELSE c, refunds |-> refunds]
    BY <2>1, <2>4 DEF Reading!Held
  <2>6. QED
    BY <2>2, <2>3, <2>4, <2>5 DEF ObjectOK, Well
<1>4. ViewOK(Reading!Resting) /\ Tells(Reading!Resting)
  BY <1>1 DEF ViewOK, Tells, Has, Reading!Resting, Reading!Unread
<1>5. Listed(items)
  BY <1>1 DEF Listed
<1>6. ClaimOK
  BY <1>1 DEF ClaimOK, Reading!ClaimsHeldWhenRead, Reading!NoClaim
<1>7. QED
  BY <1>1, <1>2, <1>3, <1>4, <1>5, <1>6 DEF ReadInv

(* A worker moves and nothing else does.                                   *)
LEMMA WorkerReads ==
    ASSUME SendInv, ReadInv, NEW w \in Reading!Workers, NEW k, Shaped(k), Reading!Becomes(w, k),
           ViewOK(k), Tells(k), UNCHANGED <<effect, operation, object, elapsed, items, claim>>
    PROVE  ReadInv'
<1>1. /\ worker'[w] = k
      /\ \A v \in Reading!Workers : v # w => worker'[v] = worker[v]
  BY WorkerMoves DEF SendInv
<1>2. (operation \in {"change", "observe_only"} /\ elapsed \in BOOLEAN)'
  BY DEF ReadInv
<1>3. ObjectOK'
  BY DEF ReadInv, ObjectOK, Well, Reading!ChargeOf, Reading!Live
<1>4. ASSUME NEW j, ViewOK(j), Tells(j) PROVE ViewOK(j)' /\ Tells(j)'
  <2>1. Reading!Reached(object)' = Reading!Reached(object)
    BY DEF Reading!Reached
  <2>2. ViewOK(j)'
    BY <1>4, <2>1 DEF ViewOK
  <2>3. Tells(j)'
    BY <1>4 DEF Tells, Claimed
  <2>4. QED
    BY <2>2, <2>3
<1>5. ASSUME NEW v \in Reading!Workers PROVE (ViewOK(worker[v]) /\ Tells(worker[v]))'
  <2>1. PICK j : j = worker'[v]
    OBVIOUS
  <2>2. ViewOK(j) /\ Tells(j)
    BY <1>1, <2>1 DEF ReadInv
  <2>3. ViewOK(j)' /\ Tells(j)'
    BY <1>4, <2>2
  <2>4. QED
    BY <2>1, <2>3 DEF ViewOK, Tells, Has
<1>6. Listed(items)'
  BY DEF ReadInv, Listed, Claimed
<1>7. ClaimOK'
  BY DEF ReadInv, ClaimOK, Reading!ClaimsHeldWhenRead
<1>8. QED
  BY <1>2, <1>3, <1>5, <1>6, <1>7 DEF ReadInv, Reading!Workers

(* The object changes under those who read it.                             *)
LEMMA ChangeReads ==
    ASSUME SendInv, ReadInv, NEW o, Reading!Changes(o), Well(o),
           effect = "capture" /\ object.refunds # {} => o.refunds # {},
           UNCHANGED <<effect, operation, elapsed, items, claim>>
    PROVE  ReadInv'
<1>1. object' = o
  BY DEF Reading!Changes
<1>2. (operation \in {"change", "observe_only"} /\ elapsed \in BOOLEAN)'
  BY DEF ReadInv
<1>3. ObjectOK'
  BY <1>1 DEF ObjectOK, Well, Reading!ChargeOf, Reading!Live
<1>4. PICK r : r = Reading!Reached(o)
  OBVIOUS
<1>5. Reading!Reached(object)' = r
  BY <1>1, <1>4 DEF Reading!Reached
<1>6. ASSUME NEW v \in Reading!Workers PROVE (ViewOK(worker[v]) /\ Tells(worker[v]))'
  <2>1. PICK j, k : j = worker[v] /\ k = worker'[v]
    OBVIOUS
  <2>2. \/ j.pc # "read" /\ k = j
        \/ j.pc = "read" /\ k = [j EXCEPT !.held = @ \union {r}]
    BY <1>4, <2>1, WorkersSee DEF SendInv
  <2>3. Shaped(j) /\ ViewOK(j) /\ Tells(j)
    BY <2>1 DEF SendInv, ReadInv, WorkersShaped
  <2>4. /\ k.pc = j.pc /\ k.next = j.next /\ k.view = j.view /\ k.prior = j.prior
        /\ k.item = j.item /\ j.held \subseteq k.held
        /\ k.pc = "read" => r \in k.held
    BY <2>2, <2>3 DEF Shaped
  <2>5. ViewOK(k)'
    <3>1. /\ k.view = [part \in {"user", "payment", "charge", "refunds"} |-> k.view[part]]
          /\ k.pc = "read" => r \in k.held /\ k.next \in 1..(IF effect = "okta" THEN 2 ELSE 4)
      BY <2>3, <2>4 DEF ViewOK
    <3>2. \A n : Has(k, n) <=> Has(j, n)
      BY <2>4 DEF Has
    <3>3. effect = "okta" /\ Has(k, 1) => SuspendedBy(k.view["user"]) \in k.held
      BY <2>3, <2>4, <3>2 DEF ViewOK
    <3>4. effect = "refund" /\ Has(k, 3) =>
            /\ k.view["charge"] \in {"none", "exact", "other"}
            /\ k.view["charge"] = "none" => "nobody" \in k.held
      BY <2>3, <2>4, <3>2 DEF ViewOK
    <3>5. effect = "refund" /\ k.pc = "seen" =>
            /\ k.view["refunds"] \subseteq Rows /\ IsFiniteSet(k.view["refunds"])
            /\ RefundedBy(k.view["refunds"]) \in k.held
      BY <2>3, <2>4 DEF ViewOK
    <3>6. effect = "capture" /\ Has(k, 2) =>
            /\ CapturedBy(k.view["payment"]) = "nobody" => "nobody" \in k.held
            /\ (IF k.pc = "seen" THEN k.view["refunds"] ELSE o.refunds) = {} =>
                  CapturedBy(k.view["payment"]) \in k.held
      BY <2>3, <2>4, <3>2 DEF ViewOK
    <3>7. \A n : Has(k, n)' <=> Has(k, n)
      BY DEF Has
    <3>8. QED
      BY <1>1, <1>5, <3>1, <3>3, <3>4, <3>5, <3>6, <3>7 DEF ViewOK
  <2>6. Tells(k)'
    BY <2>3, <2>4 DEF Tells, Claimed
  <2>7. QED
    BY <2>1, <2>5, <2>6 DEF ViewOK, Tells, Has
<1>7. Listed(items)'
  BY DEF ReadInv, Listed, Claimed
<1>8. ClaimOK'
  BY DEF ReadInv, ClaimOK, Reading!ClaimsHeldWhenRead
<1>9. QED
  BY <1>2, <1>3, <1>6, <1>7, <1>8 DEF ReadInv, Reading!Workers

(* What a request of a read adds to the view.                              *)
LEMMA PartRead ==
    ASSUME SendInv, NEW w \in Reading!Workers, NEW j, j = worker[w], Reading!Read(w)
    PROVE  \E k : /\ Shaped(k) /\ Reading!Becomes(w, k)
                  /\ k.held = j.held /\ k.prior = j.prior /\ k.next = j.next + 1
                  /\ k.pc = IF j.next = Len(Reading!Reads) THEN "seen" ELSE "read"
                  /\ k.view = IF Reading!Reads[j.next] \in DOMAIN j.view
                              THEN [j.view EXCEPT ![Reading!Reads[j.next]]
                                                    = object[Reading!Reads[j.next]]]
                              ELSE j.view
<1>1. PICK part : part = Reading!Reads[j.next]
  OBVIOUS
<1>2. PICK view : view = IF part \in DOMAIN j.view THEN [j.view EXCEPT ![part] = object[part]]
                         ELSE j.view
  OBVIOUS
<1>3. PICK pc : pc = IF j.next = Len(Reading!Reads) THEN "seen" ELSE "read"
  OBVIOUS
<1>4. j.pc = "read" /\ Shaped(j)
  BY DEF SendInv, WorkersShaped, Reading!Read
<1>5. PICK k : k = [j EXCEPT !.view = view, !.next = j.next + 1, !.pc = pc]
  OBVIOUS
<1>6. Reading!Becomes(w, k)
  BY <1>1, <1>2, <1>3, <1>4, <1>5 DEF Reading!Read
<1>7. pc \in Places
  BY <1>3 DEF Places
<1>8. /\ Shaped(k) /\ k.held = j.held /\ k.prior = j.prior /\ k.next = j.next + 1
      /\ k.pc = pc /\ k.view = view
  BY <1>4, <1>5, <1>7 DEF Shaped
<1>9. QED
  BY <1>1, <1>2, <1>3, <1>6, <1>8

LEMMA OktaRead ==
    ASSUME effect = "okta", ObjectOK, NEW j, NEW k, ViewOK(j), j.pc = "read",
           k.held = j.held, k.next = j.next + 1,
           k.pc = IF j.next = Len(Reading!Reads) THEN "seen" ELSE "read",
           k.view = IF Reading!Reads[j.next] \in DOMAIN j.view
                    THEN [j.view EXCEPT ![Reading!Reads[j.next]] = object[Reading!Reads[j.next]]]
                    ELSE j.view
    PROVE  ViewOK(k)
<1>1. Reading!Reads = <<"user", "roles">>
  BY DEF Reading!Reads
<1>2. /\ Reading!Reached(object) \in j.held /\ j.next \in {1, 2}
      /\ j.view = [part \in {"user", "payment", "charge", "refunds"} |-> j.view[part]]
      /\ j.next > 1 => SuspendedBy(j.view["user"]) \in j.held
  BY DEF ViewOK, Has
<1>3. CASE j.next = 1
  <2>1. /\ k.pc = "read" /\ k.next = 2 /\ k.view["user"] = object["user"]
        /\ k.view = [part \in {"user", "payment", "charge", "refunds"} |-> k.view[part]]
    BY <1>1, <1>2, <1>3
  <2>2. SuspendedBy(object["user"]) = Reading!Reached(object)
    BY OktaReached
  <2>3. QED
    BY <1>2, <2>1, <2>2 DEF ViewOK, Has
<1>4. CASE j.next = 2
  <2>1. k.pc = "seen" /\ k.view = j.view
    BY <1>1, <1>2, <1>4
  <2>2. QED
    BY <1>2, <1>4, <2>1 DEF ViewOK, Has
<1>5. QED
  BY <1>2, <1>3, <1>4

LEMMA StripeReads ==
    effect \in {"refund", "capture"} =>
      /\ Reading!Reads = <<"account", "payment", "charge", "refunds">>
      /\ Len(Reading!Reads) = 4
      /\ Reading!Reads[1] = "account" /\ Reading!Reads[2] = "payment"
      /\ Reading!Reads[3] = "charge" /\ Reading!Reads[4] = "refunds"
BY DEF Reading!Reads

LEMMA NoRefund ==
    ASSUME NEW refunds, refunds \subseteq Rows, Reading!ChargeOf(refunds) = "none"
    PROVE  RefundedBy(refunds) = "nobody"
<1>1. Reading!Live(refunds) = {}
  BY DEF Reading!ChargeOf
<1>2. \A r \in refunds : r.status # "succeeded"
  BY <1>1 DEF Reading!Live
<1>3. QED
  BY <1>2 DEF RefundedBy

LEMMA RefundRead ==
    ASSUME effect = "refund", ObjectOK, NEW j, NEW k, ViewOK(j), j.pc = "read",
           k.held = j.held, k.next = j.next + 1,
           k.pc = IF j.next = Len(Reading!Reads) THEN "seen" ELSE "read",
           k.view = IF Reading!Reads[j.next] \in DOMAIN j.view
                    THEN [j.view EXCEPT ![Reading!Reads[j.next]] = object[Reading!Reads[j.next]]]
                    ELSE j.view
    PROVE  ViewOK(k)
<1>1. /\ Reading!Reached(object) \in j.held /\ j.next \in {1, 2, 3, 4}
      /\ j.view = [part \in {"user", "payment", "charge", "refunds"} |-> j.view[part]]
      /\ j.next > 3 => /\ j.view["charge"] \in {"none", "exact", "other"}
                       /\ j.view["charge"] = "none" => "nobody" \in j.held
  BY DEF ViewOK, Has
<1>2. /\ object.refunds \subseteq Rows /\ IsFiniteSet(object.refunds)
      /\ object.charge = Reading!ChargeOf(object.refunds)
      /\ object["charge"] = object.charge /\ object["refunds"] = object.refunds
  BY DEF ObjectOK, Well
<1>3. Reading!Reached(object) = RefundedBy(object.refunds)
  BY RefundReached
<1>4. CASE j.next \in {1, 2}
  <2>1. /\ k.pc = "read" /\ k.next \in {2, 3}
        /\ k.view = [part \in {"user", "payment", "charge", "refunds"} |-> k.view[part]]
    BY <1>1, <1>4, StripeReads
  <2>2. QED
    BY <1>1, <2>1 DEF ViewOK, Has
<1>5. CASE j.next = 3
  <2>1. /\ k.pc = "read" /\ k.next = 4 /\ k.view["charge"] = object.charge
        /\ k.view = [part \in {"user", "payment", "charge", "refunds"} |-> k.view[part]]
    BY <1>1, <1>2, <1>5, StripeReads
  <2>2. object.charge \in {"none", "exact", "other"}
    BY <1>2 DEF Reading!ChargeOf
  <2>3. object.charge = "none" => "nobody" \in j.held
    BY <1>1, <1>2, <1>3, NoRefund
  <2>4. QED
    BY <1>1, <2>1, <2>2, <2>3 DEF ViewOK, Has
<1>6. CASE j.next = 4
  <2>1. /\ k.pc = "seen" /\ k.view["refunds"] = object.refunds
        /\ k.view["charge"] = j.view["charge"]
        /\ k.view = [part \in {"user", "payment", "charge", "refunds"} |-> k.view[part]]
    BY <1>1, <1>2, <1>6, StripeReads
  <2>2. QED
    BY <1>1, <1>2, <1>3, <1>6, <2>1 DEF ViewOK, Has
<1>7. QED
  BY <1>1, <1>4, <1>5, <1>6

LEMMA CaptureRead ==
    ASSUME effect = "capture", ObjectOK, NEW j, NEW k, ViewOK(j), j.pc = "read",
           k.held = j.held, k.next = j.next + 1,
           k.pc = IF j.next = Len(Reading!Reads) THEN "seen" ELSE "read",
           k.view = IF Reading!Reads[j.next] \in DOMAIN j.view
                    THEN [j.view EXCEPT ![Reading!Reads[j.next]] = object[Reading!Reads[j.next]]]
                    ELSE j.view
    PROVE  ViewOK(k)
<1>1. /\ Reading!Reached(object) \in j.held /\ j.next \in {1, 2, 3, 4}
      /\ j.view = [part \in {"user", "payment", "charge", "refunds"} |-> j.view[part]]
      /\ j.next > 2 => /\ CapturedBy(j.view["payment"]) = "nobody" => "nobody" \in j.held
                       /\ object.refunds = {} => CapturedBy(j.view["payment"]) \in j.held
  BY DEF ViewOK, Has
<1>2. object["payment"] = object.payment /\ object["refunds"] = object.refunds
  OBVIOUS
<1>3. Reading!Reached(object) = IF object.refunds = {} THEN CapturedBy(object.payment)
                                ELSE "nobody"
  BY CaptureReached
<1>4. CASE j.next = 1
  <2>1. k.pc = "read" /\ k.next = 2 /\ k.view = j.view
    BY <1>1, <1>4, StripeReads
  <2>2. QED
    BY <1>1, <2>1 DEF ViewOK, Has
<1>5. CASE j.next = 2
  <2>1. /\ k.pc = "read" /\ k.next = 3 /\ k.view["payment"] = object.payment
        /\ k.view = [part \in {"user", "payment", "charge", "refunds"} |-> k.view[part]]
    BY <1>1, <1>2, <1>5, StripeReads
  <2>2. /\ CapturedBy(object.payment) = "nobody" => "nobody" \in j.held
        /\ object.refunds = {} => CapturedBy(object.payment) \in j.held
    BY <1>1, <1>3
  <2>3. /\ CapturedBy(k.view["payment"]) = "nobody" => "nobody" \in k.held
        /\ (IF k.pc = "seen" THEN k.view["refunds"] ELSE object.refunds) = {} =>
              CapturedBy(k.view["payment"]) \in k.held
    BY <2>1, <2>2
  <2>4. QED
    BY <1>1, <2>1, <2>3 DEF ViewOK, Has
<1>6. CASE j.next = 3
  <2>1. /\ k.pc = "read" /\ k.next = 4 /\ k.view["payment"] = j.view["payment"]
        /\ k.view = [part \in {"user", "payment", "charge", "refunds"} |-> k.view[part]]
    BY <1>1, <1>6, StripeReads
  <2>2. QED
    BY <1>1, <1>6, <2>1 DEF ViewOK, Has
<1>7. CASE j.next = 4
  <2>1. /\ k.pc = "seen" /\ k.view["refunds"] = object.refunds
        /\ k.view["payment"] = j.view["payment"]
        /\ k.view = [part \in {"user", "payment", "charge", "refunds"} |-> k.view[part]]
    BY <1>1, <1>2, <1>7, StripeReads
  <2>2. QED
    BY <1>1, <1>7, <2>1 DEF ViewOK, Has
<1>8. QED
  BY <1>1, <1>4, <1>5, <1>6, <1>7

LEMMA ReadReads ==
    ASSUME SendInv, ReadInv, NEW w \in Reading!Workers, Reading!Read(w)
    PROVE  ReadInv'
<1>1. PICK j : j = worker[w]
  OBVIOUS
<1>2. PICK k : /\ Shaped(k) /\ Reading!Becomes(w, k)
               /\ k.held = j.held /\ k.prior = j.prior /\ k.next = j.next + 1
               /\ k.pc = IF j.next = Len(Reading!Reads) THEN "seen" ELSE "read"
               /\ k.view = IF Reading!Reads[j.next] \in DOMAIN j.view
                           THEN [j.view EXCEPT ![Reading!Reads[j.next]]
                                                 = object[Reading!Reads[j.next]]]
                           ELSE j.view
  BY <1>1, PartRead
<1>3. j.pc = "read" /\ ViewOK(j) /\ Tells(j) /\ ObjectOK
  BY <1>1 DEF ReadInv, Reading!Read
<1>4. ViewOK(k)
  <2>1. CASE effect = "okta"
    BY <1>2, <1>3, <2>1, OktaRead
  <2>2. CASE effect = "refund"
    BY <1>2, <1>3, <2>2, RefundRead
  <2>3. CASE effect = "capture"
    BY <1>2, <1>3, <2>3, CaptureRead
  <2>4. QED
    BY <2>1, <2>2, <2>3 DEF SendInv
<1>5. Tells(k)
  BY <1>2, <1>3 DEF Tells
<1>6. UNCHANGED <<effect, operation, object, elapsed, items, claim>>
  BY DEF Reading!Read, Reading!world
<1>7. QED
  BY <1>2, <1>4, <1>5, <1>6, WorkerReads

(* A worker reports what it saw, or that it saw nothing.                   *)
LEMMA ReportReads ==
    ASSUME SendInv, ReadInv, NEW w \in Reading!Workers, NEW item, NEW notSent,
           Reading!Reports(w, item, notSent), Claimed(item), item.supersedes \in 0..Len(items),
           UNCHANGED <<effect, operation, object, elapsed, items, claim>>
    PROVE  ReadInv'
<1>1. PICK j : j = worker[w]
  OBVIOUS
<1>2. PICK k : /\ k = [j EXCEPT !.pc = "report", !.item = item, !.unsent = notSent,
                                !.view = Reading!Unread, !.next = 1]
               /\ Shaped(k) /\ Reading!Becomes(w, k)
  BY <1>1, Reporter DEF SendInv
<1>3. Shaped(j) /\ Tells(j)
  BY <1>1 DEF SendInv, ReadInv, WorkersShaped
<1>4. k.pc = "report" /\ k.item = item /\ k.prior = j.prior /\ k.view = Reading!Unread
  BY <1>2, <1>3 DEF Shaped
<1>5. ViewOK(k) /\ Tells(k)
  BY <1>3, <1>4 DEF ViewOK, Tells, Has, Reading!Unread
<1>6. QED
  BY <1>2, <1>5, WorkerReads

(* A worker goes on with what it had.                                      *)
LEMMA PlaceReads ==
    ASSUME SendInv, ReadInv, NEW w \in Reading!Workers, NEW pc \in {"write", "sent"},
           Reading!Becomes(w, [worker[w] EXCEPT !.pc = pc]),
           UNCHANGED <<effect, operation, object, elapsed, items, claim>>
    PROVE  ReadInv'
<1>1. PICK j : j = worker[w]
  OBVIOUS
<1>2. PICK k : k = [j EXCEPT !.pc = pc]
  OBVIOUS
<1>3. Shaped(j) /\ ViewOK(j) /\ Tells(j)
  BY <1>1 DEF SendInv, ReadInv, WorkersShaped
<1>4. Shaped(k) /\ k.pc = pc /\ k.view = j.view /\ k.prior = j.prior
  BY <1>2, <1>3 DEF Shaped, Places
<1>5. ViewOK(k) /\ Tells(k)
  BY <1>3, <1>4 DEF ViewOK, Tells, Has
<1>6. Reading!Becomes(w, k)
  BY <1>1, <1>2
<1>7. QED
  BY <1>4, <1>5, <1>6, WorkerReads

LEMMA DispatcherReads ==
    ASSUME SendInv, ReadInv, \/ Reading!Decide \/ Reading!DispatchFails \/ Reading!Send
                             \/ Reading!Respond \/ Reading!ResponseFails
    PROVE  ReadInv'
<1>1. UNCHANGED <<effect, operation, object, elapsed, items, claim>>
  BY DEF Reading!Decide, Reading!DispatchFails, Reading!Send, Reading!Respond,
         Reading!ResponseFails, Reading!world
<1>2. "dispatcher" \in Reading!Workers /\ 0 \in 0..Len(items)
  BY Names DEF ReadInv, Listed
<1>3. CASE Reading!Decide
  <2>1. PICK j : j = worker["dispatcher"]
    OBVIOUS
  <2>2. j.pc = "seen" /\ ViewOK(j)
    BY <1>2, <1>3, <2>1 DEF ReadInv, Reading!Decide
  <2>3. ASSUME NEW late, NEW item, item = Reading!SnapshotItem("dispatcher", late)
        PROVE  Claimed(item) /\ item.supersedes \in 0..Len(items)
    BY <1>2, <2>1, <2>2, <2>3, SnapshotClaimed
  <2>4. \/ \E late, notSent : Reading!Reports("dispatcher",
                                  Reading!SnapshotItem("dispatcher", late), notSent)
        \/ \E notSent : Reading!Reports("dispatcher", Reading!TransportItem, notSent)
        \/ Reading!Becomes("dispatcher", [worker["dispatcher"] EXCEPT !.pc = "write"])
    BY <1>3 DEF Reading!Decide
  <2>5. CASE \E late, notSent : Reading!Reports("dispatcher",
                                    Reading!SnapshotItem("dispatcher", late), notSent)
    <3>1. PICK late, notSent : Reading!Reports("dispatcher",
                                    Reading!SnapshotItem("dispatcher", late), notSent)
      BY <2>5
    <3>2. PICK item : item = Reading!SnapshotItem("dispatcher", late)
      OBVIOUS
    <3>3. QED
      BY <1>1, <1>2, <2>3, <3>1, <3>2, ReportReads
  <2>6. CASE \E notSent : Reading!Reports("dispatcher", Reading!TransportItem, notSent)
    BY <1>1, <1>2, <2>6, MuteClaimed, ReportReads
  <2>7. CASE Reading!Becomes("dispatcher", [worker["dispatcher"] EXCEPT !.pc = "write"])
    BY <1>1, <1>2, <2>7, PlaceReads
  <2>8. QED
    BY <2>4, <2>5, <2>6, <2>7
<1>4. CASE Reading!Send
  BY <1>1, <1>2, <1>4, PlaceReads DEF Reading!Send
<1>5. CASE \/ Reading!DispatchFails \/ Reading!Respond \/ Reading!ResponseFails
  <2>1. \/ \E notSent : Reading!Reports("dispatcher", Reading!TransportItem, notSent)
        \/ Reading!Reports("dispatcher", Reading!ResponseItem, FALSE)
    BY <1>5 DEF Reading!DispatchFails, Reading!Respond, Reading!ResponseFails
  <2>2. CASE \E notSent : Reading!Reports("dispatcher", Reading!TransportItem, notSent)
    BY <1>1, <1>2, <2>2, MuteClaimed, ReportReads
  <2>3. CASE Reading!Reports("dispatcher", Reading!ResponseItem, FALSE)
    BY <1>1, <1>2, <2>3, MuteClaimed, ReportReads
  <2>4. QED
    BY <2>1, <2>2, <2>3
<1>6. QED
  BY <1>3, <1>4, <1>5

(* A read begins.                                                          *)
LEMMA BeginReads ==
    ASSUME SendInv, ReadInv, NEW w \in Reading!Workers, NEW k, Reading!Becomes(w, k),
           NEW attempt \in 0..AttemptBudget, NEW prior \in 0..Len(items), NEW held,
           Reading!Reached(object) \in held,
           k = [pc |-> "read", attempt |-> attempt, next |-> 1, view |-> Reading!Unread,
                prior |-> prior, held |-> held, item |-> Reading!ResponseItem, unsent |-> FALSE],
           UNCHANGED <<effect, operation, object, elapsed, items, claim>>
    PROVE  ReadInv'
<1>1. /\ k.pc = "read" /\ k.next = 1 /\ k.held = held
      /\ k.view = [part \in {"user", "payment", "charge", "refunds"} |-> {}]
  BY DEF Reading!Unread
<1>2. Shaped(k)
  BY DEF Shaped, Places
<1>3. ViewOK(k)
  <2>1. ~Has(k, 1) /\ ~Has(k, 2) /\ ~Has(k, 3)
    BY <1>1 DEF Has
  <2>2. k.view = [part \in {"user", "payment", "charge", "refunds"} |-> k.view[part]]
    BY <1>1
  <2>3. QED
    BY <1>1, <2>1, <2>2 DEF ViewOK
<1>4. Tells(k)
  BY <1>1 DEF Tells, ReadInv, Listed
<1>5. QED
  BY <1>2, <1>3, <1>4, WorkerReads

LEMMA DispatchReads ==
    ASSUME SendInv, ReadInv, NEW n \in Reading!Tries, Reading!Dispatch(n)
    PROVE  ReadInv'
<1>1. PICK h : h = {Reading!Reached(object)}
  OBVIOUS
<1>2. PICK k : k = [Reading!Resting EXCEPT !.pc = "read", !.attempt = n, !.held = h]
  OBVIOUS
<1>3. Reading!Becomes("dispatcher", k)
      /\ UNCHANGED <<effect, operation, object, elapsed, items, claim>>
  BY <1>1, <1>2 DEF Reading!Dispatch, Reading!world
<1>4. k = [pc |-> "read", attempt |-> n, next |-> 1, view |-> Reading!Unread,
           prior |-> 0, held |-> h, item |-> Reading!ResponseItem, unsent |-> FALSE]
  BY <1>2 DEF Reading!Resting
<1>5. n \in 0..AttemptBudget /\ 0 \in 0..Len(items) /\ "dispatcher" \in Reading!Workers
  BY Names DEF ReadInv, Listed
<1>6. Reading!Reached(object) \in h
  BY <1>1
<1>7. QED
  BY <1>3, <1>4, <1>5, <1>6, BeginReads

LEMMA ObserveReads ==
    ASSUME SendInv, ReadInv, Reading!Observe
    PROVE  ReadInv'
<1>1. PICK h, n : h = {Reading!Reached(object)} /\ n = Len(items)
  OBVIOUS
<1>2. PICK k : k = [Reading!Resting EXCEPT !.pc = "read", !.prior = n, !.held = h]
  OBVIOUS
<1>3. Reading!Becomes("observer", k)
      /\ UNCHANGED <<effect, operation, object, elapsed, items, claim>>
  BY <1>1, <1>2 DEF Reading!Observe, Reading!world
<1>4. k = [pc |-> "read", attempt |-> 0, next |-> 1, view |-> Reading!Unread,
           prior |-> n, held |-> h, item |-> Reading!ResponseItem, unsent |-> FALSE]
  BY <1>2 DEF Reading!Resting
<1>5. 0 \in 0..AttemptBudget /\ n \in 0..Len(items) /\ "observer" \in Reading!Workers
  BY <1>1, Names DEF ReadInv, Listed
<1>6. Reading!Reached(object) \in h
  BY <1>1
<1>7. QED
  BY <1>3, <1>4, <1>5, <1>6, BeginReads

(* The latest of some positions is one of them.                            *)
LEMMA LatestIn ==
    ASSUME NEW S
    PROVE  Reading!Latest(S) = 0 \/ Reading!Latest(S) \in S
<1>. DEFINE greatest == {i \in S : \A j \in S : j <= i}
<1>1. greatest \subseteq S
  OBVIOUS
<1>2. greatest # {} => (CHOOSE i \in greatest : TRUE) \in greatest
  <2>. HIDE DEF greatest
  <2>. QED  OBVIOUS
<1>3. Reading!Latest(S) = IF greatest = {} THEN 0 ELSE CHOOSE i \in greatest : TRUE
  BY DEF Reading!Latest
<1>. HIDE DEF greatest
<1>4. QED
  BY <1>1, <1>2, <1>3

LEMMA SupersedingClaimed ==
    ASSUME NEW n \in Nat, NEW p, DOMAIN p = 1..n, NEW item, Claimed(item), item.supersedes = 0,
           item = [type |-> item.type, says |-> item.says, facets |-> item.facets,
                   held |-> item.held, supersedes |-> item.supersedes],
           NEW x, x = Reading!SupersedingLast(p, item)
    PROVE  Claimed(x) /\ x.supersedes \in 0..n
<1>1. PICK S : S = {i \in DOMAIN p : p[i].type = "snapshot"}
  OBVIOUS
<1>2. PICK last : last = Reading!Latest(S)
  OBVIOUS
<1>3. last \in 0..n
  BY <1>1, <1>2, LatestIn
<1>4. x = item \/ x = [item EXCEPT !.supersedes = last]
  BY <1>1, <1>2 DEF Reading!SupersedingLast
<1>5. CASE x = item
  BY <1>5
<1>6. CASE x = [item EXCEPT !.supersedes = last]
  <2>1. x = [type |-> item.type, says |-> item.says, facets |-> item.facets,
             held |-> item.held, supersedes |-> last]
    BY <1>6
  <2>2. QED
    BY <1>3, <2>1 DEF Claimed
<1>7. QED
  BY <1>4, <1>5, <1>6

LEMMA PriorDomain ==
    ASSUME ReadInv, NEW n, n = worker["observer"].prior
    PROVE  n \in Nat /\ n <= Len(items) /\ DOMAIN Reading!Prior = 1..n
<1>1. n \in Nat /\ n <= Len(items)
  BY Names DEF ReadInv, Tells
<1>2. PICK A : A = {items[i] : i \in DOMAIN items}
  OBVIOUS
<1>3. items \in Seq(A)
  BY <1>2 DEF ReadInv, Listed
<1>4. PICK l : l = items
  OBVIOUS
<1>5. l \in Seq(A) /\ n <= Len(l)
  BY <1>1, <1>3, <1>4
<1>6. DOMAIN SubSeq(l, 1, n) = 1..n
  BY <1>1, <1>5
<1>7. QED
  BY <1>1, <1>4, <1>6 DEF Reading!Prior

LEMMA ObservedReads ==
    ASSUME SendInv, ReadInv, Reading!Observed
    PROVE  ReadInv'
<1>1. /\ "observer" \in Reading!Workers /\ worker["observer"].pc = "seen"
      /\ UNCHANGED <<effect, operation, object, elapsed, items, claim>>
  BY Names DEF Reading!Observed, Reading!world
<1>2. PICK n, p : n = worker["observer"].prior /\ p = Reading!Prior
  OBVIOUS
<1>3. n \in Nat /\ n <= Len(items) /\ DOMAIN p = 1..n
  BY <1>2, PriorDomain
<1>4. PICK late : Reading!Reports("observer",
                    Reading!SupersedingLast(p, Reading!SnapshotItem("observer", late)), FALSE)
  BY <1>2 DEF Reading!Observed
<1>5. PICK item : item = Reading!SnapshotItem("observer", late)
  OBVIOUS
<1>6. PICK j : j = worker["observer"]
  OBVIOUS
<1>7. ViewOK(j) /\ j.pc = "seen"
  BY <1>1, <1>6 DEF ReadInv
<1>8. /\ Claimed(item) /\ item.supersedes = 0
      /\ item = [type |-> item.type, says |-> item.says, facets |-> item.facets,
                 held |-> item.held, supersedes |-> item.supersedes]
  BY <1>1, <1>5, <1>6, <1>7, SnapshotClaimed
<1>9. PICK x : x = Reading!SupersedingLast(p, item)
  OBVIOUS
<1>10. Claimed(x) /\ x.supersedes \in 0..n
  BY <1>3, <1>8, <1>9, SupersedingClaimed
<1>11. x.supersedes \in 0..Len(items)
  BY <1>3, <1>10 DEF ReadInv, Listed
<1>12. QED
  BY <1>1, <1>4, <1>5, <1>9, <1>10, <1>11, ReportReads

LEMMA ObserveFailsReads ==
    ASSUME SendInv, ReadInv, Reading!ObserveFails
    PROVE  ReadInv'
<1>1. /\ "observer" \in Reading!Workers
      /\ UNCHANGED <<effect, operation, object, elapsed, items, claim>>
  BY Names DEF Reading!ObserveFails, Reading!world
<1>2. PICK n, p : n = worker["observer"].prior /\ p = Reading!Prior
  OBVIOUS
<1>3. n \in Nat /\ n <= Len(items) /\ DOMAIN p = 1..n /\ Len(items) \in Nat
  BY <1>2, PriorDomain DEF ReadInv, Listed
<1>4. PICK x : /\ \/ \E category : x = Reading!SupersedingLast(p, Reading!FailureItem(category))
                  \/ x = Reading!TransportItem
                  \/ \E category : x = Reading!FailureItem(category)
               /\ Reading!Reports("observer", x, FALSE)
  <2>1. PICK category :
          Reading!Reports("observer",
                 CASE effect = "okta" ->
                        Reading!SupersedingLast(p,
                          Reading!FailureItem(IF category = "transport" THEN "unreadable"
                                              ELSE category))
                   [] effect # "okta" /\ category = "transport" -> Reading!TransportItem
                   [] OTHER -> Reading!FailureItem(category), FALSE)
    BY <1>2 DEF Reading!ObserveFails
  <2>2. PICK x : x = CASE effect = "okta" ->
                        Reading!SupersedingLast(p,
                          Reading!FailureItem(IF category = "transport" THEN "unreadable"
                                              ELSE category))
                   [] effect # "okta" /\ category = "transport" -> Reading!TransportItem
                   [] OTHER -> Reading!FailureItem(category)
    OBVIOUS
  <2>3. Reading!Reports("observer", x, FALSE)
    BY <2>1, <2>2
  <2>4. CASE effect = "okta"
    <3>1. PICK c : c = IF category = "transport" THEN "unreadable" ELSE category
      OBVIOUS
    <3>2. x = Reading!SupersedingLast(p, Reading!FailureItem(c))
      BY <2>2, <2>4, <3>1
    <3>3. QED
      BY <2>3, <3>2
  <2>5. CASE effect # "okta"
    <3>1. x = Reading!TransportItem \/ x = Reading!FailureItem(category)
      BY <2>2, <2>5
    <3>2. QED
      BY <2>3, <3>1
  <2>6. QED
    BY <2>4, <2>5
<1>5. Claimed(x) /\ x.supersedes \in 0..Len(items)
  <2>1. ASSUME NEW category, x = Reading!SupersedingLast(p, Reading!FailureItem(category))
        PROVE  Claimed(x) /\ x.supersedes \in 0..n
    <3>1. PICK item : item = Reading!FailureItem(category)
      OBVIOUS
    <3>2. /\ Claimed(item) /\ item.supersedes = 0
          /\ item = [type |-> item.type, says |-> item.says, facets |-> item.facets,
                     held |-> item.held, supersedes |-> item.supersedes]
      BY <3>1, MuteClaimed
    <3>3. QED
      BY <1>3, <2>1, <3>1, <3>2, SupersedingClaimed
  <2>2. \/ x = Reading!TransportItem \/ \E category : x = Reading!FailureItem(category)
        => Claimed(x) /\ x.supersedes = 0
    BY MuteClaimed
  <2>3. QED
    BY <1>3, <1>4, <2>1, <2>2
<1>6. QED
  BY <1>1, <1>4, <1>5, ReportReads

(* The ledger only grows.                                                  *)
Extends(m, l) ==
    /\ DOMAIN l \subseteq DOMAIN m /\ Len(l) <= Len(m)
    /\ \A i \in DOMAIN l : m[i] = l[i]

LEMMA ItemAppended ==
    ASSUME NEW l, Listed(l), NEW item, Claimed(item), item.supersedes \in 0..Len(l),
           NEW m, m = Reading!WithItem(l, item)
    PROVE  Listed(m) /\ Extends(m, l)
<1>0. Len(l) \in Nat /\ DOMAIN l = 1..Len(l)
  BY DEF Listed
<1>1. m = l \/ m = Append(l, item)
  BY DEF Reading!WithItem
<1>2. CASE m = l
  BY <1>0, <1>2 DEF Extends
<1>3. CASE m = Append(l, item)
  <2>1. l \in Seq({l[i] : i \in DOMAIN l})
    BY DEF Listed
  <2>2. /\ m \in Seq({m[i] : i \in DOMAIN m})
        /\ Len(m) = Len(l) + 1 /\ DOMAIN m = 1..(Len(l) + 1)
        /\ \A i \in 1..Len(l) : m[i] = l[i]
        /\ m[Len(l) + 1] = item
    BY <1>3, <2>1, AppendAny
  <2>3. ASSUME NEW i \in DOMAIN m PROVE Claimed(m[i]) /\ m[i].supersedes \in 0..(i - 1)
    <3>1. CASE i = Len(l) + 1
      BY <1>0, <2>2, <3>1
    <3>2. CASE i # Len(l) + 1
      <4>1. i \in DOMAIN l /\ m[i] = l[i]
        BY <1>0, <2>2, <3>2
      <4>2. QED
        BY <4>1 DEF Listed
    <3>3. QED
      BY <3>1, <3>2
  <2>4. Listed(m)
    BY <2>2, <2>3 DEF Listed
  <2>5. Extends(m, l)
    BY <1>0, <2>2 DEF Extends
  <2>6. QED
    BY <2>4, <2>5
<1>4. QED
  BY <1>1, <1>2, <1>3

(* A worker's evidence is in the ledger, and the worker done with it.      *)
LEMMA AppendReads ==
    ASSUME SendInv, ReadInv, NEW w \in Reading!Workers, NEW k, Reading!Becomes(w, k), Shaped(k),
           k.view = Reading!Unread, k.prior = 0, k.pc \in {"idle", "derive"},
           NEW m, items' = m, Listed(m), Extends(m, items),
           UNCHANGED <<effect, operation, object, elapsed, claim>>
    PROVE  ReadInv'
<1>1. /\ worker'[w] = k
      /\ \A v \in Reading!Workers : v # w => worker'[v] = worker[v]
  BY WorkerMoves DEF SendInv
<1>2. (operation \in {"change", "observe_only"} /\ elapsed \in BOOLEAN)'
  BY DEF ReadInv
<1>3. ObjectOK'
  BY DEF ReadInv, ObjectOK, Well, Reading!ChargeOf, Reading!Live
<1>4. Reading!Reached(object)' = Reading!Reached(object)
  BY DEF Reading!Reached
<1>5. Len(items) \in Nat /\ Len(m) \in Nat /\ Len(items) <= Len(m)
  BY DEF ReadInv, Listed, Extends
<1>6. ASSUME NEW j, ViewOK(j), Tells(j) PROVE ViewOK(j)' /\ Tells(j)'
  <2>1. ViewOK(j)'
    BY <1>4, <1>6 DEF ViewOK
  <2>2. Tells(j)'
    <3>1. j.prior \in Nat /\ j.prior <= Len(m)
      BY <1>5, <1>6 DEF Tells
    <3>2. j.pc = "report" => Claimed(j.item) /\ j.item.supersedes \in 0..Len(m)
      BY <1>5, <1>6 DEF Tells
    <3>3. Claimed(j.item)' <=> Claimed(j.item)
      BY DEF Claimed
    <3>4. QED
      BY <3>1, <3>2, <3>3 DEF Tells
  <2>3. QED
    BY <2>1, <2>2
<1>7. ViewOK(k) /\ Tells(k)
  BY <1>5 DEF ViewOK, Tells, Has, Reading!Unread
<1>8. ASSUME NEW v \in Reading!Workers PROVE (ViewOK(worker[v]) /\ Tells(worker[v]))'
  <2>1. PICK j : j = worker'[v]
    OBVIOUS
  <2>2. ViewOK(j) /\ Tells(j)
    BY <1>1, <1>7, <2>1 DEF ReadInv
  <2>3. ViewOK(j)' /\ Tells(j)'
    BY <1>6, <2>2
  <2>4. QED
    BY <2>1, <2>3 DEF ViewOK, Tells, Has
<1>9. Listed(items)'
  BY DEF Listed, Claimed
<1>10. ClaimOK'
  <2>1. /\ claim.cited \subseteq DOMAIN m
        /\ \A i \in claim.cited : items'[i].held = items[i].held
    BY DEF ReadInv, ClaimOK, Extends
  <2>2. UNION {items'[i].held : i \in claim.cited} = UNION {items[i].held : i \in claim.cited}
    BY <2>1
  <2>3. Reading!ClaimsHeldWhenRead'
    BY <2>2 DEF ReadInv, ClaimOK, Reading!ClaimsHeldWhenRead
  <2>4. QED
    BY <2>1, <2>3 DEF ReadInv, ClaimOK
<1>11. QED
  BY <1>2, <1>3, <1>8, <1>9, <1>10 DEF ReadInv, Reading!Workers

LEMMA AppendReportedReads ==
    ASSUME SendInv, ReadInv, Reading!AppendReported
    PROVE  ReadInv'
<1>1. PICK j : j = worker["dispatcher"]
  OBVIOUS
<1>2. /\ j.pc = "report" /\ Claimed(j.item) /\ j.item.supersedes \in 0..Len(items)
      /\ j.attempt \in 0..AttemptBudget /\ "dispatcher" \in Reading!Workers
  BY <1>1, Names DEF SendInv, ReadInv, Tells, WorkersShaped, Shaped, Reading!AppendReported
<1>3. PICK l : l = Reading!WithItem(items, j.item)
  OBVIOUS
<1>4. Listed(l) /\ Extends(l, items)
  BY <1>2, <1>3, ItemAppended DEF ReadInv
<1>5. PICK m : m = Reading!WithItem(l, Reading!NotSentItem)
  OBVIOUS
<1>6. Listed(m) /\ Extends(m, l)
  <2>1. PICK item : item = Reading!NotSentItem
    OBVIOUS
  <2>2. Claimed(item) /\ item.supersedes \in 0..Len(l)
    BY <1>4, <2>1, MuteClaimed DEF Listed
  <2>3. QED
    BY <1>4, <1>5, <2>1, <2>2, ItemAppended
<1>7. Extends(m, items)
  BY <1>4, <1>6 DEF Extends, ReadInv, Listed
<1>8. items' = m \/ items' = l
  BY <1>1, <1>3, <1>5 DEF Reading!AppendReported
<1>9. PICK k : k = [Reading!Resting EXCEPT !.attempt = j.attempt]
  OBVIOUS
<1>10. k = [pc |-> "idle", attempt |-> j.attempt, next |-> 1, view |-> Reading!Unread,
            prior |-> 0, held |-> {}, item |-> Reading!ResponseItem, unsent |-> FALSE]
  BY <1>9 DEF Reading!Resting
<1>11. Shaped(k) /\ k.view = Reading!Unread /\ k.prior = 0 /\ k.pc \in {"idle", "derive"}
  BY <1>2, <1>10 DEF Shaped, Places
<1>12. /\ Reading!Becomes("dispatcher", k)
       /\ UNCHANGED <<effect, operation, object, elapsed, claim>>
  BY <1>1, <1>9 DEF Reading!AppendReported, Reading!world
<1>13. QED
  BY <1>2, <1>4, <1>6, <1>7, <1>8, <1>11, <1>12, AppendReads

LEMMA AppendObservationReads ==
    ASSUME SendInv, ReadInv, Reading!AppendObservation
    PROVE  ReadInv'
<1>1. PICK j : j = worker["observer"]
  OBVIOUS
<1>2. /\ j.pc = "report" /\ Claimed(j.item) /\ j.item.supersedes \in 0..Len(items)
      /\ "observer" \in Reading!Workers
  BY <1>1, Names DEF ReadInv, Tells, Reading!AppendObservation
<1>3. PICK m : m = Reading!WithItem(items, j.item)
  OBVIOUS
<1>4. Listed(m) /\ Extends(m, items)
  BY <1>2, <1>3, ItemAppended DEF ReadInv
<1>5. PICK k : k = [Reading!Resting EXCEPT !.pc = "derive"]
  OBVIOUS
<1>6. k = [pc |-> "derive", attempt |-> 0, next |-> 1, view |-> Reading!Unread,
           prior |-> 0, held |-> {}, item |-> Reading!ResponseItem, unsent |-> FALSE]
  BY <1>5 DEF Reading!Resting
<1>7. Shaped(k) /\ k.view = Reading!Unread /\ k.prior = 0 /\ k.pc \in {"idle", "derive"}
  BY <1>6, Names DEF Shaped, Places
<1>8. /\ Reading!Becomes("observer", k) /\ items' = m
      /\ UNCHANGED <<effect, operation, object, elapsed, claim>>
  BY <1>1, <1>3, <1>5 DEF Reading!AppendObservation, Reading!world
<1>9. QED
  BY <1>2, <1>4, <1>7, <1>8, AppendReads

(* What flooring may leave of a claim.                                     *)
LEMMA ReadingFloored ==
    ASSUME NEW spec, NEW proposed \in EffectStates, NEW refs, NEW decision, NEW evidence, NEW state,
           state = Reading!ApplySafetyFloors(spec, proposed, refs, decision, evidence).state
    PROVE  /\ state \in EffectStates
           /\ state \in {"verified", "not_applied"} => proposed = state
           /\ state = "satisfied_unattributed" => proposed \in {state, "verified"}
<1>1. \A r : \A p \in EffectStates :
        LET s == Reading!EpistemicFloor(p, r, evidence) IN
        /\ s \in EffectStates
        /\ s \in {"verified", "not_applied"} => p = s
        /\ s = "satisfied_unattributed" => p \in {s, "verified"}
  BY DEF Reading!EpistemicFloor, EffectStates
<1>2. \A p, r, d : Reading!FloorOnce(spec, p, r, d, evidence).state
                     = Reading!EpistemicFloor(p, r, evidence)
  BY DEF Reading!FloorOnce
<1>3. PICK s : s = Reading!EpistemicFloor(proposed, refs, evidence)
  OBVIOUS
<1>4. \/ state = s
      \/ \E r : state = Reading!EpistemicFloor(s, r, evidence)
  BY <1>2, <1>3 DEF Reading!ApplySafetyFloors
<1>5. QED
  BY <1>1, <1>3, <1>4

(* What a spec makes of the ledger is what its last snapshot says.         *)
LEMMA ObscuredProposed ==
    ASSUME ReadInv, NEW a, a = Reading!ObscuredAssessment(items)
    PROVE  a.state \in {"pending", "unprovable"} /\ a.refs \subseteq DOMAIN items
<1>1. PICK F : F = Reading!Fresh(items)
  OBVIOUS
<1>2. F \subseteq DOMAIN items
  BY <1>1 DEF Reading!Fresh
<1>3. PICK last : last = Reading!Latest(F)
  OBVIOUS
<1>4. last = 0 \/ last \in DOMAIN items
  BY <1>2, <1>3, LatestIn
<1>5. PICK R : R = {i \in F : ~Reading!TransportOnly(items[i])}
  OBVIOUS
<1>6. PICK r : r = Reading!Latest(R)
  OBVIOUS
<1>7. r = 0 \/ r \in DOMAIN items
  BY <1>2, <1>5, <1>6, LatestIn
<1>8. a = IF last # 0 /\ items[last].says = [category |-> "rate_limited"]
          THEN Reading!Assessment("pending", {last}, TRUE)
          ELSE Reading!Assessment("unprovable",
                    IF last # 0 /\ items[last].type = "failure" THEN {last}
                    ELSE IF Reading!LastSnapshot(items) # 0 THEN {}
                    ELSE {r} \ {0}, FALSE)
  BY <1>1, <1>3, <1>5, <1>6 DEF Reading!ObscuredAssessment, Reading!LastFresh
<1>9. QED
  BY <1>4, <1>7, <1>8 DEF Reading!Assessment

Founded(a) ==
    /\ a.state \in EffectStates /\ a.refs \subseteq DOMAIN items
    /\ a.state = "verified" => \E i \in a.refs : "mine" \in items[i].held
    /\ a.state = "satisfied_unattributed" => \E i \in a.refs : "other" \in items[i].held
    /\ a.state = "not_applied" => \E i \in a.refs : "nobody" \in items[i].held

LEMMA SnapshotCited ==
    ASSUME ReadInv, ~Reading!Obscured(items), NEW last, last = Reading!LastSnapshot(items)
    PROVE  last \in DOMAIN items /\ items[last].type = "snapshot" /\ Claimed(items[last])
<1>1. last # 0
  BY DEF Reading!Obscured
<1>2. PICK S : S = {i \in Reading!Fresh(items) : items[i].type = "snapshot"}
  OBVIOUS
<1>3. last = Reading!Latest(S)
  BY <1>2 DEF Reading!LastSnapshot
<1>4. last \in S
  BY <1>1, <1>3, LatestIn
<1>5. QED
  BY <1>2, <1>4 DEF Reading!Fresh, ReadInv, Listed

LEMMA OktaProposed ==
    ASSUME ReadInv, effect = "okta", NEW a, a = Reading!OktaAssess(items)
    PROVE  Founded(a)
<1>1. CASE Reading!Obscured(items)
  <2>1. a = Reading!ObscuredAssessment(items)
    BY <1>1 DEF Reading!OktaAssess
  <2>2. QED
    BY <2>1, ObscuredProposed DEF Founded, EffectStates
<1>2. CASE ~Reading!Obscured(items)
  <2>1. PICK last : last = Reading!LastSnapshot(items)
    OBVIOUS
  <2>2. PICK says : says = items[last].says
    OBVIOUS
  <2>3. PICK state : state = CASE ~says.supported -> "unprovable"
                               [] says.supported /\ says.goal -> "satisfied_unattributed"
                               [] says.supported /\ ~says.goal ->
                                    IF says.elapsed THEN "not_applied" ELSE "pending"
    OBVIOUS
  <2>4. a = Reading!Assessment(state, {last}, FALSE)
    BY <1>2, <2>1, <2>2, <2>3 DEF Reading!OktaAssess
  <2>5. a.state = state /\ a.refs = {last}
    BY <2>4 DEF Reading!Assessment
  <2>6. /\ state \in {"unprovable", "satisfied_unattributed", "not_applied", "pending"}
        /\ state = "satisfied_unattributed" => says.goal
        /\ state = "not_applied" => ~says.goal
    BY <2>3
  <2>7. last \in DOMAIN items /\ items[last].type = "snapshot" /\ Claimed(items[last])
    BY <1>2, <2>1, SnapshotCited
  <2>8. (IF says.goal THEN "other" ELSE "nobody") \in items[last].held
    BY <2>2, <2>7 DEF Claimed
  <2>9. QED
    BY <2>5, <2>6, <2>7, <2>8 DEF Founded, EffectStates
<1>3. QED
  BY <1>1, <1>2

LEMMA StripeProposed ==
    ASSUME ReadInv, effect # "okta", NEW a, a = Reading!StripeAssess(items)
    PROVE  Founded(a)
<1>1. CASE Reading!Obscured(items)
  <2>1. a = Reading!ObscuredAssessment(items)
    BY <1>1 DEF Reading!StripeAssess
  <2>2. QED
    BY <2>1, ObscuredProposed DEF Founded, EffectStates
<1>2. CASE ~Reading!Obscured(items)
  <2>1. PICK last : last = Reading!LastSnapshot(items)
    OBVIOUS
  <2>2. PICK e : e = items[last].says.found
    OBVIOUS
  <2>3. PICK state : state = IF e.goal THEN IF e.mine THEN "verified" ELSE "satisfied_unattributed"
                             ELSE IF e.inconsistent THEN "unprovable"
                             ELSE IF e.pending \/ ~(e.failed \/ items[last].says.elapsed)
                             THEN "pending" ELSE "not_applied"
    OBVIOUS
  <2>4. a = Reading!Assessment(state, {last}, FALSE)
    BY <1>2, <2>1, <2>2, <2>3 DEF Reading!StripeAssess
  <2>5. a.state = state /\ a.refs = {last}
    BY <2>4 DEF Reading!Assessment
  <2>6. last \in DOMAIN items /\ items[last].type = "snapshot" /\ Claimed(items[last])
    BY <1>2, <2>1, SnapshotCited
  <2>7. /\ e.goal /\ e.mine => "mine" \in items[last].held
        /\ e.goal /\ ~e.mine => "other" \in items[last].held
        /\ ~e.goal /\ ~e.inconsistent /\ ~e.pending => "nobody" \in items[last].held
    BY <2>2, <2>6 DEF Claimed
  <2>8. QED
    BY <2>3, <2>5, <2>6, <2>7 DEF Founded, EffectStates
<1>3. QED
  BY <1>1, <1>2

LEMMA DeriveReads ==
    ASSUME SendInv, ReadInv, Reading!Derive
    PROVE  ReadInv'
<1>1. PICK a : a = IF effect = "okta" THEN Reading!OktaAssess(items)
                   ELSE Reading!StripeAssess(items)
  OBVIOUS
<1>2. Founded(a)
  <2>1. CASE effect = "okta"
    BY <1>1, <2>1, OktaProposed
  <2>2. CASE effect # "okta"
    BY <1>1, <2>2, StripeProposed
  <2>3. QED
    BY <2>1, <2>2
<1>3. PICK d : d = IF effect = "okta" THEN Reading!OktaDecide(a) ELSE Reading!StripeDecide(a)
  OBVIOUS
<1>4. PICK spec : spec = IF effect = "okta" THEN Reading!OktaSpec ELSE Reading!StripeSpec
  OBVIOUS
<1>5. PICK evidence : evidence = Reading!ItemsAsEvidence(items)
  OBVIOUS
<1>6. PICK floored : floored = Reading!ApplySafetyFloors(spec, a.state, a.refs, d, evidence)
  OBVIOUS
<1>7. /\ claim' = [state |-> floored.state, cited |-> a.refs,
                   decision |-> floored.decision.retry]
      /\ Reading!Becomes("observer", Reading!Resting)
      /\ UNCHANGED <<effect, operation, object, elapsed, items>>
  BY <1>1, <1>3, <1>4, <1>5, <1>6 DEF Reading!Derive, Reading!Rest, Reading!world
<1>8. PICK state : state = floored.state
  OBVIOUS
<1>9. /\ state \in EffectStates
      /\ state \in {"verified", "not_applied"} => a.state = state
      /\ state = "satisfied_unattributed" => a.state \in {state, "verified"}
  BY <1>2, <1>6, <1>8, ReadingFloored DEF Founded
<1>10. /\ worker'["observer"] = Reading!Resting
       /\ \A v \in Reading!Workers : v # "observer" => worker'[v] = worker[v]
  BY <1>7, RestingShaped, WorkerMoves, Names DEF SendInv
<1>11. (operation \in {"change", "observe_only"} /\ elapsed \in BOOLEAN)'
  BY <1>7 DEF ReadInv
<1>12. ObjectOK'
  BY <1>7 DEF ReadInv, ObjectOK, Well, Reading!ChargeOf, Reading!Live
<1>13. ASSUME NEW j, ViewOK(j), Tells(j) PROVE ViewOK(j)' /\ Tells(j)'
  <2>1. Reading!Reached(object)' = Reading!Reached(object)
    BY <1>7 DEF Reading!Reached
  <2>2. ViewOK(j)'
    BY <1>7, <1>13, <2>1 DEF ViewOK
  <2>3. Tells(j)'
    BY <1>7, <1>13 DEF Tells, Claimed
  <2>4. QED
    BY <2>2, <2>3
<1>14. ViewOK(Reading!Resting) /\ Tells(Reading!Resting)
  BY DEF ViewOK, Tells, Has, Reading!Resting, Reading!Unread, ReadInv, Listed
<1>15. ASSUME NEW v \in Reading!Workers PROVE (ViewOK(worker[v]) /\ Tells(worker[v]))'
  <2>1. PICK j : j = worker'[v]
    OBVIOUS
  <2>2. ViewOK(j) /\ Tells(j)
    BY <1>10, <1>14, <2>1 DEF ReadInv
  <2>3. ViewOK(j)' /\ Tells(j)'
    BY <1>13, <2>2
  <2>4. QED
    BY <2>1, <2>3 DEF ViewOK, Tells, Has
<1>16. Listed(items)'
  BY <1>7 DEF ReadInv, Listed, Claimed
<1>17. ClaimOK'
  <2>1. claim'.state = state /\ claim'.cited = a.refs
    BY <1>7, <1>8
  <2>2. PICK held : held = UNION {items[i].held : i \in a.refs}
    OBVIOUS
  <2>3. /\ state = "verified" => "mine" \in held
        /\ state = "satisfied_unattributed" => held \intersect {"mine", "other"} # {}
        /\ state = "not_applied" => "nobody" \in held
    BY <1>2, <1>9, <2>2 DEF Founded
  <2>4. Reading!ClaimsHeldWhenRead'
    BY <1>7, <2>1, <2>2, <2>3 DEF Reading!ClaimsHeldWhenRead
  <2>5. QED
    BY <1>2, <1>7, <1>9, <2>1, <2>4 DEF ClaimOK, Founded
<1>18. QED
  BY <1>11, <1>12, <1>15, <1>16, <1>17 DEF ReadInv, Reading!Workers

LEMMA ReadRest ==
    ASSUME ReadInv, elapsed' \in BOOLEAN,
           UNCHANGED <<effect, operation, object, items, worker, claim>>
    PROVE  ReadInv'
<1>1. Reading!Reached(object)' = Reading!Reached(object)
  BY DEF Reading!Reached
<1>2. ObjectOK'
  BY DEF ReadInv, ObjectOK, Well, Reading!ChargeOf, Reading!Live
<1>3. ASSUME NEW v \in Reading!Workers PROVE (ViewOK(worker[v]) /\ Tells(worker[v]))'
  <2>1. PICK j : j = worker[v]
    OBVIOUS
  <2>2. ViewOK(j) /\ Tells(j)
    BY <2>1 DEF ReadInv
  <2>3. ViewOK(j)'
    BY <1>1, <2>2 DEF ViewOK
  <2>4. Tells(j)'
    BY <2>2 DEF Tells, Claimed
  <2>5. QED
    BY <2>1, <2>3, <2>4 DEF ViewOK, Tells, Has
<1>4. Listed(items)'
  BY DEF ReadInv, Listed, Claimed
<1>5. ClaimOK'
  BY DEF ReadInv, ClaimOK, Reading!ClaimsHeldWhenRead
<1>6. QED
  BY <1>2, <1>3, <1>4, <1>5 DEF ReadInv, Reading!Workers

LEMMA ReadStep ==
    ASSUME SendInv, ReadInv, Reading!Next
    PROVE  ReadInv'
<1>1. ASSUME NEW n \in Reading!Tries, Reading!Land(n) PROVE ReadInv'
  <2>1. PICK status \in {"pending", "succeeded"} : Reading!Takes(status)
    BY <1>1 DEF Reading!Land
  <2>2. ObjectOK
    BY DEF ReadInv
  <2>3. PICK o : /\ Reading!Changes(o) /\ Well(o)
                 /\ effect = "capture" /\ object.refunds # {} => o.refunds # {}
    BY <2>1, <2>2, TakenWell
  <2>4. UNCHANGED <<effect, operation, elapsed, items, claim>>
    BY <1>1 DEF Reading!Land
  <2>5. QED
    BY <2>3, <2>4, ChangeReads
<1>2. ASSUME Reading!Change PROVE ReadInv'
  <2>1. PICK o \in Reading!Successors : Reading!Changes(o)
    BY <1>2 DEF Reading!Change
  <2>2. Well(o) /\ (effect = "capture" /\ object.refunds # {} => o.refunds # {})
    BY SuccessorsWell DEF ReadInv
  <2>3. UNCHANGED <<effect, operation, elapsed, items, claim>>
    BY <1>2 DEF Reading!Change
  <2>4. QED
    BY <2>1, <2>2, <2>3, ChangeReads
<1>3. ASSUME NEW n \in Reading!Tries, Reading!Drop(n) PROVE ReadInv'
  <2>1. UNCHANGED <<effect, operation, object, elapsed, items, worker, claim>>
    BY <1>3 DEF Reading!Drop
  <2>2. elapsed' \in BOOLEAN
    BY <2>1 DEF ReadInv
  <2>3. QED
    BY <2>1, <2>2, ReadRest
<1>4. ASSUME Reading!WindowElapses PROVE ReadInv'
  BY <1>4, ReadRest DEF Reading!WindowElapses
<1>5. QED
  BY <1>1, <1>2, <1>3, <1>4, DispatchReads, ReadReads, DispatcherReads, AppendReportedReads,
     ObserveReads, ObservedReads, ObserveFailsReads, AppendObservationReads, DeriveReads
     DEF Reading!Next

(* Over every step of the module.                                          *)
LEMMA ReadingInitially == InitAll => SendInv /\ ReadInv
BY SendInit, ReadInit DEF InitAll

LEMMA ReadingStep ==
    ASSUME SendInv, ReadInv, [NextAll]_<<followed, vars, reading, shadow, sandbox>>
    PROVE  (SendInv /\ ReadInv)'
<1>1. CASE Reading!Next
  BY <1>1, SendStep, ReadStep
<1>2. CASE UNCHANGED reading
  <2>1. UNCHANGED <<effect, operation, object, elapsed, items, request, unsent, worker, claim>>
    BY <1>2 DEF reading
  <2>2. elapsed' \in BOOLEAN
    BY <2>1 DEF ReadInv
  <2>3. QED
    BY <2>1, <2>2, SendRest, ReadRest
<1>3. QED
  BY <1>1, <1>2 DEF NextAll

(* An attempt an adapter calls "definitely_not_sent" never reaches the     *)
(* provider, and every certainty was true at some moment of the read it    *)
(* rests on, however the provider's object changed while it was read.      *)
THEOREM AdaptersTheorem == SpecAll => []AdaptersTellTheTruth
<1>1. SendInv /\ ReadInv => AdaptersTellTheTruth
  BY SendGives DEF AdaptersTellTheTruth, ReadInv, ClaimOK
<1>2. QED
  BY <1>1, ReadingInitially, ReadingStep, PTL DEF SpecAll

LEMMA ReadingTypes == SendInv /\ ReadInv => Reading!TypeOK
<1>1. \A i \in DOMAIN items : SendInv /\ ReadInv => items[i].supersedes \in 0..(i - 1)
  BY DEF ReadInv, Listed
<1>2. SendInv => unsent \subseteq Reading!Tries
  BY Names DEF SendInv, Dispatching, WorkersShaped, Shaped
<1>3. ReadInv => claim.state \in Reading!EffectStates \union {"none"}
  BY DEF ReadInv, ClaimOK, EffectStates, Reading!EffectStates
<1>4. QED
  BY <1>1, <1>2, <1>3 DEF SendInv, ReadInv, Reading!TypeOK

(* The types of the derivation and of the adapters are kept.               *)
THEOREM TypesTheorem == SpecAll => []TypesOK
<1>1. SpecAll => Spec
  <2>1. InitAll => Init
    BY DEF InitAll
  <2>2. [NextAll]_<<followed, vars, reading, shadow, sandbox>> => [Next]_vars
    BY DEF NextAll
  <2>3. QED
    BY <2>1, <2>2, PTL DEF SpecAll, Spec
<1>2. SpecAll => [](SendInv /\ ReadInv)
  BY ReadingInitially, ReadingStep, PTL DEF SpecAll
<1>3. (SendInv /\ ReadInv) /\ TypeOK => TypesOK
  BY ReadingTypes DEF TypesOK
<1>4. QED
  BY <1>1, <1>2, <1>3, DerivationType, PTL

-----------------------------------------------------------------------------
(* The floors of the evaluation are the floors.                            *)
LEMMA SameEpistemic ==
    ASSUME NEW p, NEW r, NEW e
    PROVE  Shadowing!EpistemicFloor(p, r, e) = EpistemicFloor(p, r, e)
<1>1. Shadowing!Active(e) = Active(e)
  BY DEF Shadowing!Active, Active, Shadowing!Superseded, Superseded
<1>2. Shadowing!Cited(r, e) = Cited(r, e)
  BY <1>1 DEF Shadowing!Cited, Cited
<1>3. Shadowing!Contradictory(e) = Contradictory(e)
  BY <1>1 DEF Shadowing!Contradictory, Contradictory, Shadowing!Authoritatively, Authoritatively
<1>4. \A c : /\ Shadowing!AbsenceProof(c) = AbsenceProof(c)
             /\ Shadowing!AttributedPresence(c) = AttributedPresence(c)
             /\ Shadowing!GoalStatePresence(c) = GoalStatePresence(c)
             /\ Shadowing!CompensationProof(c) = CompensationProof(c)
  BY DEF Shadowing!AbsenceProof, AbsenceProof, Shadowing!AttributedPresence, AttributedPresence,
         Shadowing!GoalStatePresence, GoalStatePresence, Shadowing!CompensationProof,
         CompensationProof, Shadowing!Substantive, Substantive, Shadowing!Authoritatively,
         Authoritatively
<1>5. QED
  BY <1>1, <1>2, <1>3, <1>4 DEF Shadowing!EpistemicFloor, EpistemicFloor,
     Shadowing!Authoritatively, Authoritatively

LEMMA SameControl ==
    ASSUME NEW s, NEW d, NEW spec, NEW e
    PROVE  Shadowing!ControlFloor(s, d, spec, e) = ControlFloor(s, d, spec, e)
<1>1. Shadowing!Active(e) = Active(e)
  BY DEF Shadowing!Active, Active, Shadowing!Superseded, Superseded
<1>2. \A x : Shadowing!C6(x, e) = C6(x, e)
  BY <1>1 DEF Shadowing!C6, C6, Shadowing!HoldIfRetry, HoldIfRetry
<1>3. \A x : Shadowing!C7(x, spec) = C7(x, spec)
  BY DEF Shadowing!C7, C7
<1>4. \A x : Shadowing!PerState(s, x, spec) = PerState(s, x, spec)
  BY DEF Shadowing!PerState, PerState, Shadowing!C1, C1, Shadowing!C2, C2, Shadowing!C3, C3,
         Shadowing!C4, C4, Shadowing!C5, C5, Shadowing!HoldIfRetry, HoldIfRetry
<1>5. \A x : /\ Shadowing!C8(x, s) = C8(x, s) /\ Shadowing!C9(x, s) = C9(x, s)
             /\ Shadowing!C10(x, s) = C10(x, s)
  BY DEF Shadowing!C8, C8, Shadowing!C9, C9, Shadowing!C10, C10, Shadowing!HoldOrEscalate,
         HoldOrEscalate
<1>6. QED
  BY <1>2, <1>3, <1>4, <1>5 DEF Shadowing!ControlFloor, ControlFloor

LEMMA SameFloors ==
    ASSUME NEW spec, NEW p, NEW r, NEW d, NEW e
    PROVE  Shadowing!ApplySafetyFloors(spec, p, r, d, e) = ApplySafetyFloors(spec, p, r, d, e)
<1>1. \A q, c, x : Shadowing!FloorOnce(spec, q, c, x, e) = FloorOnce(spec, q, c, x, e)
  BY SameEpistemic, SameControl DEF Shadowing!FloorOnce, FloorOnce
<1>2. Shadowing!Cited(r, e) = Cited(r, e)
  BY DEF Shadowing!Cited, Cited, Shadowing!Active, Active, Shadowing!Superseded, Superseded
<1>3. QED
  BY <1>1, <1>2 DEF Shadowing!ApplySafetyFloors, ApplySafetyFloors

LEMMA SameBoundary ==
    ASSUME NEW d, NEW status, NEW idempotent, NEW n
    PROVE  Shadowing!ApplyDispatchBoundaryFloor(d, status, idempotent, n)
             = ApplyDispatchBoundaryFloor(d, status, idempotent, n)
BY DEF Shadowing!ApplyDispatchBoundaryFloor, ApplyDispatchBoundaryFloor, Shadowing!HoldIfRetry,
       HoldIfRetry, Shadowing!AttemptBudget, AttemptBudget

(* What is evidenced and settled leaves the floors as it was proposed.     *)
LEMMA FloorsKeep ==
    ASSUME NEW spec, NEW state \in EffectStates, NEW refs, NEW d \in ControlDecision, NEW evidence,
           EpistemicFloor(state, refs, evidence) = state, Settled(state, d, spec, evidence)
    PROVE  ApplySafetyFloors(spec, state, refs, d, evidence) = [state |-> state, decision |-> d]
<1>1. ControlFloor(state, d, spec, evidence) = d
  BY SettledIsFixed
<1>2. FloorOnce(spec, state, refs, d, evidence) = [state |-> state, decision |-> d]
  BY <1>1 DEF FloorOnce
<1>3. QED
  BY <1>2 DEF ApplySafetyFloors

Effects4 == {"okta", "github", "refund", "capture"}

(* An evaluation whose proposal the floors keep.                           *)
LEMMA OutcomeKept ==
    ASSUME NEW eff, NEW l, NEW transport, NEW attempts,
           NEW a, a = Shadowing!Assess(eff, l), NEW state \in EffectStates, a.state = state,
           NEW spec, spec = Shadowing!SpecOf(eff),
           NEW d \in ControlDecision, d = Shadowing!Decide(eff, a),
           NEW e, e = Shadowing!ItemsAsEvidence(l),
           EpistemicFloor(state, a.refs, e) = state, Settled(state, d, spec, e),
           NEW o, o = Shadowing!Outcome(eff, l, transport, attempts)
    PROVE  /\ o.state = state
           /\ o.decision = ApplyDispatchBoundaryFloor(d,
                 IF transport = "definitely_not_sent" THEN transport ELSE "attempted",
                 spec.idempotent, attempts)
<1>1. PICK f : f = Shadowing!ApplySafetyFloors(spec, state, a.refs, d, e)
  OBVIOUS
<1>2. f = [state |-> state, decision |-> d]
  BY <1>1, SameFloors, FloorsKeep
<1>3. o = [state |-> f.state,
           decision |-> Shadowing!ApplyDispatchBoundaryFloor(f.decision,
              IF transport = "definitely_not_sent" THEN transport ELSE "attempted",
              spec.idempotent, attempts)]
  BY <1>1 DEF Shadowing!Outcome
<1>4. QED
  BY <1>2, <1>3, SameBoundary

(* What the floors leave is no wider than what was proposed.               *)
LEMMA OutcomeTightens ==
    ASSUME NEW eff, NEW l, NEW transport, NEW attempts,
           NEW a, a = Shadowing!Assess(eff, l), a.state \in EffectStates,
           Shadowing!SpecOf(eff) \in EffectSpec,
           NEW d \in ControlDecision, d = Shadowing!Decide(eff, a),
           NEW o, o = Shadowing!Outcome(eff, l, transport, attempts)
    PROVE  Tightens(o.decision, d)
<1>1. PICK spec : spec = Shadowing!SpecOf(eff)
  OBVIOUS
<1>2. PICK e : e = Shadowing!ItemsAsEvidence(l)
  OBVIOUS
<1>3. PICK state, refs : state = a.state /\ refs = a.refs
  OBVIOUS
<1>4. PICK status : status = IF transport = "definitely_not_sent" THEN transport ELSE "attempted"
  OBVIOUS
<1>5. PICK f : f = ApplySafetyFloors(spec, state, refs, d, e)
  OBVIOUS
<1>6. o.decision = ApplyDispatchBoundaryFloor(f.decision, status, spec.idempotent, attempts)
  <2>1. f = Shadowing!ApplySafetyFloors(spec, state, refs, d, e)
    BY <1>5, SameFloors
  <2>2. o = [state |-> f.state,
             decision |-> Shadowing!ApplyDispatchBoundaryFloor(f.decision, status,
                                                               spec.idempotent, attempts)]
    BY <1>1, <1>2, <1>3, <1>4, <2>1 DEF Shadowing!Outcome
  <2>3. QED
    BY <2>2, SameBoundary
<1>7. spec \in EffectSpec /\ state \in EffectStates
  BY <1>1, <1>3
<1>8. LET floored == ApplySafetyFloors(spec, state, refs, d, e)
          b == ApplyDispatchBoundaryFloor(floored.decision, status, spec.idempotent, attempts)
      IN  Tightens(b, d)
  BY <1>7, DeriveFacts
<1>9. QED
  BY <1>5, <1>6, <1>8

-----------------------------------------------------------------------------
(* The ledgers of an evaluation: what came of the mutation, and at most    *)
(* one snapshot after it.                                                  *)
Exchanged(x) ==
    /\ x.type \in {"response", "transport", "not_sent"} /\ x.says = Shadowing!Mute
    /\ x.facets.strength # "authoritative" /\ x.facets.disposition # "effect_present"
    /\ x.supersedes = 0

Unread(l) == \E n \in Nat : DOMAIN l = 1..n /\ \A i \in 1..n : Exchanged(l[i])

Read(l, n, x) ==
    /\ n \in Nat \ {0} /\ DOMAIN l = 1..n /\ l[n] = x
    /\ x.type = "snapshot" /\ x.supersedes = 0 /\ x.facets.strength # "transport_only"
    /\ \A i \in 1..n : i # n => Exchanged(l[i])

LEMMA ShadowLatestIn ==
    ASSUME NEW S
    PROVE  Shadowing!Latest(S) = 0 \/ Shadowing!Latest(S) \in S
<1>. DEFINE greatest == {i \in S : \A j \in S : j <= i}
<1>1. greatest \subseteq S
  OBVIOUS
<1>2. greatest # {} => (CHOOSE i \in greatest : TRUE) \in greatest
  <2>. HIDE DEF greatest
  <2>. QED  OBVIOUS
<1>3. Shadowing!Latest(S) = IF greatest = {} THEN 0 ELSE CHOOSE i \in greatest : TRUE
  BY DEF Shadowing!Latest
<1>. HIDE DEF greatest
<1>4. QED
  BY <1>1, <1>2, <1>3

LEMMA ShadowLatestIs ==
    ASSUME NEW n \in Nat, NEW S \in SUBSET (1..n), n \in S
    PROVE  Shadowing!Latest(S) = n
<1>1. PICK g : g = {i \in S : \A j \in S : j <= i}
  OBVIOUS
<1>2. g = {n}
  <2>1. n \in g
    BY <1>1
  <2>2. \A i \in g : i = n
    BY <1>1
  <2>3. QED
    BY <2>1, <2>2
<1>3. Shadowing!Latest(S) = IF g = {} THEN 0 ELSE CHOOSE i \in g : TRUE
  BY <1>1 DEF Shadowing!Latest
<1>4. QED
  BY <1>2, <1>3

(* Without a snapshot nothing is known.                                    *)
LEMMA UnreadObscured ==
    ASSUME NEW l, Unread(l)
    PROVE  /\ Shadowing!Obscured(l)
           /\ Shadowing!ObscuredAssessment(l).state = "unprovable"
<1>1. PICK n \in Nat : DOMAIN l = 1..n /\ \A i \in 1..n : Exchanged(l[i])
  BY DEF Unread
<1>2. PICK F : F = Shadowing!Fresh(l)
  OBVIOUS
<1>3. F \subseteq 1..n
  BY <1>1, <1>2 DEF Shadowing!Fresh
<1>4. {i \in F : l[i].type = "snapshot"} = {}
  BY <1>1, <1>3 DEF Exchanged
<1>5. Shadowing!LastSnapshot(l) = 0
  <2>1. Shadowing!LastSnapshot(l) = Shadowing!Latest({})
    BY <1>2, <1>4 DEF Shadowing!LastSnapshot
  <2>2. QED
    BY <2>1, ShadowLatestIn
<1>6. PICK last : last = Shadowing!LastFresh(l)
  OBVIOUS
<1>7. last = 0 \/ last \in 1..n
  BY <1>2, <1>3, <1>6, ShadowLatestIn DEF Shadowing!LastFresh
<1>8. ~(last # 0 /\ l[last].says = [category |-> "rate_limited"])
  BY <1>1, <1>7 DEF Exchanged, Shadowing!Mute
<1>9. PICK R : Shadowing!ObscuredAssessment(l) = Shadowing!Assessment("unprovable", R, FALSE)
  BY <1>6, <1>8 DEF Shadowing!ObscuredAssessment
<1>10. QED
  BY <1>5, <1>9 DEF Shadowing!Obscured, Shadowing!Assessment

(* A snapshot that ends the ledger is what the specs go by.                *)
LEMMA ReadIsLast ==
    ASSUME NEW l, NEW n, NEW x, Read(l, n, x)
    PROVE  ~Shadowing!Obscured(l) /\ Shadowing!LastSnapshot(l) = n
<1>1. Shadowing!Fresh(l) = 1..n
  BY DEF Read, Exchanged, Shadowing!Fresh
<1>2. Shadowing!LastFresh(l) = n
  BY <1>1, ShadowLatestIs DEF Read, Shadowing!LastFresh
<1>3. PICK S : S = {i \in 1..n : l[i].type = "snapshot"}
  OBVIOUS
<1>4. S \in SUBSET (1..n) /\ n \in S
  BY <1>3 DEF Read
<1>5. Shadowing!LastSnapshot(l) = n
  BY <1>1, <1>3, <1>4, ShadowLatestIs DEF Read, Shadowing!LastSnapshot
<1>6. QED
  BY <1>2, <1>5 DEF Read, Shadowing!Obscured, Shadowing!TransportOnly

(* The record of the snapshot is current, and the one authoritative one,   *)
(* and the one of a presence.                                              *)
SnapshotRecord(n, x) ==
    [ref |-> n, kind |-> x.facets.kind, strength |-> x.facets.strength,
     disposition |-> x.facets.disposition, attribution |-> x.facets.attribution,
     supersedes |-> x.supersedes]

LEMMA ReadEvidence ==
    ASSUME NEW l, NEW n, NEW x, Read(l, n, x), NEW e, e = Shadowing!ItemsAsEvidence(l)
    PROVE  /\ SnapshotRecord(n, x) \in Active(e) /\ SnapshotRecord(n, x) \in Cited({n}, e)
           /\ \A r \in e : r # SnapshotRecord(n, x) =>
                 r.strength # "authoritative" /\ r.disposition # "effect_present"
<1>1. e = {SnapshotRecord(i, l[i]) : i \in 1..n}
  BY DEF Read, Shadowing!ItemsAsEvidence, SnapshotRecord
<1>2. \A i \in 1..n : l[i].supersedes = 0
  BY DEF Read, Exchanged
<1>3. \A r \in e : r.supersedes = 0
  BY <1>1, <1>2 DEF SnapshotRecord
<1>4. SnapshotRecord(n, x) \in e /\ SnapshotRecord(n, x).ref = n /\ n # 0
  BY <1>1 DEF SnapshotRecord, Read
<1>5. \A r \in e : r # SnapshotRecord(n, x) => \E i \in 1..n : i # n /\ r = SnapshotRecord(i, l[i])
  BY <1>1 DEF Read
<1>6. QED
  BY <1>3, <1>4, <1>5 DEF Active, Superseded, Cited, Read, Exchanged, SnapshotRecord

Escalated == Shadowing!Decision("escalate", "forbidden", "blocked", "escalate", FALSE)
Permitted == Shadowing!Decision("do_not_retry", "forbidden", "allowed", "none", FALSE)
Retried   == Shadowing!Decision("retry", "allowed", "blocked", "none", FALSE)
Held      == Shadowing!Decision("hold", "forbidden", "blocked", "none", FALSE)

LEMMA Decisive ==
    /\ Escalated \in ControlDecision /\ Permitted \in ControlDecision
    /\ Retried \in ControlDecision /\ Held \in ControlDecision
BY DEF Escalated, Permitted, Retried, Held, Shadowing!Decision, ControlDecision, Primaries, Retries,
       Continuations, Recoveries

LEMMA SpecsAre ==
    ASSUME NEW eff \in Effects4
    PROVE  /\ Shadowing!SpecOf(eff) \in EffectSpec
           /\ Shadowing!SpecOf(eff).compensation = FALSE
           /\ Shadowing!SpecOf(eff).goal_sufficient = TRUE
           /\ eff \in {"okta", "github"} => Shadowing!SpecOf(eff).retry_safe = TRUE
           /\ eff \in {"okta", "github"} => Shadowing!SpecOf(eff).idempotent = FALSE
BY DEF Shadowing!SpecOf, Shadowing!OktaSpec, Shadowing!StripeSpec, EffectSpec, Effects4

Status(transport) == IF transport = "definitely_not_sent" THEN transport ELSE "attempted"

LEMMA UnprovableOutcome ==
    ASSUME NEW eff \in Effects4, NEW l, NEW transport, NEW attempts,
           Shadowing!Assess(eff, l).state = "unprovable",
           NEW o, o = Shadowing!Outcome(eff, l, transport, attempts)
    PROVE  o.state = "unprovable" /\ o.decision = Escalated
<1>1. PICK a : a = Shadowing!Assess(eff, l)
  OBVIOUS
<1>2. PICK e : e = Shadowing!ItemsAsEvidence(l)
  OBVIOUS
<1>3. PICK spec : spec = Shadowing!SpecOf(eff)
  OBVIOUS
<1>4. PICK d \in ControlDecision : d = Escalated
  BY Decisive
<1>5. d = Shadowing!Decide(eff, a)
  BY <1>1, <1>4 DEF Shadowing!Decide, Shadowing!OktaDecide, Shadowing!StripeDecide, Escalated
<1>6. /\ d.primary = "escalate" /\ d.retry = "forbidden" /\ d.continuation = "blocked"
      /\ d.recovery = "escalate" /\ d.recheck = FALSE
  BY <1>4 DEF Escalated, Shadowing!Decision
<1>7. EpistemicFloor("unprovable", a.refs, e) = "unprovable"
  BY DEF EpistemicFloor
<1>8. Settled("unprovable", d, spec, e)
  BY <1>6 DEF Settled, Fits
<1>9. "unprovable" \in EffectStates
  BY DEF EffectStates
<1>10. /\ o.state = "unprovable"
       /\ o.decision = ApplyDispatchBoundaryFloor(d, Status(transport), spec.idempotent, attempts)
  BY <1>1, <1>2, <1>3, <1>5, <1>7, <1>8, <1>9, OutcomeKept DEF Status
<1>11. QED
  BY <1>4, <1>6, <1>10 DEF ApplyDispatchBoundaryFloor

(* A snapshot of the goal, read in full.                                   *)
LEMMA MatchedEvidence ==
    ASSUME NEW l, NEW n, NEW x, Read(l, n, x), NEW e, e = Shadowing!ItemsAsEvidence(l),
           x.facets.strength = "authoritative", x.facets.disposition = "effect_present"
    PROVE  /\ EpistemicFloor("satisfied_unattributed", {n}, e) = "satisfied_unattributed"
           /\ x.facets.attribution = "attributed" /\ x.facets.kind = "provider_read" =>
                 EpistemicFloor("verified", {n}, e) = "verified"
<1>1. PICK r : r = SnapshotRecord(n, x)
  OBVIOUS
<1>2. /\ r.strength = "authoritative" /\ r.disposition = "effect_present"
      /\ r.attribution = x.facets.attribution /\ r.kind = x.facets.kind
  BY <1>1 DEF SnapshotRecord
<1>3. /\ r \in Active(e) /\ r \in Cited({n}, e)
      /\ \A q \in Active(e) : q # r => q.strength # "authoritative" /\ q.disposition # "effect_present"
  BY <1>1, ReadEvidence DEF Active
<1>4. ~Contradictory(e)
  BY <1>2, <1>3 DEF Contradictory, Authoritatively
<1>5. GoalStatePresence(Cited({n}, e))
  BY <1>2, <1>3 DEF GoalStatePresence, Substantive
<1>6. r.attribution = "attributed" /\ r.kind = "provider_read" => AttributedPresence(Cited({n}, e))
  BY <1>2, <1>3 DEF AttributedPresence, Authoritatively
<1>7. QED
  BY <1>2, <1>4, <1>5, <1>6 DEF EpistemicFloor

LEMMA MissedEvidence ==
    ASSUME NEW l, NEW n, NEW x, Read(l, n, x), NEW e, e = Shadowing!ItemsAsEvidence(l),
           x.facets.strength = "authoritative", x.facets.disposition = "effect_absent",
           x.facets.kind \in {"absence_probe", "provider_read"}
    PROVE  /\ EpistemicFloor("not_applied", {n}, e) = "not_applied"
           /\ \E r \in Active(e) : r.strength # "transport_only"
<1>1. PICK r : r = SnapshotRecord(n, x)
  OBVIOUS
<1>2. /\ r.strength = "authoritative" /\ r.disposition = "effect_absent"
      /\ r.kind = x.facets.kind
  BY <1>1 DEF SnapshotRecord
<1>3. /\ r \in Active(e) /\ r \in Cited({n}, e)
      /\ \A q \in Active(e) : q # r => q.strength # "authoritative"
  BY <1>1, ReadEvidence DEF Active
<1>4. AbsenceProof(Cited({n}, e)) /\ ~\E q \in Active(e) : Authoritatively(q, "effect_present")
  BY <1>2, <1>3 DEF AbsenceProof, Authoritatively
<1>5. QED
  BY <1>2, <1>3, <1>4 DEF EpistemicFloor

(* A snapshot that shows the goal, and one that shows it absent.           *)
Matched(x) ==
    /\ x.says.supported /\ x.says.goal
    /\ x.facets.strength = "authoritative" /\ x.facets.disposition = "effect_present"

Missed(x) ==
    /\ x.says.supported /\ ~x.says.goal /\ x.says.elapsed
    /\ x.facets.strength = "authoritative" /\ x.facets.disposition = "effect_absent"
    /\ x.facets.kind \in {"absence_probe", "provider_read"}

(* Okta and GitHub: the last snapshot decides.                             *)
LEMMA MatchedOutcome ==
    ASSUME NEW eff \in {"okta", "github"}, NEW l, NEW n, NEW x, Read(l, n, x),
           NEW transport, NEW attempts, Matched(x),
           NEW o, o = Shadowing!Outcome(eff, l, transport, attempts)
    PROVE  o.state = "satisfied_unattributed" /\ o.decision = Permitted
<1>1. PICK a : a = Shadowing!Assess(eff, l)
  OBVIOUS
<1>2. PICK e : e = Shadowing!ItemsAsEvidence(l)
  OBVIOUS
<1>3. PICK spec : spec = Shadowing!SpecOf(eff)
  OBVIOUS
<1>4. PICK d \in ControlDecision : d = Permitted
  BY Decisive
<1>5. a.state = "satisfied_unattributed" /\ a.refs = {n}
  BY <1>1, ReadIsLast DEF Shadowing!Assess, Shadowing!OktaAssess, Shadowing!Assessment, Read,
     Matched, Missed
<1>6. d = Shadowing!Decide(eff, a)
  BY <1>4, <1>5 DEF Shadowing!Decide, Shadowing!OktaDecide, Permitted
<1>7. /\ d.primary = "do_not_retry" /\ d.retry = "forbidden" /\ d.continuation = "allowed"
      /\ d.recovery = "none" /\ d.recheck = FALSE
  BY <1>4 DEF Permitted, Shadowing!Decision
<1>8. EpistemicFloor("satisfied_unattributed", a.refs, e) = "satisfied_unattributed"
  BY <1>2, <1>5, MatchedEvidence DEF Matched
<1>9. Settled("satisfied_unattributed", d, spec, e)
  BY <1>3, <1>7, SpecsAre DEF Settled, Fits, Effects4
<1>10. "satisfied_unattributed" \in EffectStates
  BY DEF EffectStates
<1>11. /\ o.state = "satisfied_unattributed"
       /\ o.decision = ApplyDispatchBoundaryFloor(d, Status(transport), spec.idempotent, attempts)
  BY <1>1, <1>2, <1>3, <1>5, <1>6, <1>8, <1>9, <1>10, OutcomeKept DEF Status
<1>12. QED
  BY <1>4, <1>7, <1>11 DEF ApplyDispatchBoundaryFloor

RetryIfInBudget(transport) == ApplyDispatchBoundaryFloor(Retried, Status(transport), FALSE, 0)

LEMMA MissedOutcome ==
    ASSUME NEW eff \in {"okta", "github"}, NEW l, NEW n, NEW x, Read(l, n, x),
           NEW transport, NEW attempts \in 0..1,
           Missed(x), NEW o, o = Shadowing!Outcome(eff, l, transport, attempts)
    PROVE  /\ o.state = "not_applied"
           /\ o.decision = RetryIfInBudget(transport)
<1>1. PICK a : a = Shadowing!Assess(eff, l)
  OBVIOUS
<1>2. PICK e : e = Shadowing!ItemsAsEvidence(l)
  OBVIOUS
<1>3. PICK spec : spec = Shadowing!SpecOf(eff)
  OBVIOUS
<1>4. PICK d \in ControlDecision : d = Retried
  BY Decisive
<1>5. a.state = "not_applied" /\ a.refs = {n}
  BY <1>1, ReadIsLast DEF Shadowing!Assess, Shadowing!OktaAssess, Shadowing!Assessment, Read,
     Matched, Missed
<1>6. d = Shadowing!Decide(eff, a)
  BY <1>4, <1>5 DEF Shadowing!Decide, Shadowing!OktaDecide, Retried
<1>7. /\ d.primary = "retry" /\ d.retry = "allowed" /\ d.continuation = "blocked"
      /\ d.recovery = "none" /\ d.recheck = FALSE
  BY <1>4 DEF Retried, Shadowing!Decision
<1>8. /\ EpistemicFloor("not_applied", a.refs, e) = "not_applied"
      /\ \E r \in Active(e) : r.strength # "transport_only"
  BY <1>2, <1>5, MissedEvidence DEF Missed
<1>9. Settled("not_applied", d, spec, e)
  BY <1>3, <1>7, <1>8, SpecsAre DEF Settled, Fits, Effects4
<1>10. "not_applied" \in EffectStates
  BY DEF EffectStates
<1>11. /\ o.state = "not_applied"
       /\ o.decision = ApplyDispatchBoundaryFloor(d, Status(transport), spec.idempotent, attempts)
  BY <1>1, <1>2, <1>3, <1>5, <1>6, <1>8, <1>9, <1>10, OutcomeKept DEF Status
<1>12. spec.idempotent = FALSE
  BY <1>3, SpecsAre DEF Effects4
<1>13. QED
  BY <1>4, <1>11, <1>12 DEF RetryIfInBudget, ApplyDispatchBoundaryFloor, AttemptBudget

LEMMA UnsupportedOutcome ==
    ASSUME NEW eff \in {"okta", "github"}, NEW l, NEW n, NEW x, Read(l, n, x),
           NEW transport, NEW attempts, ~x.says.supported,
           NEW o, o = Shadowing!Outcome(eff, l, transport, attempts)
    PROVE  o.state = "unprovable" /\ o.decision = Escalated
<1>1. Shadowing!Assess(eff, l).state = "unprovable"
  BY ReadIsLast DEF Shadowing!Assess, Shadowing!OktaAssess, Shadowing!Assessment, Read
<1>2. QED
  BY <1>1, UnprovableOutcome DEF Effects4

LEMMA UnreadOutcome ==
    ASSUME NEW eff \in Effects4, NEW l, Unread(l), NEW transport, NEW attempts,
           NEW o, o = Shadowing!Outcome(eff, l, transport, attempts)
    PROVE  o.state = "unprovable" /\ o.decision = Escalated
<1>1. Shadowing!Assess(eff, l) = Shadowing!ObscuredAssessment(l)
  BY UnreadObscured DEF Shadowing!Assess, Shadowing!OktaAssess, Shadowing!StripeAssess
<1>2. QED
  BY <1>1, UnreadObscured, UnprovableOutcome

(* Stripe: a payment read as it was asked for is continued from, and       *)
(* nothing else is.                                                        *)
LEMMA PaidOutcome ==
    ASSUME NEW eff \in {"refund", "capture"}, NEW l, NEW n, NEW x, Read(l, n, x),
           NEW transport, NEW attempts, x.says.found.goal,
           x.facets.strength = "authoritative", x.facets.disposition = "effect_present",
           x.facets.kind = "provider_read",
           x.says.found.mine => x.facets.attribution = "attributed",
           NEW o, o = Shadowing!Outcome(eff, l, transport, attempts)
    PROVE  o.decision = Permitted
<1>1. PICK a : a = Shadowing!Assess(eff, l)
  OBVIOUS
<1>2. PICK e : e = Shadowing!ItemsAsEvidence(l)
  OBVIOUS
<1>3. PICK spec : spec = Shadowing!SpecOf(eff)
  OBVIOUS
<1>4. PICK d \in ControlDecision : d = Permitted
  BY Decisive
<1>5. PICK state \in {"verified", "satisfied_unattributed"} :
         state = IF x.says.found.mine THEN "verified" ELSE "satisfied_unattributed"
  OBVIOUS
<1>6. a.state = state /\ a.refs = {n}
  <2>1. PICK f : f = x.says.found
    OBVIOUS
  <2>2. a = Shadowing!StripeAssess(l)
    BY <1>1 DEF Shadowing!Assess
  <2>3. l[n] = x /\ l[n].says.found = f /\ f.goal
    BY <2>1 DEF Read
  <2>4. PICK last : last = Shadowing!LastSnapshot(l)
    OBVIOUS
  <2>5. last = n /\ ~Shadowing!Obscured(l)
    BY <2>4, ReadIsLast
  <2>6. a = Shadowing!Assessment(IF f.mine THEN "verified" ELSE "satisfied_unattributed", {n}, FALSE)
    BY <2>2, <2>3, <2>4, <2>5 DEF Shadowing!StripeAssess
  <2>7. QED
    BY <1>5, <2>1, <2>6 DEF Shadowing!Assessment
<1>7. d = Shadowing!Decide(eff, a)
  BY <1>4, <1>6 DEF Shadowing!Decide, Shadowing!StripeDecide, Permitted
<1>8. /\ d.primary = "do_not_retry" /\ d.retry = "forbidden" /\ d.continuation = "allowed"
      /\ d.recovery = "none" /\ d.recheck = FALSE
  BY <1>4 DEF Permitted, Shadowing!Decision
<1>9. EpistemicFloor(state, a.refs, e) = state
  BY <1>2, <1>5, <1>6, MatchedEvidence
<1>10. Settled(state, d, spec, e)
  BY <1>3, <1>5, <1>8, SpecsAre DEF Settled, Fits, Effects4
<1>11. state \in EffectStates
  BY DEF EffectStates
<1>12. o.decision = ApplyDispatchBoundaryFloor(d, Status(transport), spec.idempotent, attempts)
  BY <1>1, <1>2, <1>3, <1>6, <1>7, <1>9, <1>10, <1>11, OutcomeKept DEF Status
<1>13. QED
  BY <1>4, <1>8, <1>12 DEF ApplyDispatchBoundaryFloor

LEMMA UnpaidOutcome ==
    ASSUME NEW eff \in {"refund", "capture"}, NEW l, NEW n, NEW x, Read(l, n, x),
           NEW transport, NEW attempts, ~x.says.found.goal,
           NEW o, o = Shadowing!Outcome(eff, l, transport, attempts)
    PROVE  o.decision.retry # "allowed" /\ o.decision.continuation # "allowed"
<1>1. PICK a : a = Shadowing!Assess(eff, l)
  OBVIOUS
<1>2. a.state \in {"unprovable", "pending", "not_applied"} /\ a.recheck = FALSE
  BY <1>1, ReadIsLast DEF Shadowing!Assess, Shadowing!StripeAssess, Shadowing!Assessment, Read
<1>3. PICK d : d = Shadowing!Decide(eff, a)
  OBVIOUS
<1>4. \/ d = Escalated
      \/ d = Held
  BY <1>2, <1>3 DEF Shadowing!Decide, Shadowing!StripeDecide, Escalated, Held
<1>5. /\ d \in ControlDecision /\ d.retry = "forbidden" /\ d.continuation = "blocked"
  <2>1. d \in ControlDecision
    BY <1>4, Decisive
  <2>2. d.retry = "forbidden" /\ d.continuation = "blocked"
    BY <1>4 DEF Escalated, Held, Shadowing!Decision
  <2>3. QED
    BY <2>1, <2>2
<1>6. Shadowing!SpecOf(eff) \in EffectSpec /\ a.state \in EffectStates
  BY <1>2, SpecsAre DEF Effects4, EffectStates
<1>7. Tightens(o.decision, d)
  BY <1>1, <1>3, <1>5, <1>6, OutcomeTightens
<1>8. QED
  BY <1>5, <1>7 DEF Tightens

-----------------------------------------------------------------------------
(* The two ledgers of one report.                                          *)
LEMMA Exchanges ==
    /\ \A t \in Shadowing!Transports : Exchanged(Shadowing!ObservedTransport(t))
    /\ Exchanged(Shadowing!ResponseItem) /\ Exchanged(Shadowing!TransportItem)
    /\ Exchanged(Shadowing!NotSentItem)
<1>1. /\ Exchanged(Shadowing!ResponseItem) /\ Exchanged(Shadowing!TransportItem)
      /\ Exchanged(Shadowing!NotSentItem)
  BY DEF Exchanged, Shadowing!ResponseItem, Shadowing!TransportItem, Shadowing!NotSentItem,
         Shadowing!Item, Shadowing!Answered, Shadowing!Unsettled, Shadowing!Facets
<1>2. Exchanged(Shadowing!Item("transport", Shadowing!Mute,
         Shadowing!Facets("transport_error", "corroborative", "effect_absent", "attributed"), {}))
  BY DEF Exchanged, Shadowing!Item, Shadowing!Facets
<1>3. QED
  BY <1>1, <1>2 DEF Shadowing!ObservedTransport, Shadowing!Transports

(* What the exchange left, and the snapshot that may follow it.            *)
LEMMA Ledgers ==
    ASSUME NEW b, Exchanged(b), NEW h, h \in {<<b>>, <<b, Shadowing!NotSentItem>>}
    PROVE  /\ \A l : l = h \o <<>> => Unread(l)
           /\ \A x, l : /\ x.type = "snapshot" /\ x.supersedes = 0
                        /\ x.facets.strength # "transport_only" /\ l = h \o <<x>>
                        => \E n : Read(l, n, x)
<1>1. PICK c : c = Shadowing!NotSentItem
  OBVIOUS
<1>2. Exchanged(c)
  BY <1>1, Exchanges
<1>3. ASSUME NEW l, l = h \o <<>> PROVE Unread(l)
  <2>1. CASE h = <<b>>
    <3>1. l = <<b>> \o <<>>
      BY <1>3, <2>1
    <3>2. DOMAIN l = 1..1 /\ l[1] = b
      BY <3>1
    <3>3. QED
      BY <3>2 DEF Unread
  <2>2. CASE h = <<b, c>>
    <3>1. l = <<b, c>> \o <<>>
      BY <1>3, <2>2
    <3>2. DOMAIN l = 1..2 /\ l[1] = b /\ l[2] = c
      BY <3>1
    <3>3. QED
      BY <1>2, <3>2 DEF Unread
  <2>3. QED
    BY <1>1, <2>1, <2>2
<1>4. ASSUME NEW x, NEW l, x.type = "snapshot", x.supersedes = 0,
             x.facets.strength # "transport_only", l = h \o <<x>>
      PROVE  \E n : Read(l, n, x)
  <2>1. CASE h = <<b>>
    <3>1. l = <<b>> \o <<x>>
      BY <1>4, <2>1
    <3>2. DOMAIN l = 1..2 /\ l[1] = b /\ l[2] = x
      BY <3>1
    <3>3. Read(l, 2, x)
      BY <1>4, <3>2 DEF Read
    <3>4. QED
      BY <3>3
  <2>2. CASE h = <<b, c>>
    <3>1. l = <<b, c>> \o <<x>>
      BY <1>4, <2>2
    <3>2. DOMAIN l = 1..3 /\ l[1] = b /\ l[2] = c /\ l[3] = x
      BY <3>1
    <3>3. Read(l, 3, x)
      BY <1>2, <1>4, <3>2 DEF Read
    <3>4. QED
      BY <3>3
  <2>3. QED
    BY <1>1, <2>1, <2>2
<1>5. QED
  BY <1>3, <1>4

-----------------------------------------------------------------------------
(* What the caller reports of a case and what the adapter reads of it are  *)
(* snapshots of one kind, role by role and status by status.               *)
Snapshot(x) == x.type = "snapshot" /\ x.supersedes = 0 /\ x.facets.strength # "transport_only"

Alike(s, a) == \/ ~s.says.supported /\ ~a.says.supported
               \/ Matched(s) /\ Matched(a)
               \/ Missed(s) /\ Missed(a)

(* The fields of an item.                                                  *)
LEMMA Items ==
    ASSUME NEW says, NEW facets, NEW held, NEW x, x = Shadowing!Item("snapshot", says, facets, held)
    PROVE  x.type = "snapshot" /\ x.supersedes = 0 /\ x.says = says /\ x.facets = facets
BY DEF Shadowing!Item

LEMMA FacetsAre ==
    ASSUME NEW kind, NEW strength, NEW disposition, NEW attribution,
           NEW f, f = Shadowing!Facets(kind, strength, disposition, attribution)
    PROVE  /\ f.kind = kind /\ f.strength = strength /\ f.disposition = disposition
           /\ f.attribution = attribution
BY DEF Shadowing!Facets

LEMMA OktaAlike ==
    ASSUME NEW k \in Shadowing!OktaCases,
           NEW s, s = Shadowing!ObservedSnapshot(k), NEW a, a = Shadowing!AdapterSnapshot(k)
    PROVE  Snapshot(s) /\ Snapshot(a) /\ Alike(s, a)
<1>1. k.effect = "okta" /\ k.desired \in Shadowing!Supported
  BY DEF Shadowing!OktaCases
<1>2. PICK g \in BOOLEAN, p \in BOOLEAN : /\ g = (k.status = k.desired)
                                          /\ p = (k.status \in Shadowing!Supported)
  <2>1. (k.status = k.desired) \in BOOLEAN
    OBVIOUS
  <2>2. (k.status \in Shadowing!Supported) \in BOOLEAN
    OBVIOUS
  <2>3. QED
    BY <2>1, <2>2, Zenon
<1>3. g => p
  BY <1>1, <1>2
<1>4. /\ Shadowing!ObservedGoal(k) = g
      /\ ~Shadowing!ObservedMine(k)
  BY <1>1, <1>2 DEF Shadowing!ObservedGoal, Shadowing!ObservedMine
<1>5. PICK f : f = Shadowing!Facets("provider_read", "authoritative",
                     IF g THEN "effect_present" ELSE "effect_absent", "unattributed")
  OBVIOUS
<1>6. PICK says : says = [goal |-> g, supported |-> p, elapsed |-> TRUE]
  OBVIOUS
<1>7. s = Shadowing!Item("snapshot", says, f, {})
  BY <1>1, <1>2, <1>4, <1>5, <1>6 DEF Shadowing!ObservedSnapshot, Shadowing!ObservedFacets
<1>8. /\ Snapshot(s)
      /\ ~p => ~s.says.supported
      /\ g => Matched(s)
      /\ p /\ ~g => Missed(s)
  BY <1>3, <1>5, <1>6, <1>7, Items, FacetsAre DEF Snapshot, Matched, Missed
<1>9. PICK h : h = Shadowing!Facets(IF ~g /\ p THEN "absence_probe" ELSE "provider_read",
                     IF g \/ (~g /\ p) THEN "authoritative" ELSE "circumstantial",
                     IF g THEN "effect_present" ELSE IF p THEN "effect_absent" ELSE "indeterminate",
                     IF g THEN "unattributed" ELSE "indeterminate")
  OBVIOUS
<1>10. PICK user : user = [status |-> k.status, moving |-> FALSE, changed |-> 0]
  OBVIOUS
<1>11. PICK found : found = [user |-> user, goal |-> g, supported |-> p, elapsed |-> TRUE]
  OBVIOUS
<1>12. a = Shadowing!OktaSnapshot(user, k.desired, TRUE, {})
  BY <1>1, <1>10 DEF Shadowing!AdapterSnapshot
<1>13. /\ Shadowing!OktaGoal(user, k.desired) = g
       /\ (user.status \in Shadowing!Supported /\ ~user.moving) = p
  BY <1>2, <1>10 DEF Shadowing!OktaGoal
<1>14. a = Shadowing!Item("snapshot", found, h, {})
  BY <1>9, <1>11, <1>12, <1>13 DEF Shadowing!OktaSnapshot
<1>15. /\ Snapshot(a)
       /\ ~p => ~a.says.supported
       /\ g => Matched(a)
       /\ p /\ ~g => Missed(a)
  BY <1>3, <1>9, <1>11, <1>14, Items, FacetsAre DEF Snapshot, Matched, Missed
<1>16. QED
  BY <1>8, <1>15 DEF Alike

(* The adapter's goal: the effective role, and a direct one if any.        *)
AdapterGoal(k) == /\ Shadowing!Effective(k) = k.desired
                  /\ IF k.desired = 0 THEN k.direct = 0 ELSE k.direct # 0

LEMMA GitHubSnapshots ==
    ASSUME NEW k, k.effect = "github",
           NEW s, s = Shadowing!ObservedSnapshot(k), NEW a, a = Shadowing!AdapterSnapshot(k)
    PROVE  /\ Snapshot(s) /\ Snapshot(a)
           /\ IF Shadowing!EffectiveGoal(k) THEN Matched(s) ELSE Missed(s)
           /\ IF AdapterGoal(k) THEN Matched(a) ELSE Missed(a)
<1>1. PICK g \in BOOLEAN, b \in BOOLEAN : g = Shadowing!EffectiveGoal(k) /\ b = AdapterGoal(k)
  <2>1. Shadowing!EffectiveGoal(k) \in BOOLEAN
    BY DEF Shadowing!EffectiveGoal
  <2>2. AdapterGoal(k) \in BOOLEAN
    BY DEF AdapterGoal
  <2>3. QED
    BY <2>1, <2>2
<1>2. Shadowing!ObservedGoal(k) = g /\ ~Shadowing!ObservedMine(k)
  BY <1>1 DEF Shadowing!ObservedGoal, Shadowing!ObservedMine
<1>3. PICK f : f = Shadowing!Facets("provider_read", "authoritative",
                     IF g THEN "effect_present" ELSE "effect_absent", "unattributed")
  OBVIOUS
<1>4. PICK h : h = Shadowing!Facets(IF b THEN "provider_read" ELSE "absence_probe", "authoritative",
                     IF b THEN "effect_present" ELSE "effect_absent",
                     IF b THEN "unattributed" ELSE "indeterminate")
  OBVIOUS
<1>5. PICK says : says = [goal |-> g, supported |-> TRUE, elapsed |-> TRUE]
  OBVIOUS
<1>6. PICK tells : tells = [goal |-> b, supported |-> TRUE, elapsed |-> TRUE]
  OBVIOUS
<1>7. s = Shadowing!Item("snapshot", says, f, {})
  BY <1>2, <1>3, <1>5 DEF Shadowing!ObservedSnapshot, Shadowing!ObservedFacets,
     Shadowing!GitHubRead
<1>8. a = Shadowing!GitHubSnapshotOf(b)
  BY <1>1 DEF Shadowing!AdapterSnapshot, AdapterGoal
<1>9. a = Shadowing!Item("snapshot", tells, h, {})
  BY <1>4, <1>6, <1>8 DEF Shadowing!GitHubSnapshotOf, Shadowing!GitHubRead
<1>10. Snapshot(s) /\ (g => Matched(s)) /\ (~g => Missed(s))
  BY <1>3, <1>5, <1>7, Items, FacetsAre DEF Snapshot, Matched, Missed
<1>11. Snapshot(a) /\ (b => Matched(a)) /\ (~b => Missed(a))
  BY <1>4, <1>6, <1>9, Items, FacetsAre DEF Snapshot, Matched, Missed
<1>12. QED
  BY <1>1, <1>10, <1>11

LEMMA GitHubAlike ==
    ASSUME NEW k \in Shadowing!GitHubCases, ~Shadowing!HeldByInheritance(k),
           NEW s, s = Shadowing!ObservedSnapshot(k), NEW a, a = Shadowing!AdapterSnapshot(k)
    PROVE  Snapshot(s) /\ Snapshot(a) /\ Alike(s, a)
<1>1. k.effect = "github" /\ k.direct \in Nat /\ k.through \in Nat /\ k.desired \in Nat
  BY AdapterBounds DEF Shadowing!GitHubCases
<1>2. PICK e \in Nat : e = Shadowing!Effective(k)
  BY <1>1 DEF Shadowing!Effective
<1>3. e >= k.direct /\ e >= k.through
  BY <1>1, <1>2 DEF Shadowing!Effective
<1>4. Shadowing!EffectiveGoal(k) <=> e = k.desired /\ ~(k.through # 0 /\ k.desired = 0)
  BY <1>2 DEF Shadowing!EffectiveGoal
<1>5. e = k.desired /\ k.desired # 0 => k.direct # 0
  BY <1>1, <1>2 DEF Shadowing!HeldByInheritance, Shadowing!Effective
<1>6. Shadowing!EffectiveGoal(k) <=> AdapterGoal(k)
  BY <1>1, <1>2, <1>3, <1>4, <1>5 DEF AdapterGoal
<1>7. QED
  BY <1>1, <1>6, GitHubSnapshots DEF Alike

PaidFor(x) ==
    /\ x.says.found.goal
    /\ x.facets.strength = "authoritative" /\ x.facets.disposition = "effect_present"
    /\ x.facets.kind = "provider_read"
    /\ x.says.found.mine => x.facets.attribution = "attributed"

LEMMA StripeAlike ==
    ASSUME NEW k \in Shadowing!StripeCases,
           NEW s, s = Shadowing!ObservedSnapshot(k), NEW a, a = Shadowing!AdapterSnapshot(k)
    PROVE  /\ Snapshot(s) /\ Snapshot(a)
           /\ \/ PaidFor(s) /\ PaidFor(a)
              \/ ~s.says.found.goal /\ ~a.says.found.goal
<1>1. k.effect \in {"refund", "capture"}
  BY DEF Shadowing!StripeCases
<1>2. PICK e : e = Shadowing!StripeEvaluated(k.effect, Shadowing!View(k))
  OBVIOUS
<1>3. e.goal \in BOOLEAN /\ e.mine \in BOOLEAN /\ e.failed \in BOOLEAN
  BY <1>2 DEF Shadowing!StripeEvaluated, Shadowing!RefundEvaluated, Shadowing!CaptureEvaluated,
     Shadowing!Evaluation
<1>4. PICK g \in BOOLEAN, m \in BOOLEAN : g = e.goal /\ m = e.mine
  BY <1>3
<1>5. Shadowing!ObservedGoal(k) = g /\ Shadowing!ObservedMine(k) = m
  BY <1>1, <1>2, <1>4 DEF Shadowing!ObservedGoal, Shadowing!ObservedMine
<1>6. PICK f : f = Shadowing!Facets("provider_read", "authoritative",
                     IF g THEN "effect_present" ELSE "effect_absent",
                     IF m THEN "attributed" ELSE "unattributed")
  OBVIOUS
<1>7. PICK v : v = Shadowing!Evaluation(g, k.payment.status \in {"processing", "requires_action"},
                     k.payment.status = "canceled", FALSE, m)
  OBVIOUS
<1>8. s = Shadowing!Item("snapshot", [found |-> v, elapsed |-> TRUE], f, {})
  BY <1>1, <1>5, <1>6, <1>7 DEF Shadowing!ObservedSnapshot, Shadowing!ObservedFacets
<1>9. Snapshot(s) /\ s.says.found = v /\ s.facets = f
  BY <1>6, <1>8, Items, FacetsAre DEF Snapshot
<1>10. v.goal = g /\ v.mine = m
  BY <1>7 DEF Shadowing!Evaluation
<1>11. (g => PaidFor(s)) /\ (~g => ~s.says.found.goal)
  BY <1>6, <1>9, <1>10, FacetsAre DEF PaidFor
<1>12. PICK status : status = Shadowing!ObservedStatus(k.effect, Shadowing!View(k))
  OBVIOUS
<1>13. PICK h : h = Shadowing!Facets(IF ~g THEN "absence_probe" ELSE "provider_read",
                     "authoritative", IF g THEN "effect_present" ELSE "effect_absent",
                     IF ~g THEN "indeterminate" ELSE IF m THEN "attributed" ELSE "unattributed")
  OBVIOUS
<1>14. a = Shadowing!StripeSnapshot(k.effect, Shadowing!View(k), TRUE, {})
  BY <1>1 DEF Shadowing!AdapterSnapshot
<1>15. a = Shadowing!Item("snapshot", [found |-> e, elapsed |-> TRUE, status |-> status], h, {})
  <2>1. CASE g
    BY <1>2, <1>4, <1>12, <1>13, <1>14, <2>1 DEF Shadowing!StripeSnapshot
  <2>2. CASE ~g
    BY <1>2, <1>4, <1>12, <1>13, <1>14, <2>2 DEF Shadowing!StripeSnapshot
  <2>3. QED
    BY <2>1, <2>2
<1>16. Snapshot(a) /\ a.says.found = e /\ a.facets = h
  BY <1>13, <1>15, Items, FacetsAre DEF Snapshot
<1>17. (g => PaidFor(a)) /\ (~g => ~a.says.found.goal)
  BY <1>4, <1>13, <1>16, FacetsAre DEF PaidFor
<1>18. QED
  BY <1>9, <1>11, <1>16, <1>17

(* What is read ends both ledgers of a report; where nothing was read none *)
(* has a snapshot.                                                         *)
LEMMA LedgersOf ==
    ASSUME NEW r, r.transport \in Shadowing!Transports,
           NEW l, l = Shadowing!NormalizeObservation(r), NEW m, m = Shadowing!ControlledLedger(r),
           NEW s, s = Shadowing!ObservedSnapshot(r.case), NEW a, a = Shadowing!AdapterSnapshot(r.case),
           Snapshot(s), Snapshot(a)
    PROVE  /\ ~r.read => Unread(l) /\ Unread(m)
           /\ r.read => (\E n : Read(l, n, s)) /\ \E n : Read(m, n, a)
<1>1. PICK b : b = Shadowing!ObservedTransport(r.transport)
  OBVIOUS
<1>2. Exchanged(b)
  BY <1>1, Exchanges
<1>3. PICK h : h = <<b>>
  OBVIOUS
<1>4. l = h \o (IF r.read THEN <<s>> ELSE <<>>)
  BY <1>1, <1>3 DEF Shadowing!NormalizeObservation
<1>5. PICK d, t : /\ Exchanged(d)
                  /\ t \in {<<d>>, <<d, Shadowing!NotSentItem>>}
                  /\ m = t \o (IF r.read THEN <<a>> ELSE <<>>)
  <2>1. CASE r.transport = "success"
    BY <2>1, Exchanges DEF Shadowing!ControlledLedger
  <2>2. CASE r.transport = "ambiguous"
    BY <2>2, Exchanges DEF Shadowing!ControlledLedger
  <2>3. CASE r.transport = "definitely_not_sent"
    BY <2>3, Exchanges DEF Shadowing!ControlledLedger
  <2>4. QED
    BY <2>1, <2>2, <2>3 DEF Shadowing!Transports
<1>6. ASSUME ~r.read PROVE Unread(l) /\ Unread(m)
  <2>1. l = h \o <<>> /\ m = t \o <<>>
    BY <1>4, <1>5, <1>6
  <2>2. QED
    BY <1>2, <1>3, <1>5, <2>1, Ledgers
<1>7. ASSUME r.read PROVE (\E n : Read(l, n, s)) /\ \E n : Read(m, n, a)
  <2>1. l = h \o <<s>> /\ m = t \o <<a>>
    BY <1>4, <1>5, <1>7
  <2>2. \E n : Read(l, n, s)
    BY <1>2, <1>3, <2>1, Ledgers DEF Snapshot
  <2>3. \E n : Read(m, n, a)
    BY <1>5, <2>1, Ledgers DEF Snapshot
  <2>4. QED
    BY <2>2, <2>3
<1>8. QED
  BY <1>6, <1>7

(* What is proposed of two ledgers that are alike is the same.             *)
LEMMA SameOutcome ==
    ASSUME NEW eff \in {"okta", "github"}, NEW s, NEW a, Alike(s, a),
           NEW l, NEW m, NEW i, NEW j, Read(l, i, s), Read(m, j, a), NEW transport,
           NEW attempts \in 0..1,
           NEW o, o = Shadowing!Outcome(eff, l, transport, attempts),
           NEW c, c = Shadowing!Outcome(eff, m, transport, 1)
    PROVE  o.state = c.state /\ o.decision = c.decision
<1>1. CASE ~s.says.supported /\ ~a.says.supported
  BY <1>1, UnsupportedOutcome
<1>2. CASE Matched(s) /\ Matched(a)
  BY <1>2, MatchedOutcome
<1>3. CASE Missed(s) /\ Missed(a)
  <2>1. /\ o.state = "not_applied"
        /\ o.decision = RetryIfInBudget(transport)
    BY <1>3, MissedOutcome
  <2>2. 1 \in 0..1
    OBVIOUS
  <2>3. /\ c.state = "not_applied"
        /\ c.decision = RetryIfInBudget(transport)
    BY <1>3, <2>2, MissedOutcome
  <2>4. QED
    BY <2>1, <2>3
<1>4. QED
  BY <1>1, <1>2, <1>3 DEF Alike

(* Two answers that are the same as far as anybody acts on them.           *)
Agree(eff, o, c) ==
    /\ o.decision.retry = "allowed" <=> c.decision.retry = "allowed"
    /\ o.decision.continuation = "allowed" <=> c.decision.continuation = "allowed"
    /\ eff \in {"okta", "github"} => o.state = c.state /\ o.decision = c.decision

LEMMA OutcomesAgree ==
    ASSUME NEW r \in Shadowing!Reports, ~Shadowing!HeldByInheritance(r.case),
           NEW attempts \in 0..1,
           NEW o, o = Shadowing!Outcome(r.case.effect, Shadowing!NormalizeObservation(r),
                                        r.transport, attempts),
           NEW c, c = Shadowing!Controlled(r)
    PROVE  Agree(r.case.effect, o, c)
<1>1. /\ r.transport \in Shadowing!Transports /\ r.read \in BOOLEAN
      /\ \/ r.case \in Shadowing!OktaCases \/ r.case \in Shadowing!GitHubCases
         \/ r.case \in Shadowing!StripeCases
  BY DEF Shadowing!Reports, Shadowing!Cases
<1>2. PICK k, eff, transport : k = r.case /\ eff = k.effect /\ transport = r.transport
  OBVIOUS
<1>3. PICK l, m : l = Shadowing!NormalizeObservation(r) /\ m = Shadowing!ControlledLedger(r)
  OBVIOUS
<1>4. /\ o = Shadowing!Outcome(eff, l, transport, attempts)
      /\ c = Shadowing!Outcome(eff, m, transport, 1)
  BY <1>2, <1>3 DEF Shadowing!Controlled
<1>5. PICK s, a : s = Shadowing!ObservedSnapshot(k) /\ a = Shadowing!AdapterSnapshot(k)
  OBVIOUS
<1>6. Snapshot(s) /\ Snapshot(a)
  BY <1>1, <1>2, <1>5, OktaAlike, GitHubAlike, StripeAlike
<1>7. eff \in Effects4
  BY <1>1, <1>2 DEF Shadowing!OktaCases, Shadowing!GitHubCases, Shadowing!StripeCases, Effects4
<1>8. /\ ~r.read => Unread(l) /\ Unread(m)
      /\ r.read => (\E n : Read(l, n, s)) /\ \E n : Read(m, n, a)
  BY <1>1, <1>2, <1>3, <1>5, <1>6, LedgersOf
<1>9. CASE ~r.read
  <2>1. o.state = c.state /\ o.decision = Escalated /\ c.decision = Escalated
    BY <1>4, <1>7, <1>8, <1>9, UnreadOutcome
  <2>2. QED
    BY <1>2, <2>1 DEF Agree
<1>10. CASE r.read
  <2>1. PICK i, j : Read(l, i, s) /\ Read(m, j, a)
    BY <1>8, <1>10
  <2>2. CASE eff \in {"okta", "github"}
    <3>1. Alike(s, a)
      BY <1>1, <1>2, <1>5, <2>2, OktaAlike, GitHubAlike DEF Shadowing!StripeCases
    <3>2. o.state = c.state /\ o.decision = c.decision
      BY <1>4, <2>1, <2>2, <3>1, SameOutcome
    <3>3. QED
      BY <1>2, <3>2 DEF Agree
  <2>3. CASE eff \in {"refund", "capture"}
    <3>1. k \in Shadowing!StripeCases
      BY <1>1, <1>2, <2>3 DEF Shadowing!OktaCases, Shadowing!GitHubCases
    <3>2. CASE PaidFor(s) /\ PaidFor(a)
      <4>1. o.decision = Permitted /\ c.decision = Permitted
        BY <1>4, <2>1, <2>3, <3>2, PaidOutcome DEF PaidFor
      <4>2. QED
        BY <1>2, <2>3, <4>1 DEF Agree
    <3>3. CASE ~s.says.found.goal /\ ~a.says.found.goal
      <4>1. /\ o.decision.retry # "allowed" /\ o.decision.continuation # "allowed"
            /\ c.decision.retry # "allowed" /\ c.decision.continuation # "allowed"
        BY <1>4, <2>1, <2>3, <3>3, UnpaidOutcome
      <4>2. QED
        BY <1>2, <2>3, <4>1 DEF Agree
    <3>4. QED
      BY <1>5, <3>1, <3>2, <3>3, StripeAlike
  <2>4. QED
    BY <1>7, <2>2, <2>3 DEF Effects4
<1>11. QED
  BY <1>9, <1>10

-----------------------------------------------------------------------------
(* A report is one of the reports, and an evaluation is the one of it.     *)
ShadowInv ==
    /\ report \in Shadowing!Reports
    /\ verdict = Shadowing!Unevaluated \/ verdict = Shadowing!DeriveShadowSemantics(report)

LEMMA ShadowInit == InitAll => ShadowInv
<1>1. Shadowing!SomeReport \in Shadowing!Reports
  BY DEF Shadowing!SomeReport, Shadowing!Reports, Shadowing!Cases, Shadowing!OktaCases,
         Shadowing!Supported, Shadowing!Transports
<1>2. QED
  BY <1>1 DEF InitAll, ShadowInv, Shadowing!Init

LEMMA ShadowStep == ShadowInv /\ [NextAll]_<<followed, vars, reading, shadow, sandbox>> => ShadowInv'
<1>1. ASSUME ShadowInv, Shadowing!Evaluate PROVE ShadowInv'
  BY <1>1 DEF ShadowInv, Shadowing!Evaluate
<1>2. ASSUME ShadowInv, UNCHANGED shadow PROVE ShadowInv'
  BY <1>2 DEF ShadowInv, shadow
<1>3. QED
  BY <1>1, <1>2 DEF NextAll, Shadowing!Next

LEMMA ShadowSays == ShadowInv => ShadowAgrees
<1>. SUFFICES ASSUME ShadowInv, verdict # Shadowing!Unevaluated,
                     ~Shadowing!HeldByInheritance(report.case),
                     NEW c, c = Shadowing!Controlled(report)
              PROVE  /\ verdict.retryBlocked = (report.retried /\ c.decision.retry # "allowed")
                     /\ verdict.continuationBlocked =
                           (report.continued /\ c.decision.continuation # "allowed")
                     /\ report.case.effect \in {"okta", "github"} =>
                           verdict.state = c.state /\ verdict.decision = c.decision
  BY DEF ShadowAgrees, Shadowing!ShadowAgrees
<1>1. PICK attempts \in 0..1 : attempts = IF report.retried THEN 1 ELSE 0
  OBVIOUS
<1>2. PICK o : o = Shadowing!Outcome(report.case.effect, Shadowing!NormalizeObservation(report),
                                     report.transport, attempts)
  OBVIOUS
<1>3. verdict = [state |-> o.state, decision |-> o.decision,
                 retryBlocked |-> report.retried /\ o.decision.retry # "allowed",
                 continuationBlocked |-> report.continued /\ o.decision.continuation # "allowed"]
  BY <1>1, <1>2 DEF ShadowInv, Shadowing!DeriveShadowSemantics
<1>4. Agree(report.case.effect, o, c)
  BY <1>1, <1>2, OutcomesAgree DEF ShadowInv
<1>5. QED
  BY <1>3, <1>4 DEF Agree

(* deriveShadowSemantics (evaluation over the caller's report) against the *)
(* adapters: whatever there is at the provider, and however many roles a   *)
(* repository has, what Shadow says would have been blocked is what the    *)
(* action under control would have been refused, save for a role that is   *)
(* held through a team only.                                               *)
THEOREM ShadowTheorem == SpecAll => []ShadowAgrees
<1>1. SpecAll => []ShadowInv
  BY ShadowInit, ShadowStep, PTL DEF SpecAll
<1>2. QED
  BY <1>1, ShadowSays, PTL

(* The case left out is the one in which the two do differ: what Shadow    *)
(* calls satisfied the action under control would have found not applied.  *)
InheritedIsSatisfied ==
    LET c == Shadowing!Controlled(report) IN
    verdict # Shadowing!Unevaluated /\ report.read /\ Shadowing!HeldByInheritance(report.case) =>
        /\ verdict.state = "satisfied_unattributed" /\ verdict.decision = Permitted
        /\ c.state = "not_applied"

LEMMA InheritedSays == ShadowInv => InheritedIsSatisfied
<1>. SUFFICES ASSUME ShadowInv, verdict # Shadowing!Unevaluated, report.read,
                     Shadowing!HeldByInheritance(report.case)
              PROVE  /\ verdict.state = "satisfied_unattributed" /\ verdict.decision = Permitted
                     /\ Shadowing!Controlled(report).state = "not_applied"
  BY DEF InheritedIsSatisfied
<1>1. PICK r, k : r = report /\ k = r.case
  OBVIOUS
<1>2. /\ r.transport \in Shadowing!Transports /\ k \in Shadowing!GitHubCases
      /\ k.effect = "github" /\ k.direct = 0 /\ k.desired # 0 /\ k.through = k.desired
  BY <1>1 DEF ShadowInv, Shadowing!Reports, Shadowing!Cases, Shadowing!HeldByInheritance,
     Shadowing!OktaCases, Shadowing!StripeCases
<1>3. k.desired \in Nat
  BY <1>2, AdapterBounds DEF Shadowing!GitHubCases
<1>4. Shadowing!EffectiveGoal(k) /\ ~AdapterGoal(k)
  BY <1>2, <1>3 DEF Shadowing!EffectiveGoal, AdapterGoal, Shadowing!Effective
<1>5. PICK s, a : s = Shadowing!ObservedSnapshot(k) /\ a = Shadowing!AdapterSnapshot(k)
  OBVIOUS
<1>6. Snapshot(s) /\ Snapshot(a) /\ Matched(s) /\ Missed(a)
  BY <1>2, <1>4, <1>5, GitHubSnapshots
<1>7. PICK l, m : l = Shadowing!NormalizeObservation(r) /\ m = Shadowing!ControlledLedger(r)
  OBVIOUS
<1>8. PICK i, j : Read(l, i, s) /\ Read(m, j, a)
  BY <1>1, <1>2, <1>5, <1>6, <1>7, LedgersOf
<1>9. PICK attempts \in 0..1 : attempts = IF r.retried THEN 1 ELSE 0
  OBVIOUS
<1>10. PICK o : o = Shadowing!Outcome("github", l, r.transport, attempts)
  OBVIOUS
<1>11. verdict.state = o.state /\ verdict.decision = o.decision
  BY <1>1, <1>2, <1>7, <1>9, <1>10 DEF ShadowInv, Shadowing!DeriveShadowSemantics
<1>12. o.state = "satisfied_unattributed" /\ o.decision = Permitted
  BY <1>6, <1>8, <1>10, MatchedOutcome
<1>13. PICK c : c = Shadowing!Outcome("github", m, r.transport, 1)
  OBVIOUS
<1>14. 1 \in 0..1
  OBVIOUS
<1>15. c.state = "not_applied"
  BY <1>6, <1>8, <1>13, <1>14, MissedOutcome
<1>16. Shadowing!Controlled(report) = c
  BY <1>1, <1>2, <1>7, <1>13 DEF Shadowing!Controlled
<1>17. QED
  BY <1>11, <1>12, <1>15, <1>16

(* normalizeObservation takes the effective role of GitHub for the goal,   *)
(* the adapter wants it held directly (githubProvider): of a role held     *)
(* only through a team Shadow always says "satisfied", and an action under *)
(* control never does.                                                     *)
THEOREM InheritedTheorem == SpecAll => []InheritedIsSatisfied
<1>1. SpecAll => []ShadowInv
  BY ShadowInit, ShadowStep, PTL DEF SpecAll
<1>2. QED
  BY <1>1, InheritedSays, PTL
=============================================================================
