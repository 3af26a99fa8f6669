------------------------------- MODULE Sandbox -------------------------------
(***************************************************************************)
(* The resolver without a runtime: one logical action is recorded, marked  *)
(* dispatched, observed by the scripted provider and resolved, by callers  *)
(* who share it and may stop between any two awaits.  Nothing serialises   *)
(* them but the transition of the action's lifecycle, a compare-and-set;   *)
(* a resolver that finds the action "reconciling" resolves it as well.     *)
(* The spec may be an honest one or one of the two that misbehave.         *)
(***************************************************************************)
EXTENDS ReferenceEffect

CONSTANTS Resolvers,          \* who calls the engine
          Scenarios,          \* what the scripted provider is told to report
          MaxRecords, MaxResolutions, MaxStops   \* bounds

ASSUME ScenariosAssumption ==
    Scenarios \subseteq {"happy_verified", "confirmed_absent", "eventually_consistent",
                         "wrong_then_compensated", "goal_state_preexisting",
                         "transport_timeout", "wrong_permission_observed"}
ASSUME SandboxBounds == {MaxRecords, MaxResolutions, MaxStops} \subseteq Nat

VARIABLES action,             \* the row of the action
          records,            \* what was reported, in the order of the ledger
          resolutions,        \* saved, in the order of saving
          caller,             \* each caller's place and locals
          dispatches,         \* how often "dispatching" was entered
          stops

kept    == <<action, records, resolutions>>
sandbox == <<action, records, resolutions, caller, dispatches, stops>>

EffectSpecs == {"honest", "rogue", "rogue-absence"}

NoAction == [state |-> "none", plan |-> FALSE]
AtRest   == [pc |-> "idle", script |-> <<>>, spec |-> "none", draft |-> [state |-> "none"]]

(* observeFakeProvider: the records of a scenario, in the order of their   *)
(* appends.                                                                *)
Script(scenario) ==
    CASE scenario = "happy_verified"            -> <<"created", "applied">>
      [] scenario = "confirmed_absent"          -> <<"transport", "none_found">>
      [] scenario = "eventually_consistent"     -> <<"accepted", "inconsistent">>
      [] scenario = "wrong_then_compensated"    -> <<"wrong", "undone">>
      [] scenario = "goal_state_preexisting"    -> <<"transport", "preexisting">>
      [] scenario = "transport_timeout"         -> <<"transport">>
      [] scenario = "wrong_permission_observed" -> <<"wrong">>

(* What each of them says; the others are those of the runtime's provider. *)
Says(report) ==
    CASE report = "created" ->
           Facets("provider_response", "corroborative", "effect_present", "attributed")
      [] report = "accepted" ->
           Facets("provider_response", "corroborative", "indeterminate", "indeterminate")
      [] report = "inconsistent" ->
           Facets("provider_read", "circumstantial", "effect_absent", "indeterminate")
      [] report = "wrong" ->
           Facets("provider_read", "authoritative", "indeterminate", "attributed")
      [] OTHER -> Profile(report)

RecordOf(i) ==
    LET says == Says(records[i]) IN
    [ref |-> i, kind |-> says.kind, strength |-> says.strength,
     disposition |-> says.disposition, attribution |-> says.attribution, supersedes |-> 0]

-----------------------------------------------------------------------------
(* assess of the honest spec: the first report that decides, in this order.*)
HonestAssess ==
    LET reports(r) == {i \in DOMAIN records : records[i] = r}
        first(r)   == CHOOSE i \in reports(r) : \A j \in reports(r) : i <= j
        none(rs)   == \A r \in rs : reports(r) = {}
        reads      == UNION {reports(r) : r \in {"applied", "preexisting", "wrong"}}
        claims     == {"undone", "applied", "preexisting", "wrong", "none_found"}
    IN  CASE ~none({"undone"}) -> Assessment("compensated", reads \union reports("undone"), FALSE)
          [] none({"undone"}) /\ ~none({"applied"}) ->
               Assessment("verified", {first("applied")}, FALSE)
          [] none({"undone", "applied"}) /\ ~none({"preexisting"}) ->
               Assessment("satisfied_unattributed", {first("preexisting")}, FALSE)
          [] none({"undone", "applied", "preexisting"}) /\ ~none({"wrong"}) ->
               Assessment("unprovable", {first("wrong")}, FALSE)
          [] none(claims \ {"none_found"}) /\ ~none({"none_found"}) ->
               Assessment("not_applied", {first("none_found")}, FALSE)
          [] none(claims) /\ ~none({"accepted"}) ->
               Assessment("pending", DOMAIN records \ reports("transport"), TRUE)
          [] OTHER -> Assessment("unprovable", reports("transport"), FALSE)

HonestDecide(a) ==
    IF a.state = "pending" THEN Decision("hold", "forbidden", "blocked", "none", TRUE)
    ELSE ReferenceDecide(a)

(* The two that misbehave cite everything, whatever it says.               *)
Assess(spec) ==
    CASE spec = "honest"        -> HonestAssess
      [] spec = "rogue"         -> Assessment("verified", DOMAIN records, FALSE)
      [] spec = "rogue-absence" -> Assessment("not_applied", DOMAIN records, FALSE)

Decide(spec, a) ==
    CASE spec = "honest"        -> HonestDecide(a)
      [] spec = "rogue"         -> Decision("retry", "allowed", "allowed", "none", FALSE)
      [] spec = "rogue-absence" -> Decision("retry", "allowed", "blocked", "none", FALSE)

(* The draft of a resolution: the proposal, floored.                       *)
Resolved(spec) ==
    LET a == Assess(spec) IN
    ApplySafetyFloors(ReferenceSpec, a.state, a.refs, Decide(spec, a),
                      {RecordOf(i) : i \in DOMAIN records})

-----------------------------------------------------------------------------
SandboxInit ==
    /\ action = NoAction
    /\ records = <<>>
    /\ resolutions = <<>>
    /\ caller = [c \in Resolvers |-> AtRest]
    /\ dispatches = 0
    /\ stops = 0

Is(c, pc) == caller[c].pc = pc
Set(c, locals) == caller' = [caller EXCEPT ![c] = locals]
Leave(c) == Set(c, AtRest)

(* beginAction: a second input under the key is refused and changes        *)
(* nothing, the same one finds the row.                                    *)
RecordIntent(c) ==
    /\ Is(c, "idle") /\ action = NoAction
    /\ action' = [state |-> "intent_recorded", plan |-> FALSE]
    /\ UNCHANGED <<records, resolutions, caller, dispatches, stops>>

(* Defective form: prepared again, from wherever the action is.            *)
PreparableAlways == action # NoAction

Preparable == action.state = "intent_recorded"

(* markDispatched: the plan is durable before the action is dispatching.   *)
Prepare(c) ==
    /\ Is(c, "idle") /\ Preparable
    /\ action' = [action EXCEPT !.state = "prepared", !.plan = TRUE]
    /\ Set(c, [AtRest EXCEPT !.pc = "prepared"])
    /\ UNCHANGED <<records, resolutions, dispatches, stops>>

EnterDispatching(c) ==
    /\ Is(c, "prepared") /\ action.state = "prepared" /\ action.plan
    /\ action' = [action EXCEPT !.state = "dispatching"]
    /\ dispatches' = dispatches + 1
    /\ Set(c, [AtRest EXCEPT !.pc = "dispatching"])
    /\ UNCHANGED <<records, resolutions, stops>>

EnterObserving(c) ==
    /\ Is(c, "dispatching") /\ action.state = "dispatching"
    /\ action' = [action EXCEPT !.state = "observing"]
    /\ Leave(c)
    /\ UNCHANGED <<records, resolutions, dispatches, stops>>

(* observeFakeProvider, called with the dispatched action.                 *)
Observe(c) ==
    /\ Is(c, "idle") /\ action.state \in {"observing", "reconciling", "resolved"}
    /\ \E scenario \in Scenarios :
          Set(c, [AtRest EXCEPT !.pc = "reporting", !.script = Script(scenario)])
    /\ UNCHANGED <<kept, dispatches, stops>>

AppendRecord(c) ==
    /\ Is(c, "reporting") /\ Len(records) < MaxRecords
    /\ records' = Append(records, Head(caller[c].script))
    /\ IF Len(caller[c].script) = 1 THEN Leave(c)
       ELSE Set(c, [caller[c] EXCEPT !.script = Tail(@)])
    /\ UNCHANGED <<action, resolutions, dispatches, stops>>

(* resolve: nothing is resolved that was not observed.                     *)
Resolve(c) ==
    /\ Is(c, "idle") /\ action.state \in {"observing", "reconciling"}
    /\ \E spec \in EffectSpecs :
          Set(c, [AtRest EXCEPT !.pc = IF action.state = "observing" THEN "found" ELSE "reading",
                                !.spec = spec])
    /\ UNCHANGED <<kept, dispatches, stops>>

(* A stale transition is thrown to the caller.                             *)
EnterReconciling(c) ==
    /\ Is(c, "found")
    /\ IF action.state = "observing"
       THEN /\ action' = [action EXCEPT !.state = "reconciling"]
            /\ Set(c, [caller[c] EXCEPT !.pc = "reading"])
       ELSE Leave(c) /\ UNCHANGED action
    /\ UNCHANGED <<records, resolutions, dispatches, stops>>

(* The ledger is read; the rest is computed and signed without an await.   *)
Reconcile(c) ==
    /\ Is(c, "reading")
    /\ LET floored == Resolved(caller[c].spec) IN
       Set(c, [caller[c] EXCEPT
                 !.pc = "drawn",
                 !.draft = [state |-> floored.state, decision |-> floored.decision,
                            basis |-> Len(records)]])
    /\ UNCHANGED <<kept, dispatches, stops>>

Save(c) ==
    /\ Is(c, "drawn") /\ Len(resolutions) < MaxResolutions
    /\ resolutions' = Append(resolutions, caller[c].draft)
    /\ Set(c, [caller[c] EXCEPT !.pc = "saved"])
    /\ UNCHANGED <<action, records, dispatches, stops>>

(* Everything but "pending" ends the loop; who comes second is refused.    *)
Settle(c) ==
    /\ Is(c, "saved")
    /\ action' = IF action.state # "reconciling" THEN action
                 ELSE [action EXCEPT !.state = IF caller[c].draft.state = "pending"
                                               THEN "observing" ELSE "resolved"]
    /\ Leave(c)
    /\ UNCHANGED <<records, resolutions, dispatches, stops>>

(* Between two awaits a caller may stop for good.                          *)
Stop(c) ==
    /\ ~Is(c, "idle") /\ stops < MaxStops /\ stops' = stops + 1
    /\ Leave(c)
    /\ UNCHANGED <<kept, dispatches>>

SandboxNext ==
    \E c \in Resolvers :
       \/ RecordIntent(c) \/ Prepare(c) \/ EnterDispatching(c) \/ EnterObserving(c)
       \/ Observe(c) \/ AppendRecord(c)
       \/ Resolve(c) \/ EnterReconciling(c) \/ Reconcile(c) \/ Save(c) \/ Settle(c)
       \/ Stop(c)

-----------------------------------------------------------------------------
(* However callers interleave or stop: the action is dispatched once and   *)
(* under a recorded plan, and it is only resolved when a resolution that   *)
(* may end it was saved.                                                   *)
LifecycleHolds ==
    /\ dispatches <= 1 /\ (dispatches = 1 => action.plan)
    /\ action.state = "resolved" =>
          \E i \in DOMAIN resolutions : resolutions[i].state # "pending"

(* What may be said of the first r.basis records.                          *)
Clamped(r) ==
    LET seen == {records[j] : j \in 1..r.basis} IN
    /\ r.state = "verified" => "applied" \in seen /\ "preexisting" \notin seen
    /\ r.state = "not_applied" =>
          "none_found" \in seen /\ seen \intersect {"applied", "preexisting"} = {}
    /\ r.state = "compensated" => {"undone", "wrong"} \subseteq seen
    /\ r.decision.retry = "allowed" => r.state = "not_applied"
    /\ r.decision.continuation = "allowed" =>
          r.state \in {"verified", "satisfied_unattributed"}

(* A spec that misbehaves gets no further than the records it was given: a *)
(* saved certainty was reported, its opposite was not, and neither a retry *)
(* nor a continuation is allowed on any other.                             *)
RogueIsClamped == \A i \in DOMAIN resolutions : Clamped(resolutions[i])
=============================================================================
