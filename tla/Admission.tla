------------------------------ MODULE Admission ------------------------------
(***************************************************************************)
(* POST /v1/actions up to the dispatch: the mode of the action, admission  *)
(* against freezes and budgets under the environment's authority row, the  *)
(* authority decision, the commit, the link.  The operators who freeze,    *)
(* authorise and change modes work beside it.  One environment.  A         *)
(* transaction's now() is the time of its BEGIN, however long it waits.    *)
(***************************************************************************)
EXTENDS CanonicalAuthority, FiniteSets, FiniteSetsExt

CONSTANTS
    Callers,          \* concurrent requests
    Keys,             \* business keys
    Requests,         \* what may be asked for: agent, effect, amount, currency
    Budgets,          \* the blast-radius budgets of the environment
    Rules,            \* the autonomy rules somebody may write
    Exceptions,       \* the exceptions somebody may grant
    Scopes,           \* what may be frozen: agent, effect, Null for every one
    Hour,             \* the window usage is counted over, at least
    MaxTime, MaxCalls, MaxChanges, MaxCrashes  \* bounds

(* What the ledger says of a key: why it was blocked, or NULL.             *)
Decisions == [at : Nat, request : Requests, blocked_by : {Null, "freeze", "blast_radius"},
              linked : BOOLEAN]

ASSUME AdmissionNull ==
    /\ Null \notin Nat /\ Null \notin Callers
    /\ Null \notin {"freeze", "blast_radius"} /\ Null \notin Decisions
ASSUME AdmissionKeys == IsFiniteSet(Keys)
ASSUME AdmissionBudgets ==
    \A b \in Budgets : /\ b.window \in Nat
                       /\ {b.max_actions, b.max_per_window} \subseteq Nat \union {Null}
(* An amount is a number of minor units.                                   *)
ASSUME AdmissionRequests == \A r \in Requests : r.amount \in Nat \union {Null}
ASSUME AdmissionBounds == {MaxTime, MaxCalls, MaxChanges, MaxCrashes} \subseteq Nat

VARIABLES
    clock,
    holder,           \* the transaction that holds nyst_environment_authority, or Null
    mode, canary,     \* the environment's mode, and the slices it controls in canary
    frozen,           \* scopes of the active freezes
    rules, granted,   \* live autonomy rules; live exceptions, newest first
    ledger,           \* nyst_consequence_admissions, by business key
    acted,            \* the action of each key, when it has one
    caller,
    used

operators == <<mode, canary, frozen, rules, granted>>
vars == <<clock, holder, mode, canary, frozen, rules, granted, ledger, acted, caller, used>>

Limits == [calls |-> MaxCalls, changes |-> MaxChanges, crashes |-> MaxCrashes]

Spend(budget) == /\ used[budget] < Limits[budget]
                 /\ used' = [used EXCEPT ![budget] = @ + 1]

Modes == {"shadow", "canary", "enforced"}
Slice(request) == <<request.agent, request.effect>>

Idle == [pc |-> "idle", key |-> Null, request |-> Null, started |-> 0, blocked_by |-> Null,
         alone |-> FALSE]

Init ==
    /\ clock = 0
    /\ holder = Null
    /\ mode \in Modes
    /\ canary = {}
    /\ frozen = {}
    /\ rules \in SUBSET Rules
    /\ granted = <<>>
    /\ ledger = [k \in Keys |-> Null]
    /\ acted = [k \in Keys |-> Null]
    /\ caller = [c \in Callers |-> Idle]
    /\ used = [b \in DOMAIN Limits |-> 0]

At(c, pc) == caller[c].pc = pc
Become(c, new) == caller' = [caller EXCEPT ![c] = new]
Goto(c, pc) == Become(c, [caller[c] EXCEPT !.pc = pc])
Return(c) == Become(c, Idle)

-----------------------------------------------------------------------------
(* resolveExecutionMode: refused unless this action is controlled.         *)
Controlled(request) == mode = "enforced" \/ (mode = "canary" /\ Slice(request) \in canary)

Submit(c) ==
    /\ At(c, "idle") /\ Spend("calls")
    /\ \E k \in Keys, request \in Requests :
          /\ Controlled(request)
          /\ Become(c, [Idle EXCEPT !.pc = "submitted", !.key = k, !.request = request])
    /\ UNCHANGED <<clock, holder, operators, ledger, acted>>

Begin(c) ==
    /\ At(c, "submitted")
    /\ Become(c, [caller[c] EXCEPT !.pc = "waiting", !.started = clock])
    /\ UNCHANGED <<clock, holder, operators, ledger, acted, used>>

(* Defective form: admission and freezes share no boundary.                *)
Unguarded == TRUE

(* The boundary admission, freezing and release have to cross.             *)
BoundaryFree == holder = Null

(* lockEnvironmentAuthority; the budgets' rows are locked under it, by     *)
(* admissions only.                                                        *)
CrossBoundary(c) ==
    /\ At(c, "waiting") /\ BoundaryFree
    /\ holder' = c
    /\ Goto(c, "crossed")
    /\ UNCHANGED <<clock, operators, ledger, acted, used>>

(* FREEZE_COVERAGE_PREDICATE.                                              *)
Covers(scope, request) ==
    scope.agent \in {Null, request.agent} /\ scope.effect \in {Null, request.effect}

Applicable(budget, request) == Covers(budget, request)

Admitted(k) == ledger[k] # Null /\ ledger[k].blocked_by = Null

(* Defective form: counted from the actions instead of from the ledger.    *)
UsedByActions(budget, now) ==
    {k \in Keys : /\ Admitted(k) /\ acted[k] # Null
                  /\ Applicable(budget, ledger[k].request)
                  /\ ledger[k].at > now - budget.window}

Used(budget, now) ==
    {k \in Keys : /\ Admitted(k)
                  /\ Applicable(budget, ledger[k].request)
                  /\ ledger[k].at > now - budget.window}

AmountOf(k) == IF ledger[k].request.amount = Null THEN 0 ELSE ledger[k].request.amount
TotalAmount(keys) == MapThenSumSet(AmountOf, keys)

(* A monetary limit that cannot be evaluated is violated.                  *)
Monetary(budget) == budget.max_per_action # Null \/ budget.max_per_window # Null

Violated(budget, request, now) ==
    \/ budget.max_actions # Null /\ Cardinality(Used(budget, now)) + 1 > budget.max_actions
    \/ Monetary(budget) /\ request.amount = Null
    \/ budget.max_per_action # Null /\ request.amount > budget.max_per_action
    \/ budget.currency # Null /\ request.currency # Null /\ request.currency # budget.currency
    \/ budget.currency # Null /\ request.currency = Null /\ Monetary(budget)
    \/ /\ budget.max_per_window # Null
       /\ TotalAmount(Used(budget, now)) + request.amount > budget.max_per_window

BlockedBy(request, now) ==
    IF \E scope \in frozen : Covers(scope, request) THEN "freeze"
    ELSE IF \E b \in Budgets : Applicable(b, request) /\ Violated(b, request, now)
         THEN "blast_radius" ELSE Null

(* ADMISSION_SQL in the snapshot it gets once the boundary is crossed.     *)
Decide(c) ==
    /\ At(c, "crossed")
    /\ Become(c, [caller[c] EXCEPT
                    !.pc = "decided",
                    !.blocked_by = BlockedBy(caller[c].request, caller[c].started)])
    /\ UNCHANGED <<clock, holder, operators, ledger, acted, used>>

(* What the transaction worked out is gone with it.                        *)
LeaveBoundary(c, pc) == Become(c, [caller[c] EXCEPT !.pc = pc, !.started = 0, !.blocked_by = Null])

(* COMMIT.  A key decided before keeps its decision, which is read again.  *)
Commit(c) ==
    /\ At(c, "decided")
    /\ holder' = Null
    /\ IF ledger[caller[c].key] = Null
       THEN /\ ledger' = [ledger EXCEPT ![caller[c].key] =
                            [at |-> caller[c].started, request |-> caller[c].request,
                             blocked_by |-> caller[c].blocked_by, linked |-> FALSE]]
            /\ IF caller[c].blocked_by = Null THEN LeaveBoundary(c, "admitted") ELSE Return(c)
       ELSE LeaveBoundary(c, "conflict") /\ UNCHANGED ledger
    /\ UNCHANGED <<clock, operators, acted, used>>

Replay(c) ==
    /\ At(c, "conflict")
    /\ IF Admitted(caller[c].key) THEN Goto(c, "admitted") ELSE Return(c)
    /\ UNCHANGED <<clock, holder, operators, ledger, acted, used>>

-----------------------------------------------------------------------------
(* authorizeConsequence.  What the ledger holds of this admission counts   *)
(* as use; the total amount is handed over under a name nothing reads.     *)
LongestWindow == Max({Hour} \union {r.window : r \in {q \in rules : q.window # Null}})

Usage(agent) ==
    {k \in Keys : /\ Admitted(k) /\ agent \in {Null, ledger[k].request.agent}
                  /\ ledger[k].at > clock - LongestWindow}

Question(c) ==
    [agent |-> caller[c].request.agent, effect |-> caller[c].request.effect,
     amount |-> caller[c].request.amount, currency |-> caller[c].request.currency,
     outcome_spec |-> Null, resource_class |-> Null,
     actions_in_window |-> Cardinality(Usage(caller[c].request.agent)),
     amount_in_window |-> Null,
     reversible |-> TRUE, open_incident |-> FALSE, outcome_satisfied |-> TRUE,
     primary |-> "continue", continuation |-> "allowed", automatic_continuation |-> TRUE,
     frozen |-> FALSE, in_budget |-> TRUE, controlled |-> TRUE, dependency |-> Null,
     exceptions |-> SelectSeq(granted, LAMBDA e : Covers(e, caller[c].request))]

Authorize(c) ==
    /\ At(c, "admitted")
    /\ IF EvaluateAuthority(rules, Question(c)) = "allowed"
       THEN Become(c, [caller[c] EXCEPT
                         !.pc = "authorised",
                         !.alone = EvaluateAutonomyLine(rules, Question(c)).disposition
                                     = "autonomous"])
       ELSE Return(c)
    /\ UNCHANGED <<clock, holder, operators, ledger, acted, used>>

(* options.commit: the action of the key, made now or before.              *)
Dispatch(c) ==
    /\ At(c, "authorised")
    /\ acted' = IF acted[caller[c].key] # Null THEN acted
                ELSE [acted EXCEPT ![caller[c].key] =
                        [at |-> clock, request |-> caller[c].request, alone |-> caller[c].alone]]
    /\ Goto(c, "dispatched")
    /\ UNCHANGED <<clock, holder, operators, ledger, used>>

LinkAdmission(c) ==
    /\ At(c, "dispatched")
    /\ ledger' = [ledger EXCEPT ![caller[c].key].linked = TRUE]
    /\ Return(c)
    /\ UNCHANGED <<clock, holder, operators, acted, used>>

Answer(c) ==
    \/ Begin(c) \/ CrossBoundary(c) \/ Decide(c) \/ Commit(c) \/ Replay(c)
    \/ Authorize(c) \/ Dispatch(c) \/ LinkAdmission(c)

-----------------------------------------------------------------------------
(* The operators.  One freeze is active per scope; every other change is a *)
(* statement of its own that waits for nobody.                             *)
ActivateFreeze(scope) ==
    /\ Spend("changes") /\ BoundaryFree
    /\ scope \notin frozen
    /\ frozen' = frozen \union {scope}
    /\ UNCHANGED <<clock, holder, mode, canary, rules, granted, ledger, acted, caller>>

ReleaseFreeze(scope) ==
    /\ BoundaryFree
    /\ scope \in frozen
    /\ frozen' = frozen \ {scope}
    /\ UNCHANGED <<clock, holder, mode, canary, rules, granted, ledger, acted, caller, used>>

SetEnvironmentMode(new) ==
    /\ Spend("changes")
    /\ mode # new
    /\ mode' = new
    /\ UNCHANGED <<clock, holder, canary, frozen, rules, granted, ledger, acted, caller>>

CreateCanaryRule(slice) ==
    /\ Spend("changes")
    /\ slice[1] # Null /\ slice \notin canary
    /\ canary' = canary \union {slice}
    /\ UNCHANGED <<clock, holder, mode, frozen, rules, granted, ledger, acted, caller>>

SetCanaryRuleDisabled(slice) ==
    /\ slice \in canary
    /\ canary' = canary \ {slice}
    /\ UNCHANGED <<clock, holder, mode, frozen, rules, granted, ledger, acted, caller, used>>

CreateAutonomyRule(rule) ==
    /\ Spend("changes")
    /\ rule \notin rules
    /\ rules' = rules \union {rule}
    /\ UNCHANGED <<clock, holder, mode, canary, frozen, granted, ledger, acted, caller>>

DisableAutonomyRule(rule) ==
    /\ Spend("changes")
    /\ rule \in rules
    /\ rules' = rules \ {rule}
    /\ UNCHANGED <<clock, holder, mode, canary, frozen, granted, ledger, acted, caller>>

CreateException(exception) ==
    /\ Spend("changes")
    /\ \A i \in DOMAIN granted : granted[i] # exception
    /\ granted' = <<exception>> \o granted
    /\ UNCHANGED <<clock, holder, mode, canary, frozen, rules, ledger, acted, caller>>

(* revokeException, or its expiry.                                         *)
EndException(i) ==
    /\ granted' = SubSeq(granted, 1, i - 1) \o SubSeq(granted, i + 1, Len(granted))
    /\ UNCHANGED <<clock, holder, mode, canary, frozen, rules, ledger, acted, caller, used>>

Operate ==
    \/ \E scope \in Scopes : ActivateFreeze(scope) \/ ReleaseFreeze(scope)
    \/ \E new \in Modes : SetEnvironmentMode(new)
    \/ \E request \in Requests : \/ CreateCanaryRule(Slice(request))
                                 \/ SetCanaryRuleDisabled(Slice(request))
    \/ \E rule \in Rules : CreateAutonomyRule(rule) \/ DisableAutonomyRule(rule)
    \/ \E exception \in Exceptions : CreateException(exception)
    \/ \E i \in DOMAIN granted : EndException(i)

(* The process dies, or its connection: what it had open is rolled back.   *)
Crash(c) ==
    /\ ~At(c, "idle") /\ Spend("crashes")
    /\ holder' = IF holder = c THEN Null ELSE holder
    /\ Return(c)
    /\ UNCHANGED <<clock, operators, ledger, acted>>

Tick ==
    /\ clock < MaxTime
    /\ clock' = clock + 1
    /\ UNCHANGED <<holder, operators, ledger, acted, caller, used>>

Next ==
    \/ \E c \in Callers : Submit(c) \/ Answer(c) \/ Crash(c)
    \/ Operate
    \/ Tick

Spec == Init /\ [][Next]_vars

-----------------------------------------------------------------------------
Actions   == [at : Nat, request : Requests, alone : BOOLEAN]

(* The types of the state; the boundary is held by the transaction that    *)
(* crossed it, and only for as long as that transaction is open; an action *)
(* is of a key that was admitted.                                          *)
TypeOK ==
    /\ clock \in Nat
    /\ holder \in Callers \union {Null}
    /\ mode \in Modes
    /\ canary \subseteq {Slice(r) : r \in Requests}
    /\ frozen \subseteq Scopes /\ rules \subseteq Rules
    /\ granted \in Seq(Exceptions)
    /\ ledger \in [Keys -> Decisions \union {Null}]
    /\ acted \in [Keys -> Actions \union {Null}]
    /\ caller \in [Callers -> [pc : {"idle", "submitted", "waiting", "crossed", "decided",
                                     "conflict", "admitted", "authorised", "dispatched"},
                               key : Keys \union {Null}, request : Requests \union {Null},
                               started : Nat, blocked_by : {Null, "freeze", "blast_radius"},
                               alone : BOOLEAN]]
    /\ used \in [DOMAIN Limits -> Nat]
    /\ \A c \in Callers : At(c, "crossed") \/ At(c, "decided") <=> holder = c
    /\ \A k \in Keys : acted[k] # Null => Admitted(k)

(* The blast radius: whatever the order in which concurrent requests       *)
(* begin, wait and commit, no window of a budget ever holds more admitted  *)
(* actions, or more money, than the budget allows.                         *)
Window(budget, end) ==
    {k \in Keys : /\ Admitted(k) /\ Applicable(budget, ledger[k].request)
                  /\ ledger[k].at > end - budget.window /\ ledger[k].at <= end}

ActionsHold ==
    \A b \in Budgets : b.max_actions # Null =>
        \A end \in 0..clock : Cardinality(Window(b, end)) <= b.max_actions

AmountsHold ==
    \A b \in Budgets : b.max_per_window # Null =>
        \A end \in 0..clock : TotalAmount(Window(b, end)) <= b.max_per_window

BudgetHolds == ActionsHold /\ AmountsHold

(* The Emergency Freeze: once it is active, no request it covers is newly  *)
(* admitted, also one that was on its way when it was activated.           *)
FreezeStops ==
    [][\A k \in Keys : ledger[k] = Null /\ Admitted(k)' =>
          \A scope \in frozen' : ~Covers(scope, ledger'[k].request)]_vars
=============================================================================
