------------------------------ MODULE Governance ------------------------------
(***************************************************************************)
(* What the control plane does for an environment: admission of actions    *)
(* (extended here), idempotent commands, outcomes and their evidence,      *)
(* ingested evidence, continuation leases and grants, what an action is    *)
(* bound to, offboarding runs, the ways into an account, and the           *)
(* connections to the providers.  They share processes and a clock and no  *)
(* rows, so that one of them is followed at a time.                        *)
(***************************************************************************)
EXTENDS Admission

CONSTANTS
    Bodies, MaxCommands,                            \* commands
    Providers, Values, Required, Subject, Property, Instances, Freshness, Deadline,
    MaxWork,                                        \* outcomes
    Sources, Events, Topics, Nonces, MaxPushes,     \* ingested evidence
    Leases, AutoContinuation, MaxEvidence, MaxResolutions,
    MaxChecks, MaxRuns,                             \* offboarding
    Subjects, MailOf, Mails, States, Handles, MaxCallbacks, MaxDisconnects,   \* sign-in
    MAX_REQUESTS_PER_HOUR, MaxEntries,              \* passwords
    Provider, Trust, Ids, Operator, Foreign, Stated, Proved, Failures,
    MaxQuestions, MaxEdits,                         \* connections
    Approvals, Agents, Effects, Resources, Permitted, MaxEvaluations,   \* grants
    ApiKeys, AgentOf, Effect, Plans,                \* what actions are bound to
    Term, Horizon     \* how long requests and leases last; the clock's bound for them

ASSUME GovernanceBounds ==
    {MaxCommands, Freshness, Deadline, MaxWork, MaxPushes, MaxEvidence, MaxResolutions,
     MaxRuns, MaxCallbacks, MaxDisconnects, MAX_REQUESTS_PER_HOUR, MaxEntries, Trust,
     MaxQuestions, MaxEdits, MaxEvaluations, Term, Horizon} \subseteq Nat
(* No row is the null that says there is none.                             *)
ASSUME GovernanceNull ==
    /\ Null \notin [status : {"in_flight", "completed"}, body : Bodies]
    /\ Null \notin [topic : Topics, linked : BOOLEAN] /\ Null \notin Nonces
    /\ Null \notin [status : {"issued", "fulfilled", "rejected", "expired"}, topic : Topics,
                    expires : Nat, evidence : (Sources \X Events) \union {Null}]
    /\ Null \notin [subject : {Subject}, provider : Providers, property : {Property},
                    value : Values, observed_at : Nat, fresh_until : Nat,
                    authoritative : {TRUE}, current : BOOLEAN]
    /\ Null \notin [agent : Agents \union {Null}, permits : Permitted,
                    exception : Approvals \union {Null}, sequence : Nat,
                    verdict : {"satisfied", "unsatisfied", "indeterminate"},
                    ended : BOOLEAN, consumed : BOOLEAN, uses : Nat]
    /\ Null \notin [mode : {"shadow", "canary", "enforced"},
                    policy : [of : {Effect, Null}, version : Nat]]
(* Requests are handled by finitely many at once, and some may be made.    *)
ASSUME GovernanceCallers == IsFiniteSet(Callers) /\ MAX_REQUESTS_PER_HOUR \in Nat \ {0}
(* The accounts there are were created in an order.                        *)
ASSUME GovernanceMails == Mails \in Seq({Mails[u] : u \in DOMAIN Mails})
(* A reference says whose it is, and no failure of a probe is a readiness.  *)
ASSUME GovernanceReferences ==
    /\ Operator \notin Ids /\ Foreign \notin Ids \union {Operator}
    /\ Null \notin Ids \union {Operator, Foreign} /\ "ready" \notin Failures
ASSUME GovernancePolicy ==
    /\ AutoContinuation \in BOOLEAN
    /\ Permitted \subseteq [effects : (SUBSET Effects) \ {{}},
                      resources : (SUBSET Resources) \ {{}}]
    /\ AgentOf \in [ApiKeys -> Agents \union {Null}]

VARIABLES
    busy,             \* the part that is followed
    crashes,
    entry, command, effects, replies, commands,
    facts, slot, latch, instance, evaluated, receipts, worker, work,
    source, ingested, recorded, asked, accepted, pusher, pushes,
    evidence, drawn, saved, reconciling, lease, client,
    run, action, holds, learnt, resolutions, executor, runs,
    accounts, attempt, bindings, handle, sessions, call, callbacks, disconnects,
    password, links, admitted, entering, entries,
    stored, integration, preflights, attested, enabled, request, requests, changes,
    verdicts, approved, grant, bearer, questions,
    policies, posture, plan, offered, agents, keys, submitted, submitter, submissions, edits

Commands     == INSTANCE Idempotency WITH Absent <- Null
Truth        == INSTANCE Outcomes WITH Workers <- Callers, MaxTime <- Horizon
Reports      == INSTANCE Ingest WITH Absent <- Null, time <- clock, Expiry <- Term,
                                     MaxTime <- Horizon
Leasing      == INSTANCE Continuation WITH Clients <- Callers, Nothing <- Null,
                                           now <- clock, MaxTime <- Horizon
Departures   == INSTANCE Offboarding WITH Executors <- Callers
Google       == INSTANCE SignIn WITH Absent <- Null
Resets       == INSTANCE Passwords WITH now <- clock, MaxTime <- Horizon, Hour <- Term
Provisioning == INSTANCE Connections WITH Absent <- Null, now <- clock, MaxTime <- Horizon,
                                          MaxRequests <- MaxQuestions, MaxChanges <- MaxEdits
Granting     == INSTANCE Grants WITH Absent <- Null, Bearers <- Callers, Ids <- Leases,
                                     Outcome <- Subject, Scopes <- Permitted
Submitting   == INSTANCE Binding WITH Absent <- Null, mode <- posture, action <- submitted,
                                      caller <- submitter, MaxSubmissions <- MaxQuestions

admissions  == <<holder, operators, ledger, acted, caller, used>>
keyed       == <<entry, command, effects, replies, commands>>
outcomes    == <<facts, slot, latch, instance, evaluated, receipts, worker, work>>
reports     == <<source, ingested, recorded, asked, accepted, pusher, pushes>>
leasing     == <<evidence, drawn, saved, reconciling, lease, client>>
departures  == <<run, action, holds, learnt, resolutions, executor, runs>>
google      == <<accounts, attempt, bindings, handle, sessions, call, callbacks, disconnects>>
resets      == <<password, links, admitted, entering, entries>>
connecting  == <<stored, integration, preflights, attested, enabled, request, requests,
                 changes>>
granting    == <<verdicts, approved, grant, bearer, questions>>
submitting  == <<policies, posture, plan, offered, agents, keys, submitted, submitter,
                 submissions, edits>>

tenancy     == <<google, resets, connecting>>
authorities == <<granting, submitting>>
controls    == <<admissions, keyed, outcomes, reports, leasing, departures>>
everything  == <<busy, clock, crashes, controls, tenancy, authorities>>

Parts == {"admission", "commands", "outcomes", "reports", "leasing", "departures",
          "sign-in", "passwords", "connections", "grants", "bindings"}

InitAll ==
    /\ busy \in Parts
    /\ Init /\ Commands!Init /\ Truth!Init /\ Reports!Init /\ Leasing!Init
    /\ Departures!Init /\ Google!Init /\ Resets!Init /\ Provisioning!Init
    /\ Granting!Init /\ Submitting!Init
    /\ busy = "admission" \/ (mode = "shadow" /\ rules = {})
    /\ busy = "departures" \/ \A s \in DOMAIN holds : ~holds[s]
    /\ busy = "grants" \/ approved = {}
    /\ busy = "bindings" \/ offered = {}

NextAll ==
    /\ UNCHANGED busy
    /\ \/ /\ busy = "admission" /\ Next
          /\ UNCHANGED <<crashes, keyed, outcomes, reports, leasing, departures, tenancy, authorities>>
       \/ /\ busy = "commands" /\ Commands!Next
          /\ UNCHANGED <<clock, admissions, outcomes, reports, leasing, departures, tenancy, authorities>>
       \/ /\ busy = "outcomes" /\ Truth!Next
          /\ UNCHANGED <<admissions, keyed, reports, leasing, departures, tenancy, authorities>>
       \/ /\ busy = "reports" /\ Reports!Next
          /\ UNCHANGED <<admissions, keyed, outcomes, leasing, departures, tenancy, authorities>>
       \/ /\ busy = "leasing" /\ Leasing!Next
          /\ UNCHANGED <<crashes, admissions, keyed, outcomes, reports, departures, tenancy, authorities>>
       \/ /\ busy = "departures" /\ Departures!Next
          /\ UNCHANGED <<clock, admissions, keyed, outcomes, reports, leasing, tenancy, authorities>>
       \/ /\ busy = "sign-in" /\ Google!Next
          /\ UNCHANGED <<clock, crashes, controls, resets, connecting, authorities>>
       \/ /\ busy = "passwords" /\ Resets!Next
          /\ UNCHANGED <<crashes, controls, google, connecting, authorities>>
       \/ /\ busy = "connections" /\ Provisioning!Next
          /\ UNCHANGED <<crashes, controls, google, resets, authorities>>
       \/ /\ busy = "grants" /\ Granting!Next
          /\ UNCHANGED <<clock, crashes, controls, tenancy, submitting>>
       \/ /\ busy = "bindings" /\ Submitting!Next
          /\ UNCHANGED <<clock, crashes, controls, tenancy, granting>>

SpecAll == InitAll /\ [][NextAll]_everything

-----------------------------------------------------------------------------
(* The types of the part that is followed; the others stay as they began.   *)
TypesOK ==
    CASE busy = "admission"   -> TypeOK
      [] busy = "commands"    -> Commands!TypeOK
      [] busy = "outcomes"    -> Truth!TypeOK
      [] busy = "reports"     -> Reports!TypeOK
      [] busy = "leasing"     -> Leasing!TypeOK
      [] busy = "departures"  -> Departures!TypeOK
      [] busy = "sign-in"     -> Google!TypeOK
      [] busy = "passwords"   -> Resets!TypeOK
      [] busy = "connections" -> Provisioning!TypeOK
      [] busy = "grants"      -> Granting!TypeOK
      [] busy = "bindings"    -> Submitting!TypeOK

(* A keyed command takes effect once, for one request.                     *)
RunsOnce == Commands!RunsOnce

(* Of each provider the newest observation is the current fact, and a later *)
(* evaluation of an outcome never rests on older evidence.                 *)
EvidenceAdvances == Truth!SlotHoldsNewest /\ Truth!EvidenceAdvances

(* A retried, raced or replayed observation counts once.                   *)
ObservedOnce == Reports!ObservedOnce

(* GitHub access is removed only after the suspension in Okta was found.   *)
StagesInOrder == Departures!StagesInOrder

(* A consumed lease was of the resolution current at that moment.          *)
LeaseIsOfCurrent == Leasing!LeaseIsOfCurrent

(* One Google account, one user; and a reset link works once, while the    *)
(* password it was sent for is the password.                               *)
AccountsHold == Google!IdentitiesHold /\ Resets!PasswordHolds

(* A grant says of the outcome and of its approval what was the case, and   *)
(* is used once; and what a submission was held to is what its action is   *)
(* bound to when it is dispatched.                                         *)
AuthorityHolds == Granting!GrantsHold /\ Submitting!BindingsHold

(* "ready" is said of a credential that was verified and not revoked.      *)
ReadyIsVerified == Provisioning!ReadyIsVerified
=============================================================================
