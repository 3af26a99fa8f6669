# Nyst in TLA+

Nyst answers one question about an action sent to an external system: did the
consequence happen, and what may be done next? It records the intent, admits and
dispatches the mutation across a durable boundary, observes the provider, lets an
*EffectSpec* propose a claim over the evidence, and tightens that claim by safety
floors the spec cannot weaken. Around that core a product decides who may act, keeps looking
after what is unknown, recovers, notifies and accounts. This directory holds TLA+ models of that
program, TLC configurations that check them on small instances, and theorems checked by
TLAPS for every value of the constants.

Paths below are relative to the repository's `src/` unless they start with `docs/`;
"PR" is `product/productRepository.ts`.

    tlc -workers 2 -config MCDispatch.cfg MCRuntime.tla     one run
    tlapm DispatchProofs.tla                                one proof module

## 1. The system

| Component | State it keeps | Operations | Talks to |
|---|---|---|---|
| Safety floors (`engine/safetyFloors.ts`) | none: a pure function | `sanitizeAssessment`, `applySafetyFloors`, `applyDispatchBoundaryFloor` | runtime, sandbox resolver, Shadow |
| Dispatch runtime (`runtime/nystRuntime.ts`) | `activeDispatches`, in memory, per process | `commit`, `recover`, `reconcile`, `retry`, `compensate`, `authorizeContinuation` | stores, provider adapters, specs |
| Stores (`store/memoryStore.ts`, `store/postgresStore.ts`) | actions and their lifecycle, evidence, runtime rows, resolutions | `recordIntent`, `prepare`, `append`, `claimDispatch`, `finishDispatch`, `claimCompensation`, ... | every process shares them |
| Sandbox (`engine/resolver.ts`, `fake/`) | a memory store and a scripted provider | `beginAction`, `markDispatched`, `resolve` | the floors |
| GitHub, Okta, Stripe providers (`providers/`) | none of their own | `dispatch`, `observe`, and their specs' `assess`, `decide` | HTTP |
| Recovery (PR, `product/recoveryWorker.ts`) | `nyst_recovery_executions`: status, claim, dispatch journal | authorise, claim, begin, record, complete, cancel | runtime rows, executors |
| Scheduler, reviews, reobservations, webhooks (PR, `scheduler.ts`, `reobservationWorker.ts`, `webhookWorker.ts`) | jobs, suppressions, reviews, events, attempts | one tick each; a person's decision | runtime, receivers |
| Submission (`product/server.ts` `POST /v1/actions`) | admissions, freezes, budgets, modes, rules, exceptions, bindings | admit, authorise, commit, bind, dispatch | authority, entitlements, runtime |
| Request idempotency (`product/idempotency.ts`) | keys, in flight or complete | reserve, replay, complete, release | HTTP server |
| Outcomes (`product/outcome/`) | world facts, instances, evaluations, receipts | `recordFact`, `evaluate`, `issueReceipt` | evidence sources, relay |
| Continuation leases and grants (PR, `product/authority/`) | leases, grants, exceptions | issue, validate, consume, revoke | resolutions, outcomes |
| Offboarding (`offboarding/`) | a run and its two actions | `execute`, view | Okta, then GitHub, through the runtime |
| Identity (`product/auth/`, `federatedIdentity.ts`) | users, bindings, attempts, reset links, sessions | sign in, link, reset, disconnect | Google, HTTP server |
| Connections and readiness (`tenantCredentials.ts`, PR, `integrationReadiness.ts`) | credential versions, integrations, preflights, attestations | rotate, verify, revoke, admit | providers |
| Shadow (`product/shadow*.ts`) | none that it reads again | evaluate a reported consequence | specs and floors |
| Metrics, dashboards, site, SDK | none | read and render | everything |

What makes the code hard is at five places.

* **Awaits.** Each operation is a chain of statements; anything may happen between two
  of them: another request of the same process, another process over the same tables,
  a crash.
* **Ambiguity.** A request that left may have taken effect whether or not an answer
  arrived. What is known must be readable from the durable row alone, since the process
  that knew more may be gone.
* **Evidence that ages.** A decision is a function of the ledger when it was read.
  It is used later, by a retry, a dependent commit, a lease, a grant or a customer.
* **Leases.** Workers hold rows under a time limit and may wake after it. What they may
  still do must not depend on their being alone.
* **Two readings of one thing.** The control a caller asked for and the control bound
  to the action, the authority computed by the application and the one in SQL, the claim under Shadow
  and under control: each pair is written twice and must agree.

What makes each component correct (the hazards at their lines are in `PROJECT.json`):

* floors: what is signed is evidenced, authorises only what the claim permits, is never
  wider than proposed, and does not depend on how often it is floored;
* runtime and stores: at most one mutation without provider idempotency,
  `definitely_not_sent` is true, one dispatcher at a time, retries and dependent
  commits only on the current decision, one compensation, every call returns;
* providers: what a claim says held while it was read, also when the read took five requests;
* recovery: whoever takes over, a consequence leaves once, and done means done;
* aftercare and delivery: looking goes on until there is an answer, a person is asked or was told;
* submission: the admitted work stays within budgets, a freeze stops, what is
  dispatched is what was admitted, under the control it was admitted with;
* keys, pushes, nonces, links, leases, grants: each is used once, and for what it was issued;
* outcomes: an older observation never replaces a newer one;
* offboarding: GitHub access is removed only after the suspension was found.

## 2. The modules

    EffectModel ── SafetyFloors ──┬── Derivation ──────────────────────┐
                                  ├── EvidenceLedger ── GitHubEffect ──┐│
                                  │         └────── ReferenceEffect ───┴┼─ NystRuntime ── MCRuntime
                                  │              Consequence ◁──────────┘ (refinement)
                                  ├── Sandbox ─────────────┐
                                  ├── ReadBack ── OktaEffect, StripeEffect ── Adapters ──┐
                                  └── Shadow ────────────── MCDerivation ───────────────┘
    EffectiveAuthority ── Recovery ── MCRecovery        OneSend ◁── Recovery (refinement)
    Aftercare, Webhook ── Background
    CanonicalAuthority ── Admission ── Governance ── MCGovernance
    Idempotency, InvariantEngine ── Outcomes, Ingest, Continuation, Offboarding,
    SignIn, Passwords, Connections, Grants, Binding ── Governance (INSTANCE)

    proofs: SafetyFloorsProofs ── DerivationProofs
            SafetyFloorsProofs ── NystRuntimeProofs ── DispatchProofs
            RecoveryProofs    BackgroundProofs    AdmissionProofs ── GovernanceProofs

### 2.1 Claims: what a resolution rests on

**EffectModel** holds the closed vocabularies: effect states, evidence facets, control
decisions, dispatch statuses, internal states.

**SafetyFloors** (`engine/safetyFloors.ts`): the floors as operators. `EpistemicFloor`
is E0-E4 with the contradiction rules V1-V1b, `ControlFloor` the clamps C1-C10 in the
code's order, `ApplySafetyFloors` the two passes, `ApplyDispatchBoundaryFloor` the last one.
A record keeps the facets the floors branch on.

**Derivation**: a resolution derived from *any* ledger by *any* EffectSpec: records are
appended with facets out of `Profiles`, then one `Derive` takes an arbitrary proposal. It
covers every spec, also those nobody has written.

**Sandbox** (`engine/resolver.ts`, `fake/`): the resolver without a runtime, await by await,
for several callers that may stop. Only the lifecycle's compare-and-set serialises
them. The spec is honest or one of the two of the repository that misbehave.

**ReadBack**, **OktaEffect**, **StripeEffect**, **Adapters**: the two adapters at work, one
HTTP request a step, while the provider, other people and the mutation itself change
the object. `ReadBack` is what they share: evidence compared by content, reads of several requests. `OktaEffect`
is a user with a lifecycle status that may be in transition; `StripeEffect` a refund or capture
read as PaymentIntent, Charge and refunds, one after another. `Adapters` reduces the
runtime to its ledger and its leave to dispatch; `NystRuntime` is the detail.

**Shadow**: a caller reports truthfully what a provider holds; the evaluation runs it
through the specs and floors above. The answer is compared with that of an action under control over the same facts.

**EvidenceLedger**, **GitHubEffect**, **ReferenceEffect**: the ledger as the runtime uses it, an append-only
sequence in which a repeated `provider_event_id` is dropped, and the adapters and specs of
the two effects the runtime is checked with. GitHub has no idempotency, attribution or
compensation; the reference provider has all three.

`MCDerivation` extends `Derivation` and `Sandbox`, instances the others, and follows one at a time: they share nothing.

### 2.2 The dispatch runtime

**NystRuntime**: the runtime over the stores. Its state and the code's:

| Variable | In the code |
|---|---|
| `lifecycle` | `ActionRecord.internal_state` |
| `ledger` | evidence rows of the action, in `evidence_sequence` order |
| `row` | the runtime row: `dispatch_status`, `dispatch_attempts`, `claim_token`, `compensation_status`, `resolution_sequence` |
| `saved` | the resolution with the highest sequence |
| `job` | the locals of each request, and the await it stands at (`pc`) |
| `owner` | `activeDispatches` of each process |
| `request`, `resource`, `elapsed`, `undone` | the provider: each attempt's mutation, the object, the consistency window, compensating requests |
| `spent` | how much of each bound is used |

One action is one await together with the code up to the next. An operation enters by
`Call` and runs through:

    commit      RecordIntent Initialize EnsureDispatchPlan Route [CheckSource] ClaimDispatch
    dispatch    Register CrossBoundary EnterDispatching, the adapter (SendNothingToDo,
                Revalidate, Send, Respond, SendTimesOut, SendStopped, AnswerUnreadable),
                AppendReport [SetNotSent RecordNotSent | RecordCaught] Normalize Release
    recover     Initialize EnsureDispatchPlan Route, then as commit, or wait, or StealClaim RecordNotSent
    reconcile   Normalize ListEvidence Observe|ObserveFails AppendObservation
                Derive FloorBoundary NextResolutionSequence SaveResolution
    retry       RequireCurrent ListEvidence Observe AppendObservation CheckRetry
                [CheckNotSent] ClaimDispatch, then dispatch
    compensate  ClaimCompensation Compensate AppendUndone FinishCompensation, then reconcile

`Crash` loses a process, `Land` and `Drop` decide a request at the provider at any later
time, `ExternalChange` is somebody else's change of the object, `WindowElapses` the end of
its consistency window. A request that timed out may still land.

Abstractions, and why they are sound for these properties: claim tokens are the attempt they were
drawn for (each claim draws a new one); the runtime row is one record, because both stores change
it in one statement or transaction; the eligibility hook and the fault injection points only abort a
call, which `Crash` covers; topology checks, credential lookups and malformed payloads are the
nondeterministic `SendStopped` and `ObserveFails`; `authorizeContinuation` changes nothing and is what
`CheckSource` reads; of `next_check_at` only its presence is kept (`recheck`).

**Consequence**: the abstract protocol of the dispatch boundary. An action is
planned, opened at most `Budget` times, crosses at most once, and is opened
again only after the attempt before it is truly known not to have crossed. `NystRuntime`
implements it under the mapping `Boundary`, `row.attempts`, `Sent`.

### 2.3 Recovery and aftercare

**EffectiveAuthority**: what may be done next, the runtime's decision narrowed by the bound
policy, twice: as `effectiveAuthority` computes it and as the automatic statements ask for it in SQL.

**Recovery** (PR `authorizeRecovery` to `cancelRecovery`, `recoveryWorker.ts`): `row` is
`nyst_recovery_executions` by resolution, `worker` each worker's locals, `effect` and `sends` what
its executor did. A claim is two steps, because the candidate is chosen in the
statement's snapshot and the UPDATE re-checks only the claim when it gets the row (READ COMMITTED).
Then `Dispatch` (begin, execute, record), `Look` (the observation of an ambiguous send), `Report`
(complete, park, escalate). `LeaseLapses`, `WorkerPauses` and `Crash` take rows from their holders;
`EvidenceArrives`, `Reresolve` and `DeadlinePasses` move the preconditions under them. The executor and the
observer are external; `registered` says which exist.

**OneSend**: the abstract promise: a journal says that a send may have begun before it can begin, it opens
once, one send follows at most, and it closes as done only when the consequence took effect. `Recovery`
implements it with the journal read off `dispatch`.

**Aftercare** (PR reconciliation, review and reobservation; `scheduler.ts`): the tick of a worker host is
`Sync` (escalate, derive jobs: an INSERT...SELECT is what it selected and what it inserts), `RunJob`, `Look`
(the runtime's reconcile), `RunRequest`; `Review` is a person. A time is a flag the clock raises: `job.due`, and `nextCheck`, which is unset, ahead or passed,
so that a sync over an unclaimed job leaves it due at the later of the two (`Merged`). **Webhook** (`webhookWorker.ts`): one event, claimed,
posted, recorded. **Background** runs either beside nothing: they share hosts and no rows.

### 2.4 The control plane

**CanonicalAuthority** (`authority/autonomyLine.ts`, `canonicalAuthority.ts`): the Autonomy Line and the
eight layers with exceptions, as operators.
**Admission** (`admission.ts` and the route): `Submit` to the dispatch with the environment's
authority row as a lock (`holder`) and `now()` of the transaction's BEGIN; `Operate` is the operators who freeze,
grant, change modes, canaries and rules.
**Binding**: what a submission reads (agent, mode, policy) before it records, and binds the action to after, while others change it.
**Idempotency**: reserve, replay, operate, fail, complete of a keyed command.
**InvariantEngine**, **Outcomes**: every operator of the verdict; recorders under a slot's advisory lock, evaluators under an instance's row,
receipts signed from reads outside a transaction.
**Ingest**: pushed evidence and the relay's nonces. **Continuation**: one-use leases against the runtime's sequences.
**Grants**: grants on an outcome, for effects and resources, and the approval behind it.
**Offboarding**: `execute` over two actions, each reduced to intent, guarded claim and resolution.
**SignIn**, **Passwords**: Google's callback, bindings, hand-off; logins, reset links, the trigger on a new password.
**Connections**: credentials, preflights, attestations, readiness of connections, effects and workloads, and the admission of an effect.

**Governance** extends `Admission` and instances the rest as parts of one environment. They share processes and a clock and no rows, so that
one, `busy`, is followed while the others stay at rest: the interleavings left out commute.

Operators whose comment begins with "Defective form" are single-fault variants of the
definition that follows. No specification uses them. Putting one in the place of
its original must break the property that guards it, which is how we know that the property
depends on that line of the code.

## 3. The runs

| Run | Instance | Question | Distinct states |
|---|---|---|---|
| `floors` (MCDerivation) | any spec over 2 records; the sandbox with 2 resolvers, 5 scenarios, 1 stop; Okta and Stripe with 2 looks, 1 fault, 1 outside change; every Shadow report | Does a resolution say what its evidence carries? | 881 thousand |
| `dispatch` (MCDispatch) | 2 processes, 1 GitHub action, 3 calls of commit, recover, retry, 1 fault | Is the boundary safe under races and theft, and does it implement `Consequence`? | 508 thousand |
| `reference` (MCReference) | 2 processes, 1 reference action, 3 calls of commit, retry, compensate, 1 fault, 1 outside change | Is compensation asked for once, is `verified` true? | 959 thousand |
| `dependent` (MCDependent) | 2 processes, 2 reference actions, the second committed under the first one's guard, 3 calls of commit and reconcile, 1 fault, 1 outside change | Does the second consequence start only on the current first? | 492 thousand |
| `together` (MCTogether) | 2 callers in one process, 2 calls, 1 crash, 1 outside change, unreadable answers | Does awaiting a live owner always end? | 264 thousand |
| `recovery` (MCRecovery) | 2 workers, the recovery of 1 resolution that a second may supersede, 1 crash, 1 pause past a lease, 1 change; with and without an executor and an observer | Does a recovery leave once and settle? | 257 thousand |
| `background` (MCBackground) | 2 worker hosts, 1 action or 1 webhook event, 1 fault | Does looking go on, and does every request and event settle? | 352 thousand |
| `governance` (MCGovernance) | 2 callers, 2 keys, each part of the control plane on its own | Does what surrounds a consequence hold under races and crashes? | 869 thousand |
| `contract_error`, `stale_read`, `recovered`, `stale_lease` | as small as the finding allows | see Findings | violated |

### Bounds

*Runtime.* `MaxCalls` bounds operations entered, not steps: three calls are enough for an owner,
one that overtakes it and a retry that follows, the longest story any property tells
(two attempts are all the budget of `claimDispatch` permits). `MaxFaults` bounds failures that
are not crashes, `MaxChanges` outside changes, `MaxCrashes` crashes. A timeout of an exchange costs nothing:
every attempt may time out. `dispatch` needs no crash budget, because a process that takes no
more steps is a behaviour of `Spec`, and another one steals its claim in the same run;
the crash that frees a process's memory is in `together`, and the proofs cover any number.

*Claims.* Two ledger records are enough for the floors to disagree with themselves: every rule
compares at most one cited record with one that contradicts or supersedes it. Two looks, an outside change and a
fault (`MaxLooks`, `MaxChanges`, `MaxFaults`) give every adapter a torn read, a lost answer and a second opinion;
in the sandbox, three records and two resolutions (`MaxRecords`, `MaxResolutions`) let a slow resolver be overtaken by a fast one.

*Recovery.* Rows are worked on apart, so that one is enough (`MaxRecoveries`); a second resolution is there only to
supersede the first. One crash and one pause are enough for a row to be lost while it is sent and taken over while its first worker
still runs. `MaxAttempts`, `GiveUpAt`, `AttemptLimit` of `background` stand for the code's larger numbers; what matters is
their order, which `DeliveriesAssumption` states.

*Control plane.* Two callers race; three clock values and an `Hour` of 2 let a window end. One budget is of one action at a time, one of two units of money in a window.
`MaxCalls`, `MaxCommands`, `MaxWork`, `MaxPushes`, `MaxRuns`, `MaxCallbacks`, `MaxEntries`, `MaxQuestions` bound operations entered,
`MaxChanges`, `MaxEdits`, `MaxDisconnects`, `MaxEvaluations` the changes beside them, `MaxCrashes` crashes; `Trust`, `Term`, `Horizon`, `Freshness`,
`Deadline` are durations. They are large enough for every mutant `PROJECT.json` lists to be found out.

Processes with their callers are interchangeable: runs that check safety only declare that symmetry (`Alike`,
`MCSymmetry`) and count states up to it. `CHECK_DEADLOCK FALSE` because a system whose calls are spent has finished.

### Fairness

* `together`: a caller that can take a step is not starved. A resolved promise's continuation is run, a store
  call resolves or rejects, and an HTTP exchange has a deadline (`githubClient.ts:30`), hence
  `SendTimesOut`. Nothing is assumed of the provider: a request may be in flight for ever. The condition is
  `WF_vars(Step(c))` with its ENABLED written out as `Runnable(c)`.
* `recovery`: `WF` on `RunOne(w)` (timers start every worker again and again) and on `LeaseLapses(r)` (the
  database clock runs). Nothing is assumed of crashes, pauses or the executor's effect: `Land` need not happen.
* `background`: each host's timer ticks (`[]<>` of `Tick(w)`, always possible, so the same as `WF`), next checks and back-offs fall due and leases lapse. Deadlines and people
  need never come. `EventSettles` also needs that posts that failed and attempts lost to crashes do not exceed `AttemptLimit` together.

## 4. The properties

| Property | What it says | Run | Proved by |
|---|---|---|---|
| `CertaintyIsEvidenced` | a signed claim has current evidence for it, and none against it | floors | `CertaintyTheorem` |
| `AuthorizationFitsClaim` | retry, continuation and directive only where the claim permits | floors | `AuthorizationTheorem` |
| `FloorsOnlyTighten` | no clamp widens a proposal | floors | `TighteningTheorem` |
| `FloorsConverge` | flooring the signed resolution again changes nothing | floors | `ConvergenceTheorem` |
| `AdaptersTellTheTruth` | what an Okta or Stripe claim says held at some instant while it was read; what is called not sent was not | floors | `AdaptersTheorem` |
| `EngineHolds` | the sandbox's state, resolutions and dispatches fit each other among callers that stop; a misbehaving spec is clamped | floors | `EngineTheorem` |
| `ShadowAgrees` | Shadow blocks what control would have blocked, over the same facts | floors | `ShadowTheorem` |
| `NotSentIsTrue` | a row that says `definitely_not_sent` is right about every attempt | dispatch | `NotSentTheorem` |
| `AtMostOneMutation` | a GitHub mutation leaves at most once, ever | dispatch | `AtMostOnceTheorem` |
| `NotSentRecordIsTrue` | the not-sent record in the ledger is right | dispatch | `NotSentRecordTheorem` |
| `OneDispatcher` | one caller dispatches an action, and its row says `attempted` | dispatch | `OneDispatcherTheorem` |
| `RetryClaimIsCurrent` | a second claim rests on the latest decision over the whole ledger | dispatch | `RetryCurrencyTheorem` |
| `ImplementsConsequence` | the runtime refines `Consequence` | dispatch | `ConsequenceTheorem` |
| `ContinuationIsCurrent` | a dependent claim rests on the current decision of its source | dependent | `ContinuationTheorem` |
| `CompensationIsSingle` | one compensating request; `compensated` is true and stays true | reference | `CompensationTheorem` |
| `VerifiedIsTrue` | `verified` means that this action's mutation landed | reference | `VerifiedTheorem` |
| `EveryCallReturns` | every call ends, also one that awaits another's dispatch | together | |
| `SentAtMostOnce` | a recovery's executor is called once, and once it was the row never says otherwise | recovery | `SentOnceTheorem` |
| `CompletedIsTrue` | what is stored or told as a completed recovery took effect | recovery | `CompletedTheorem` |
| `OnlyOwnersSettle` | a worker whose row was taken over changes nothing | recovery | `OwnersTheorem` |
| `ImplementsOneSend` | recovery refines `OneSend` | recovery | `PromiseTheorem` |
| `ClaimedSettles` | a row somebody claimed is settled in the end | recovery | |
| `KeepsLooking` | automatic reconciliation does not strand | background | |
| `SuppressionQuiesces` | a suppression really ends the automatic work | background | |
| `OverdueEscalates` | an action unresolved past its deadline gets a human review | background | |
| `RequestIsAnswered` | a reobservation somebody asked for is answered or handed back | background | |
| `EventSettles` | a webhook event is delivered or given up | background | |
| `BudgetHolds` | the admitted actions, and the admitted money, stay within every budget in every window | governance | `BudgetTheorem` |
| `FreezeStops` | nothing is admitted that a committed freeze covers | governance | `FreezeTheorem` |
| `RunsOnce` | a keyed command takes effect once, for one request | governance | `KeyTheorem` |
| `EvidenceAdvances` | the newest observation of each provider is the fact; no later evaluation rests on older ones | governance | `EvidenceTheorem` |
| `ObservedOnce` | a retried, raced or replayed push counts once, an answered nonce once | governance | `ObservedTheorem` |
| `StagesInOrder` | GitHub's intent follows a resolution that found the suspension | governance | `StagesTheorem` |
| `AccountsHold` | one Google subject is one user; a link works once, while the password it was sent for is the password | governance | `AccountsTheorem` |
| `AuthorityHolds` | a grant says what was the case and is used once; an action is dispatched under the policy and mode its submission read | governance | `AuthorityTheorem` |
| `ReadyIsVerified` | readiness, of a connection, of each effect listed and of a workload shown as protected, is said of a credential verified and not revoked | governance | `ReadyTheorem` |

The type invariants are all proved (`TypesTheorem`, `RuntimeType`, `RecoveryType`, `BackgroundTypes`, `AdmissionType`, `EnvironmentTypes`);
the runs that list one check it as well. The theorems also show
`ReceiptIsCurrent` (the receipt of a consumed lease was current; `ReceiptTheorem`), `DeliveryHolds` (a delivered event was accepted by its
receiver, one given up was tried as often as promised; `DeliveredTheorem`), `AnswersHold` (a completed re-observation was answered on
record; `AnsweredTheorem`), `OnlyOwnersSend` (a mutation leaves by the owner of its attempt, after its lifecycle says so;
`OnlyOwnersTheorem`), `Onward` (no step puts an older resolution in place of a newer one, or takes back a number, an attempt or a plan;
`OnwardTheorem`), `EndsForGood` (an ended webhook event stays as it ended; `EndedTheorem`), `StaysQuiet` (what a suppression ended does
not start again while it lasts; `QuietTheorem`), `InheritedIsSatisfied` (the one case in which Shadow and control differ, and how;
`InheritedTheorem`), that the authority in SQL is never more than the application's (`SqlImpliesApplication`) and that a
policy never widens what the runtime decided (`PolicyOnlyNarrows`).

## 5. The proofs

*Assumptions.* Those the modules name. Callers, processes, workers, actions, keys and budgets are arbitrary sets, and
the bounds arbitrary numbers. The theorems about the boundary assume `GitHubReadable`: the
provider is GitHub and no answered mutation is unreadable (`ContractErrors = FALSE`).
Without the second they are false, which is the first finding; with an idempotent
provider a second mutation is permitted and harmless. Amounts and budgets are natural numbers or absent (`AdmissionBudgets`,
`AdmissionRequests`: `admission.ts:255`, PR:1989), and keys and callers are finite sets where something is counted. Of its rows
`Governance` assumes that none equals the null that stands for "no row" (`GovernanceNull`), that the accounts there are
were created in an order (`GovernanceMails`), that the hourly limit of links is at least one (`GovernanceCallers`), and
that a reference says whose it is and no failed probe is called "ready" (`GovernanceReferences`).

*Floors.* A decision is `Settled` for a state when no control floor would change it.
`SafetyFloorsProofs` shows that the epistemic floor is idempotent on the records it
kept (`EpistemicIdempotent`), that one pass of the control floors settles a decision
(`FloorSettles`), and that the boundary floor keeps it settled (`BoundaryKeepsSettled`). In
`DerivationProofs` this is the inductive invariant of `Derivation` (`DerivationSettled`);
certainty, authorisation and convergence follow from it, tightening from what the floors are
shown never to grant. Convergence is not obvious: the boundary floor runs after the two passes
and could bring back what they had clamped.

*Engine.* Only the compare-and-set of the lifecycle serialises the resolvers of the sandbox; a slow one saves what it computed
from an older ledger. `EngineInv` says what does not age:

* `LifecycleOK`: there is a dispatch exactly when the lifecycle is past "prepared", and then a plan;
* `RecordsOK`: records of an undone effect come after one that found it wrong;
* `ResolverOK`: of each resolver, what it knows where it stands. A draft in its hands is `Clamped`: it claims and permits no more than
  the records it was made from carry, which are a prefix of the ledger, so that more records take nothing from it;
* `SavedOK`: the same of what was saved, and an action that ended has a resolution that may end it.

`ResolvedClamped` is where the floors come in: whatever state and decision a spec proposes, what they leave of it is clamped.

*Adapters.* "Not sent" is a matter of places: `SendInv` says that a worker that stands before the request, or reports that it never
sent, holds an attempt whose request is still "none". Claims are a matter of time. A read takes up to five requests, and no instant need have looked
as the parts do together, so `ReadInv` says of a worker amid a read (`ViewOK`) which of its parts already fix what was the case: the user
of Okta alone; of a refund the charge when it was empty, or else the refunds; of a capture the payment, unless refunds turn up, since
a refund is never taken back. From there it goes into the snapshot (`Claimed`), the ledger (`Listed`) and
the claim (`ClaimOK`, by `ReadingFloored`: the floors add no certainty).

*Shadow.* Two specs work out one claim from two ledgers: Shadow's is made from a caller's report, the adapter's from what it reads. Neither ledger
needs enumerating. Of each the last snapshot decides (`ReadIsLast`), also with any number of roles in a repository. A snapshot falls into
one of three classes (unsupported, matched, missed; for Stripe paid or unpaid), each class has one outcome after the floors (`MatchedOutcome`,
`MissedOutcome`, `PaidOutcome` and the others), and the snapshots made of one case are of the same class (`OktaAlike`, `GitHubAlike`, `StripeAlike`). Where
they are not, for a GitHub role held only through a team, `InheritedTheorem` says what each of the two answers.

*Boundary.* `TypeInv` is type correctness with `JobsOK`, which says which actions and attempts a caller
at each point holds. `NotSentIsTrue` is not inductive: a claim in somebody's hands may be taken
away, and the status is compared without a token. `DispatchInv` adds

* `Row`: what each dispatch status says about attempts and requests sent;
* `Caller`: what a caller standing at each step of a dispatch knows of its attempt;
* `DistinctClaims`: no two callers hold the same attempt;
* `FirstUnsent`: the not-sent record implies that the first attempt did not leave.

There is one step per action, each with one step per conjunct it can disturb. Why two concurrent retries
of one decision cannot both send: whoever gets as far as the claim of a retry has read the proof that the first
attempt ended without sending. That stays true (`FirstUnsent`), so all there can still be sent is the one further
attempt the budget leaves, whichever of the two claims it.

*Refinement.* `DispatchProofs` also maps every step to one of `Plan`, `Open`, `Cross`, `ProveUnsent` or to a
stutter: `ClaimDispatch` opens, `Send` crosses, `SetNotSent` and `StealClaim` prove unsent. The
steps that touch none of the mapped variables are shown once to be unseen.

*Currency.* A retry reads the resolution, looks at the provider, compares the ledger, checks the
boundary and only then claims; a dependent commit reads its source's resolution an await before its claim. Why
comparing sequence numbers in the claim is enough is `CurrencyInv`:

* `Books`: a saved resolution's number was drawn from the row's counter, so it never exceeds it;
* `Recalls`: what a caller remembers under a number is what is saved under that number, or something
  with a higher one is saved by now;
* `Entering`, `Claiming`: what a caller at each point before the claim has established.

`Onward` names what no step takes back (resolutions are only replaced by higher numbers,
counters and lifecycles only grow; `OnwardTheorem`) and `StepOnward` shows it of every step, so that what is claimed of
a caller stays true while others move (`Stays`) and each action is examined for its own caller alone.
When the claim finds `row.sequence` equal to the number recalled, the two bounds squeeze
`saved.sequence` between them, and what was recalled is what is saved. `RetryCurrencyTheorem` needs no
assumption and covers both providers. `ContinuationTheorem` assumes that actions with a guarded commit are
not recovered: without that it is false, which is the third finding. `OnlyOwnersTheorem`
combines `CurrencyInv` with `DispatchInv`.

*Recovery.* Leases exclude nobody: a worker may wake after its lease and still run. The journal does.
`RecoveryInv` says of each row what its journal knows of its sends (`RowOK`: a row that says "not sent" was never
sent), of each worker what the place it stands at says of its row (`JobOK`: who is about to send moved the journal, under the
row's current token), and that at most one worker is about to send each row (`OneSender`). Begin is the
one statement that moves a journal from "unsent", and only once. `SentOnceTheorem` and
`CompletedTheorem` follow; `OwnersTheorem` is the same invariant over a step; `PromiseTheorem` maps begin to
`Open`, the executor's call to `Send`, a crash in between to `Forfeit`, and every other step to a stutter.

*Background.* A number for a webhook attempt is the count of the attempts on record plus one, read when the event is claimed, and recorded without a
token; so numbers may run ahead of the tries or collide. `DeliveryInv` (`BackgroundProofs`) bounds by how much. A worker that posts without
holding the event's live claim is `Loose`. Becoming loose costs a fault, and whatever is recorded by a loose worker was paid for by then: tries
and loose workers together stay within the faults of the number the holder has (`LooseOK`). Hence an event that is still queued has been tried less
often than `GiveUpAt` plus the faults, every number fits the table (`DeliveriesAssumption`), and "given up" is said only after `GiveUpAt` recorded tries.
For re-observations (`UnresolvedInv`), whoever stands before completing a request has recorded the transition first, and a request is handed
to a human only when its claims are used up, since each claim counts one and only a reviewer starts the count anew.

Both invariants bear a property of steps. An event has no owner once it ended (`DeliveryInv`), so a worker that lost its claim records its attempt and leaves
the status alone: `EndedTheorem`. And a job that a suppression removed comes back only by way of an insert that was selected before:
once none of these and no host at a job is left (`Quiesced`), no sync, paused host or lapsed lease brings one back: `QuietTheorem`, the safety
half of `SuppressionQuiesces`. That it does get quiet is left to the run.

*Admission.* A transaction that holds the environment's authority row excludes every other one and every freeze. So a
decision that is about to commit is still the one that would be made at that instant (`DecisionsOK`, of which `Clear` is the
content), which is `FreezeTheorem`. For budgets the window moves with the clock, and a transaction's `now()` may be older than
the clock: the invariant (`BudgetsEver`, actions and amounts) bounds the admissions in the window of *every* instant, not of the
present one. What was admitted is a fold over a finite set, and lemmas about folds need induction. `TotalIsSpent` says instead that the
sum of amounts is the number of their units, the cardinality of a finite set of pairs (`Units`), and cardinalities have their theorems:
admitting one more action adds its own units and no other.

*Truth of claims.* `VerifiedTheorem` and `CompensationTheorem` rest on `TruthInv`, which follows a claim from the provider to the
saved resolution, for either provider:

* `Grounded`: of every action, the object is its own only if a request landed; its ledger records "applied" only if one landed and "undone"
  only if the one compensation was issued and took effect (`LedgerTrue`); its saved resolution claims no more than that (`Founded`); a
  compensation is issued only under its claim; attempts not yet claimed were never issued (`Fresh`);
* `Carried`: the same of the report or outcome a caller carries from the provider towards the ledger, with what the callers in the dispatch
  and compensation protocols know; a caller anywhere else carries nothing (`Blank`);
* `Exclusive`: no two callers are about to issue the same attempt, or to undo the same action.

That an outcome derived from the ledger claims only what the ledger records is `FlooredClaim`: the floors never turn a proposed
state into "verified" or "compensated".

*The control plane.* `GovernanceProofs` is about `SpecAll`, the specification the run `governance` checks. It follows one part at a time, and
the steps of the other parts leave a part's tables alone. There is one inductive invariant for each.

* Keyed commands (`KeyInv`): whoever reserved a key is its one owner until it is released or completed (`Owners`); what took effect is of the
  body the row names, and answers tell only of what took effect (`Happened`).
* Observations (`ReportInv`): the unique index on events makes whoever inserted an event the only one who records and links it (`OneRecorder`,
  `Records`), also when the pusher dies in between; a nonce is no longer open once an answer to it counts (`Counted`, `Taken`).
* Departures (`RunInv`): where the executor stands says which actions exist and what their resolutions say, also after a crash, when the
  next executor starts from the stage that was saved.
* Outcomes (`EvidenceInv`): an evaluator that passed the compare-and-swap judges from facts no older than those of the last
  evaluation (`Judges`, `Advancing`); what is signed names an evaluation that exists (`Signs`, `Attested`); at most one instance is live (`OneLive`).
* Signing in (`SignInv`): a binding that was ever made stays the subject's (`Held`), so that the unique indexes decide between
  callbacks that resolved the same person from different reads (`OneToOne`, `CallOK`).
* Passwords (`PasswordInv`): a link is consumed by the statement that also makes its change possible (`LinkOK`, `ChangersOK`);
  links of an hour exceed the limit by at most the requests that had been counted and not issued (`LimitOK`).
* Grants (`GrantInv`) and bindings (`BindingInv`): what a row says was true when it was signed or bound, and what a bearer or a submitter has checked by the point
  where it stands.
* Connections (`ConnectionInv`): what a request has found is a fact of the reference it read (`OfReference`, `FoundOf`), so that a probe of one credential
  never makes another one ready (`Verified`).
* Leases (`LeasingInv`): a number is saved once, after it was drawn (`DrawnOK`), so that the receipt a client carries stays one of a saved
  resolution, no earlier than the one it was authorised for (`Receipt`). `LeaseIsOfCurrent`, of the authorised one, is the finding on leases;
  `ReceiptTheorem` says what is true: the receipt was current when the lease was consumed, and the authorised resolution may be earlier.

`EnvironmentInv` is all of them with the invariant of `AdmissionProofs`; the types of every table follow (`EnvironmentTypes`). The
last also gives the budgets and the freeze beside everything else (`AdmittedTheorem`), since the other parts share with admission only the
clock, of which it asks nothing.

*Only model-checked.* Liveness (`EveryCallReturns`, `ClaimedSettles` and the five properties of `background`) is beyond the
provers used here. Every invariant and every property of steps that a passing run checks is proved.

## 6. Findings

1. **An unreadable answer counts as not sent** (run `contract_error`).
   `failureResult` (`providers/github/githubProvider.ts:206`) calls every error that is not a
   `GitHubTransportError` definitely not sent. `FetchGitHubTransport` throws
   `GitHubContractError` for an oversized or malformed answer, after the mutation has been
   answered. `docs/providers/github-repository-permission.md:122` says that a retry needs a durable
   proof that the request did not cross the send boundary. Okta's and Stripe's adapters do not
   have the defect: `AdaptersTellTheTruth` holds of them.
2. **A fact that recurs is not recorded again** (run `stale_read`). Reads of
   present, absent, present, absent leave `satisfied_unattributed` as the claim: the second
   absent snapshot repeats a `provider_event_id`, `append` returns the first one, and that one is
   superseded. Line 99 of the same document says that the state requires a current read.
3. **Recovery forgets the continuation guard** (run `recovered`). `recover` dispatches an action that was never
   dispatched without the guard its `commit` had. `docs/gate6-offboarding-verification.md:9`
   says that its claim can be acquired only while the source still has the expected resolution.
4. **A lease is issued for a superseded resolution** (run `stale_lease`). The route authorises resolution N and then reads
   the latest receipt, which may be N+1; the lease names N with the sequences of N+1
   (`product/server.ts:1283`, PR:655), and consumption compares those sequences only.
   `docs/product/api.md:18` promises a lease "bound to the current resolution and evidence sequences".

## 7. Observations

What the models showed of the code's edges without contradicting a property stated above. Each is reachable in the module
named; the models follow the code.

*Submission* (Admission, Binding, CanonicalAuthority)
* `authorizeConsequence.ts:150` passes the money of the window as `amount_minor_in_window`, cast; the Autonomy Line reads
  `amount_in_window_minor`, so the sum is NaN and its aggregate limit never binds. The count of the window is
  read after the action's own admission and adds one again.
* A retried key that was admitted before a freeze replays "admitted" and may dispatch under it; a key the freeze refused stays refused
  after it. Replays compare environment, effect and key only. Actions that are held later have consumed their budget.
* No lease, recovery claim or recovery gate asks for a freeze, although PR:638 says that Emergency Freeze restricts both statements.
* A policy or mode that changes between a submission's read and its binding leaves the action recorded and bound but never
  dispatched, and later retries of the key are refused while the two differ, replays of a settled action among them.

*Recovery* (Recovery)
* The claim's UPDATE re-checks the claim and not the status: a row that was cancelled or parked in between is taken up again.
* A crash after `recordRecoveryDispatch(completed)` leaves a completed recovery of which no event, intervention or webhook tells.
* Two resolutions in succession may each send the same compensation. Production registers no executor.
* Under `approval_required`, a person's `authorize_compensation` is offered and always refused.
* `workerLease.ts:19-22` says that an expired worker can complete nothing; the statements compare tokens only, so that a worker
  whose lease lapsed, but whose row nobody took, completes it.

*Aftercare and delivery* (Aftercare, Webhook)
* A crash between reconciling and `recordResolutionTransition` loses the transition and its `effect.resolved` event.
* `sync`'s snapshot may bring a suppressed job back for a moment, against `scheduler.ts:13-15`; the next tick removes it.
* A webhook attempt is recorded without a token and may be numbered twice; only what it does to the event is guarded.

*Outcomes, evidence, grants* (Outcomes, Ingest, Grants, Continuation)
* A receipt is signed from two reads and may pair a verdict with the next sequence's invariants.
* Two authoritative sources that disagree become "satisfied" when one of their facts expires. An outcome that requires nothing is satisfied.
* A crash between the insert of a pushed observation and its fact leaves it without a fact; its replay answers with none.
* Grants are validated on submission without the resource (`authorizeConsequence.ts:129`) and are therefore never valid there; nothing in
  the product consumes or revokes one. The refusal of a superseded contract (`authorityRepository.ts:353`) cannot happen: an instance's version never changes. Consumption rechecks neither the sequence nor the approval.

*Commands, accounts, connections* (Idempotency, SignIn, Passwords, Connections)
* A crash during a keyed command leaves its key in flight; nothing prunes it.
* A login that compared the old password before a change inserts its session after the trigger ended the others. Requests that
  race leave two live links and exceed the hourly limit by the racers. A crash between consuming and changing spends the link.
* A failed workspace creation spends the hand-off of a sign-up.
* Configuring a disconnected integration leaves it configured and disconnected: readiness says no, admission accepts, against PR:1152-1154.
* An attestation outlives the credential it was made about. The list of effects and the go-live answer read the enabled effects twice: a workload
  whose effect is disabled in between is still shown as protected, on a connection whose readiness says "not enabled".

*Claims* (Adapters, Sandbox, Shadow)
* A GitHub role held only by inheritance satisfies Shadow and not the adapter, against PR:846-847; `ShadowAgrees` leaves that case out and
  names it (`HeldByInheritance`): by `InheritedTheorem` a Shadow that could read then always says "satisfied" and the adapter "not applied". For Stripe the two may name different states, with the same permissions.
* An observation that failed supersedes the last snapshot and an unchanged one after it is a duplicate: the action stays pending until something changes.
* In the sandbox a slow resolver may save its resolution after a faster one ended the action; a crash after `prepare` leaves the action for good.

## 8. Not modelled

* HTTP routing, rendering, the dashboard, the public site, the SDK, email and the contact forms: what they change is changed by the components above.
* Canonical encoding, hashing, signing, encryption, schema validation: functions over bytes and strings.
* Metrics, reports and operational health: read-only aggregation in SQL. `observationSemantics.ts`: pure thresholds without a caller.
* Process readiness: a conjunction of what is read apart. Of the go-live answer, agent, mode, policy and freeze are taken to permit it (`AskGoLive`).
* Outcome contracts and packs: a version is drawn by INSERT...SELECT with a retry and immutable once active. The failure lab and live verification scripts are tests.
* Shadow's exposure windows: no production caller. (A second "complete" signal inserts itself and then fails; closing may close a window opened after its read.)
* The administration of budgets (they are fixed for a run), of webhook endpoints, and DNS pinning.
* The scripted pending and wrong-permission scenarios of the runtime's reference provider; those of the sandbox are in `Sandbox`.
* An Okta user that is between two states under Shadow, whose report cannot express it; everybody's last way into an account: every account has a password.
* Deployments without a credential store, where no customer's reference is stored and `configureIntegration` asks nobody whose it is; and mode
  changes without entitlements: the product's only caller of `setEnvironmentMode` always passes them (`server.ts:1413`); only the demo's seed does not.
* Parts that a fault stands for: DPoP and token refresh, pagination limits, identity checks of a snapshot, form encoding, header parsing.

## 9. What is left

In order of what is at stake:

1. `Recovery` with two resolutions in progress at once in one run, and `Offboarding` composed with two actions of `NystRuntime` in place of their abstraction.
2. Outcome contract versions, budget administration and exposure windows.
