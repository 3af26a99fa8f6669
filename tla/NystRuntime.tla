---------------------------- MODULE NystRuntime -----------------------------
(***************************************************************************)
(* NystRuntime: commit, recover, reconcile, retry and compensate over the  *)
(* durable stores, run by concurrent callers on several hosts that share   *)
(* the stores and may crash.  Each await of the code is a step: a store    *)
(* call is atomic, everything between two of them interleaves.  The        *)
(* provider is the environment: a request that left the process lands or   *)
(* is dropped later, or never.                                             *)
(***************************************************************************)
EXTENDS GitHubEffect, ReferenceEffect

CONSTANTS
    Callers,         \* requests being served
    Hosts,           \* runtime processes, each with its own memory
    HostOf,          \* the process a caller runs in
    Actions,         \* actions, one per business identity
    Commands,        \* the <<operation, action>> pairs callers may ask for
    Source,          \* the action whose goal an action's commit depends on, or NoAction
    NoAction,
    Provider,        \* "github" or "reference"
    ContractErrors,  \* whether an answered mutation may be unreadable to the GitHub client
    MaxCalls, MaxCrashes, MaxFaults, MaxChanges     \* bounds, see Limits

Operations == {"commit", "recover", "reconcile", "retry", "compensate"}

ASSUME HostAssumption == HostOf \in [Callers -> Hosts]
ASSUME CommandAssumption == Commands \subseteq Operations \X Actions
ASSUME SourceAssumption == Source \in [Actions -> Actions \union {NoAction}]
ASSUME NoActionAssumption == NoAction \notin Actions
ASSUME ProviderAssumption == Provider \in {"github", "reference"}
ASSUME ContractErrorsAssumption == ContractErrors \in BOOLEAN
ASSUME BoundAssumption == {MaxCalls, MaxCrashes, MaxFaults, MaxChanges} \subseteq Nat

Idempotent  == Provider = "reference"
Compensable == Provider = "reference"
Outcome(l)  == IF Provider = "github" THEN GitHubOutcome(l) ELSE ReferenceOutcome(l)

Attempts == 1..AttemptBudget

VARIABLES
    \* the durable stores
    lifecycle,       \* ActionRecord.internal_state
    ledger,          \* the evidence of each action
    row,             \* its RuntimeState
    saved,           \* its resolution with the highest sequence
    \* the processes
    job,             \* what each caller is doing
    owner,           \* activeDispatches: the attempt a host's live owner dispatches, or 0
    \* the provider
    request,         \* what became of the mutation each attempt sent
    resource,        \* what the provider holds
    elapsed,         \* the consistency window of the action has passed
    undone,          \* compensating requests issued
    spent            \* how much of each bound is used

store   == <<lifecycle, ledger, row, saved>>
process == <<job, owner>>
world   == <<request, resource, elapsed, undone>>
vars    == <<lifecycle, ledger, row, saved, job, owner, request, resource, elapsed,
             undone, spent>>

Limits == [calls |-> MaxCalls, crashes |-> MaxCrashes,
           faults |-> MaxFaults, changes |-> MaxChanges]

Spend(budget) == /\ spent[budget] < Limits[budget]
                 /\ spent' = [spent EXCEPT ![budget] = @ + 1]

-----------------------------------------------------------------------------
NoOutcome == [state |-> "none"]
NoReport  == [fact |-> "none"]

Idle == [pc |-> "idle", op |-> "none", action |-> NoAction,
         attempt |-> 0,        \* the dispatch claim it holds, or saw
         want |-> 0,           \* the resolution it was called with
         sequence |-> 0,       \* the resolution sequence it relies on, or saves under
         evidence |-> 0,       \* the evidence sequence of that resolution
         prior |-> 0,          \* how much of the ledger observe is handed
         report |-> NoReport,  \* the evidence to append
         unsent |-> FALSE,     \* the adapter says nothing was sent
         outcome |-> NoOutcome]

NoRow == [status |-> "absent", attempts |-> 0, token |-> 0,
          compensation |-> "none", sequence |-> 0]

Init ==
    /\ lifecycle = [a \in Actions |-> "absent"]
    /\ ledger = [a \in Actions |-> <<>>]
    /\ row = [a \in Actions |-> NoRow]
    /\ saved = [a \in Actions |-> [sequence |-> 0, evidence |-> 0, outcome |-> NoOutcome]]
    /\ job = [c \in Callers |-> Idle]
    /\ owner = [h \in Hosts |-> [a \in Actions |-> 0]]
    /\ request = [a \in Actions |-> [n \in Attempts |-> "none"]]
    /\ resource = [a \in Actions |-> [present |-> FALSE, mine |-> FALSE, version |-> 0]]
    /\ elapsed = [a \in Actions |-> FALSE]
    /\ undone = [a \in Actions |-> 0]
    /\ spent = [b \in DOMAIN Limits |-> 0]

At(c, pc) == job[c].pc = pc
Become(c, j) == job' = [job EXCEPT ![c] = j]
Goto(c, pc)  == Become(c, [job[c] EXCEPT !.pc = pc])

(* The call goes on as reconcile(action): nothing it knew matters any more.*)
Reconciling(a) == [Idle EXCEPT !.pc = "normalize", !.op = "reconcile", !.action = a]
Reconcile(c) == Become(c, Reconciling(job[c].action))

(* The call returns or throws: either way it has no more effect.           *)
Return(c) == Become(c, Idle)

AppendTo(a, entry) == ledger' = [ledger EXCEPT ![a] = Appended(@, entry)]

(* Evidence that does not depend on what the provider holds.               *)
Plain(fact) == Report(fact, 0, 0)

(* What a read of the provider would report now, to an adapter that was    *)
(* handed the prior evidence.                                              *)
Read(a, prior, forceWindow) ==
    IF Provider = "github"
    THEN LET fact == GitHubSnapshot(resource[a].present, elapsed[a] \/ forceWindow)
         IN  Report(fact, 0, Superseding(prior, fact))
    ELSE Report(ReferenceRead(resource[a]), resource[a].version, 0)

-----------------------------------------------------------------------------
(* Entering the runtime                                                    *)

(* An action id is known to callers once the action exists; reconcile and  *)
(* compensate throw unless its dispatch plan does.  A retry, and a commit  *)
(* with a continuation guard, are called with the resolution then current. *)
Planned(a) == lifecycle[a] \notin {"absent", "intent_recorded"}

Call(c, op, a) ==
    /\ At(c, "idle")
    /\ <<op, a>> \in Commands
    /\ op # "commit" => lifecycle[a] # "absent"
    /\ op \in {"reconcile", "compensate"} => Planned(a)
    /\ op = "retry" => saved[a].sequence > 0
    /\ op = "commit" /\ Source[a] # NoAction => saved[Source[a]].sequence > 0
    /\ op = "compensate" => Compensable
    /\ Spend("calls")
    /\ Become(c, [Idle EXCEPT !.op = op, !.action = a,
            !.pc = CASE op = "commit"     -> "intent"
                     [] op = "recover"    -> "initialize"
                     [] op = "reconcile"  -> "normalize"
                     [] op = "retry"      -> "current"
                     [] op = "compensate" -> "claim_undo",
            !.want = IF op = "retry" THEN saved[a].sequence
                     ELSE IF op = "commit" /\ Source[a] # NoAction
                     THEN saved[Source[a]].sequence ELSE 0])
    /\ UNCHANGED <<store, owner, world>>

(* recordIntent: one action per identity, whoever asks again.              *)
RecordIntent(c) ==
    LET a == job[c].action IN
    /\ At(c, "intent")
    /\ lifecycle' = [lifecycle EXCEPT ![a] = IF @ = "absent" THEN "intent_recorded" ELSE @]
    /\ Goto(c, "initialize")
    /\ UNCHANGED <<ledger, row, saved, owner, world, spent>>

(* Defective form: initialising again resets the status of the row.        *)
InitializeAgain(c) ==
    /\ At(c, "initialize")
    /\ row' = [row EXCEPT ![job[c].action].status = "not_started"]
    /\ Goto(c, "plan")
    /\ UNCHANGED <<lifecycle, ledger, saved, owner, world, spent>>

Initialize(c) ==
    LET a == job[c].action IN
    /\ At(c, "initialize")
    /\ row' = [row EXCEPT ![a].status = IF @ = "absent" THEN "not_started" ELSE @]
    /\ Goto(c, "plan")
    /\ UNCHANGED <<lifecycle, ledger, saved, owner, world, spent>>

(* ensureDispatchPlan: of two that prepare, the loser adopts the plan.     *)
EnsureDispatchPlan(c) ==
    LET a == job[c].action IN
    /\ At(c, "plan")
    /\ lifecycle' = [lifecycle EXCEPT ![a] = IF @ = "intent_recorded" THEN "prepared" ELSE @]
    /\ Goto(c, "route")
    /\ UNCHANGED <<ledger, row, saved, owner, world, spent>>

(* A commit whose goal rests on that of another action.                    *)
Guarded(c) == job[c].op = "commit" /\ Source[job[c].action] # NoAction

(* Recovery awaits a dispatch owner alive in its own process, and steals   *)
(* the claim of any other.                                                 *)
Route(c) ==
    LET a    == job[c].action
        live == owner[HostOf[c]][a]
    IN
    /\ At(c, "route")
    /\ IF row[a].status = "not_started"
       THEN Goto(c, IF Guarded(c) THEN "source" ELSE "claim")
       ELSE IF job[c].op = "recover" /\ row[a].status = "claimed"
       THEN Become(c, [job[c] EXCEPT !.pc = IF live # 0 THEN "await" ELSE "steal",
                                     !.attempt = IF live # 0 THEN live ELSE row[a].token])
       ELSE Reconcile(c)
    /\ UNCHANGED <<store, owner, world, spent>>

(* The continuation guard of a commit: the source's resolution is still    *)
(* the latest and allows dependent continuation.                           *)
CheckSource(c) ==
    LET s == Source[job[c].action] IN
    /\ At(c, "source")
    /\ IF /\ saved[s].sequence = job[c].want
          /\ saved[s].outcome.decision.continuation = "allowed"
       THEN Become(c, [job[c] EXCEPT !.pc = "claim", !.sequence = saved[s].sequence,
                                     !.evidence = saved[s].evidence])
       ELSE Return(c)
    /\ UNCHANGED <<store, owner, world, spent>>

-----------------------------------------------------------------------------
(* Dispatching                                                             *)

(* Defective form: the claim takes every status no owner has.              *)
AllowedUnclaimed(op) == {"not_started", "definitely_not_sent", "attempted"}

Allowed(op) == IF op = "retry" THEN {"definitely_not_sent", "attempted"} ELSE {"not_started"}

(* Defective forms: the guards left to the checks made before the claim.   *)
ContinuationUnchecked(c) == TRUE
RetryUnchecked(c) == TRUE

(* The guards of claimDispatch: nothing the decision rested on has moved.  *)
ContinuationCurrent(c) ==
    LET s == Source[job[c].action] IN
    Guarded(c) =>
      /\ saved[s].sequence = job[c].sequence
      /\ saved[s].outcome.decision.continuation = "allowed"
      /\ row[s].sequence = job[c].sequence
      /\ Len(ledger[s]) = job[c].evidence

RetryCurrent(c) ==
    LET a == job[c].action IN
    job[c].op = "retry" =>
      /\ row[a].sequence = job[c].sequence
      /\ Len(ledger[a]) = job[c].evidence

Claimable(c) ==
    LET a == job[c].action IN
    /\ row[a].status \in Allowed(job[c].op)
    /\ row[a].attempts < AttemptBudget
    /\ ContinuationCurrent(c)
    /\ RetryCurrent(c)

(* A caller that lost the claim: a retry throws, and so does a guarded     *)
(* commit that finds nothing dispatched; the others go on to reconcile.    *)
GivesUp(c) ==
    LET a == job[c].action IN
    \/ job[c].op = "retry"
    \/ Guarded(c) /\ row[a].status = "not_started"

AfterLostClaim(c) == IF GivesUp(c) THEN Idle ELSE Reconciling(job[c].action)

ClaimDispatch(c) ==
    LET a == job[c].action
        n == row[a].attempts + 1
        live == owner[HostOf[c]][a]
    IN
    /\ At(c, "claim")
    /\ IF Claimable(c)
       THEN /\ row' = [row EXCEPT ![a] =
                        [@ EXCEPT !.status = "claimed", !.attempts = n, !.token = n]]
            /\ Become(c, [Idle EXCEPT !.pc = "register", !.op = job[c].op, !.action = a,
                                      !.attempt = n])
       ELSE /\ Become(c, IF live # 0 THEN [job[c] EXCEPT !.pc = "await", !.attempt = live]
                         ELSE AfterLostClaim(c))
            /\ UNCHANGED row
    /\ UNCHANGED <<lifecycle, ledger, saved, owner, world, spent>>

(* activeDispatches.set, once the claim's await has returned.              *)
Register(c) ==
    /\ At(c, "register")
    /\ owner' = [owner EXCEPT ![HostOf[c]][job[c].action] = job[c].attempt]
    /\ Goto(c, "boundary")
    /\ UNCHANGED <<store, world, spent>>

(* Defective form: a finished claim still counts as held.                  *)
HoldsLastClaim(a, n) == row[a].attempts = n

HoldsClaim(a, n) == row[a].status = "claimed" /\ row[a].token = n

(* Defective form: the send certainty stored for the dispatch status.      *)
FinishWithCertainty(a, status) ==
    row' = [row EXCEPT ![a] =
              [@ EXCEPT !.status = IF status = "attempted" THEN "may_have_been_sent" ELSE status,
                        !.token = 0]]

FinishDispatch(a, status) ==
    row' = [row EXCEPT ![a] = [@ EXCEPT !.status = status, !.token = 0]]

(* The consequence boundary: an owner whose claim was taken stops here.    *)
CrossBoundary(c) ==
    LET a == job[c].action IN
    /\ At(c, "boundary")
    /\ IF HoldsClaim(a, job[c].attempt)
       THEN FinishDispatch(a, "attempted") /\ Goto(c, "dispatching")
       ELSE Goto(c, "rejected") /\ UNCHANGED row
    /\ UNCHANGED <<lifecycle, ledger, saved, owner, world, spent>>

EnterDispatching(c) ==
    LET a == job[c].action IN
    /\ At(c, "dispatching")
    /\ lifecycle' = [lifecycle EXCEPT ![a] = IF @ = "prepared" THEN "dispatching" ELSE @]
    /\ Goto(c, "send")
    /\ UNCHANGED <<ledger, row, saved, owner, world, spent>>

Reported(c, entry, unsent) ==
    Become(c, [job[c] EXCEPT !.pc = "report", !.report = entry, !.unsent = unsent])

(* The adapters' evidence of an exchange that failed, and of an answer.    *)
Failure == Plain(IF Provider = "github" THEN "transport" ELSE "ambiguous")
Answer  == Plain(IF Provider = "github" THEN "response" ELSE "answered")

(* GitHub's adapter reads before it writes: the goal is already there.     *)
SendNothingToDo(c) ==
    LET a == job[c].action IN
    /\ At(c, "send")
    /\ Provider = "github" /\ resource[a].present
    /\ Reported(c, Read(a, <<>>, FALSE), FALSE)
    /\ UNCHANGED <<store, owner, world, spent>>

(* What it read may have changed when it writes.  The reference provider  *)
(* has nothing to compare.                                                 *)
Revalidate(c) ==
    /\ At(c, "send")
    /\ Provider = "github" => ~resource[job[c].action].present
    /\ Goto(c, "write")
    /\ UNCHANGED <<store, owner, world, spent>>

(* The attempt ends before the mutation is issued.  The adapter knows it   *)
(* (a precondition changed, no credential), or an exchange that failed     *)
(* early leaves it saying "may have been sent".                            *)
SendStopped(c) ==
    /\ At(c, "send") \/ At(c, "write")
    /\ Spend("faults")
    /\ \/ Reported(c, Failure, TRUE)
       \/ Provider = "github" /\ Reported(c, Failure, FALSE)
    /\ UNCHANGED <<store, owner, world>>

(* The mutation leaves the process.                                        *)
Send(c) ==
    /\ At(c, "write")
    /\ request' = [request EXCEPT ![job[c].action][job[c].attempt] = "flying"]
    /\ Goto(c, "inflight")
    /\ UNCHANGED <<store, owner, resource, elapsed, undone, spent>>

(* The provider's answer arrives, or the deadline of the exchange passes.  *)
Respond(c) ==
    LET a == job[c].action IN
    /\ At(c, "inflight")
    /\ request[a][job[c].attempt] # "flying"
    /\ Reported(c, Answer, FALSE)
    /\ UNCHANGED <<store, owner, world, spent>>

SendTimesOut(c) ==
    /\ At(c, "inflight")
    /\ Reported(c, Failure, FALSE)
    /\ UNCHANGED <<store, owner, world, spent>>

(* FetchGitHubTransport rejects the answer it got (malformed JSON, too     *)
(* large) with an error failureResult takes for "definitely_not_sent".     *)
AnswerUnreadable(c) ==
    LET a == job[c].action IN
    /\ At(c, "inflight")
    /\ ContractErrors /\ Provider = "github"
    /\ request[a][job[c].attempt] # "flying"
    /\ Reported(c, Failure, TRUE)
    /\ UNCHANGED <<store, owner, world, spent>>

AppendReport(c) ==
    LET a == job[c].action IN
    /\ At(c, "report")
    /\ AppendTo(a, job[c].report)
    /\ Become(c, [job[c] EXCEPT !.pc = IF job[c].unsent THEN "unsend" ELSE "settle",
                                !.report = NoReport])
    /\ UNCHANGED <<lifecycle, row, saved, owner, world, spent>>

(* setDispatchStatus compares the status and no token.                     *)
SetNotSent(c) ==
    LET a == job[c].action IN
    /\ At(c, "unsend")
    /\ IF row[a].status = "attempted"
       THEN /\ row' = [row EXCEPT ![a].status = "definitely_not_sent"]
            /\ Goto(c, "unsent")
       ELSE /\ Goto(c, "caught")
            /\ UNCHANGED row
    /\ UNCHANGED <<lifecycle, ledger, saved, owner, world, spent>>

(* definitelyNotSentEvidence, after the status.                            *)
RecordNotSent(c) ==
    /\ \/ At(c, "unsent") /\ Goto(c, "settle")
       \/ At(c, "stolen") /\ Reconcile(c)
    /\ AppendTo(job[c].action, Plain("not_sent"))
    /\ UNCHANGED <<lifecycle, row, saved, owner, world, spent>>

(* A caught error becomes transport evidence.                              *)
RecordCaught(c) ==
    /\ At(c, "caught")
    /\ AppendTo(job[c].action, Plain("transport"))
    /\ Goto(c, "settle")
    /\ UNCHANGED <<lifecycle, row, saved, owner, world, spent>>

(* normalizeLifecycle, a transition a step, before a dispatch settles and  *)
(* before every reconciliation.                                            *)
Normalize(c) ==
    LET a == job[c].action IN
    /\ At(c, "settle") \/ At(c, "normalize")
    /\ IF lifecycle[a] \in {"prepared", "dispatching"}
       THEN /\ lifecycle' = [lifecycle EXCEPT ![a] =
                               IF @ = "prepared" THEN "dispatching" ELSE "observing"]
            /\ UNCHANGED job
       ELSE /\ Goto(c, IF At(c, "settle") THEN "settled" ELSE "list")
            /\ UNCHANGED lifecycle
    /\ UNCHANGED <<ledger, row, saved, owner, world, spent>>

(* The dispatch settles: the owner unregisters and those awaiting it in    *)
(* the same process resume.  Awaiting a rejected dispatch throws.          *)
Awaiting(c, h, a, n) ==
    At(c, "await") /\ HostOf[c] = h /\ job[c].action = a /\ job[c].attempt = n

(* Defective form: those awaiting the dispatch are forgotten.              *)
ReleaseForgetting(c) ==
    /\ At(c, "settled") \/ At(c, "rejected")
    /\ owner' = [owner EXCEPT ![HostOf[c]][job[c].action] = IF @ = job[c].attempt THEN 0 ELSE @]
    /\ Become(c, IF At(c, "settled") THEN Reconciling(job[c].action) ELSE Idle)
    /\ UNCHANGED <<store, world, spent>>

Release(c) ==
    LET h == HostOf[c]
        a == job[c].action
        n == job[c].attempt
        settled == At(c, "settled")
    IN
    /\ settled \/ At(c, "rejected")
    /\ owner' = [owner EXCEPT ![h][a] = IF @ = n THEN 0 ELSE @]
    /\ job' = [d \in Callers |->
         IF d = c
         THEN IF settled THEN Reconciling(a) ELSE Idle
         ELSE IF Awaiting(d, h, a, n)
         THEN IF settled THEN AfterLostClaim(d) ELSE Idle
         ELSE job[d]]
    /\ UNCHANGED <<store, world, spent>>

(* Defective form: the not-sent record is written whoever won the claim.   *)
StealRegardless(c) ==
    LET a == job[c].action IN
    /\ At(c, "steal")
    /\ IF HoldsClaim(a, job[c].attempt) THEN FinishDispatch(a, "definitely_not_sent")
       ELSE UNCHANGED row
    /\ Goto(c, "stolen")
    /\ UNCHANGED <<lifecycle, ledger, saved, owner, world, spent>>

(* recover takes the claim it read, unless it was finished since.          *)
StealClaim(c) ==
    LET a == job[c].action IN
    /\ At(c, "steal")
    /\ IF HoldsClaim(a, job[c].attempt)
       THEN FinishDispatch(a, "definitely_not_sent") /\ Goto(c, "stolen")
       ELSE Return(c) /\ UNCHANGED row
    /\ UNCHANGED <<lifecycle, ledger, saved, owner, world, spent>>

-----------------------------------------------------------------------------
(* Observing and resolving                                                 *)

(* The evidence known before the read, in reconcile ("list") and in the    *)
(* inline observation of retry ("relist").                                 *)
ListEvidence(c) ==
    /\ At(c, "list") \/ At(c, "relist")
    /\ Become(c, [job[c] EXCEPT !.pc = IF @ = "list" THEN "observe" ELSE "reobserve",
                                !.prior = Len(ledger[job[c].action])])
    /\ UNCHANGED <<store, owner, world, spent>>

Prior(c) == [i \in 1..job[c].prior |-> ledger[job[c].action][i]]

(* observe: one look at the provider.                                      *)
Observe(c) ==
    LET a == job[c].action IN
    /\ At(c, "observe") \/ At(c, "reobserve")
    /\ Become(c, [job[c] EXCEPT !.pc = IF @ = "observe" THEN "append" ELSE "reappend",
                                !.report = Read(a, Prior(c), ProvenNotSent(Prior(c)))])
    /\ UNCHANGED <<store, owner, world, spent>>

(* The look fails: the adapter reports it, or throws.  reconcile records   *)
(* what was thrown, retry does not.                                        *)
ObserveFails(c) ==
    /\ At(c, "observe") \/ At(c, "reobserve")
    /\ Spend("faults")
    /\ \/ \E fact \in {"transport"} \union
                      (IF Provider = "github" THEN ObservationFailures ELSE {}) :
            /\ fact = "transport" => At(c, "observe")
            /\ Become(c, [job[c] EXCEPT !.pc = IF @ = "observe" THEN "append" ELSE "reappend",
                                        !.report = Plain(fact)])
       \/ At(c, "reobserve") /\ Return(c)
    /\ UNCHANGED <<store, owner, world>>

AppendObservation(c) ==
    /\ At(c, "append") \/ At(c, "reappend")
    /\ AppendTo(job[c].action, job[c].report)
    /\ Become(c, [job[c] EXCEPT !.pc = IF @ = "append" THEN "derive" ELSE "recheck",
                                !.prior = 0])
    /\ UNCHANGED <<lifecycle, row, saved, owner, world, spent>>

(* deriveAndPersist: the evidence is read ...                              *)
Derive(c) ==
    LET l == ledger[job[c].action] IN
    /\ At(c, "derive")
    /\ Become(c, [job[c] EXCEPT !.pc = "floor", !.outcome = Outcome(l),
                                !.evidence = Len(l), !.report = NoReport])
    /\ UNCHANGED <<store, owner, world, spent>>

(* ... then the runtime row, for the dispatch-boundary floor ...           *)
FloorBoundary(c) ==
    LET a == job[c].action IN
    /\ At(c, "floor")
    /\ Become(c, [job[c] EXCEPT !.pc = "sequence",
                 !.outcome.decision =
                    ApplyDispatchBoundaryFloor(@, row[a].status, Idempotent, row[a].attempts)])
    /\ UNCHANGED <<store, owner, world, spent>>

(* ... then a sequence number is drawn, and the resolution is saved.       *)
NextResolutionSequence(c) ==
    LET a == job[c].action IN
    /\ At(c, "sequence")
    /\ row' = [row EXCEPT ![a].sequence = @ + 1]
    /\ Become(c, [job[c] EXCEPT !.pc = "save", !.sequence = row[a].sequence + 1])
    /\ UNCHANGED <<lifecycle, ledger, saved, owner, world, spent>>

SaveResolution(c) ==
    LET a == job[c].action IN
    /\ At(c, "save")
    /\ saved' = IF job[c].sequence > saved[a].sequence
                THEN [saved EXCEPT ![a] =
                        [sequence |-> job[c].sequence, evidence |-> job[c].evidence,
                         outcome |-> job[c].outcome]]
                ELSE saved
    /\ Return(c)
    /\ UNCHANGED <<lifecycle, ledger, row, owner, world, spent>>

-----------------------------------------------------------------------------
(* Retrying                                                                *)

(* requireCurrentResolution.                                               *)
RequireCurrent(c) ==
    LET a == job[c].action IN
    /\ At(c, "current")
    /\ IF saved[a].sequence = job[c].want
       THEN Become(c, [job[c] EXCEPT !.pc = "relist", !.sequence = saved[a].sequence,
                                     !.evidence = saved[a].evidence,
                                     !.outcome = saved[a].outcome])
       ELSE Return(c)
    /\ UNCHANGED <<store, owner, world, spent>>

AuthorizesRetry(outcome) ==
    /\ outcome.state = "not_applied"
    /\ outcome.decision.retry = "allowed"
    /\ outcome.decision.primary = "retry"

(* New evidence: derive again and refuse.  Otherwise the resolution must   *)
(* authorise the retry.                                                    *)
CheckRetry(c) ==
    LET a == job[c].action IN
    /\ At(c, "recheck")
    /\ IF Len(ledger[a]) # job[c].evidence
       THEN Become(c, [Reconciling(a) EXCEPT !.pc = "derive"])
       ELSE IF AuthorizesRetry(job[c].outcome)
       THEN Goto(c, IF Idempotent THEN "claim" ELSE "proof")
       ELSE Return(c)
    /\ UNCHANGED <<store, owner, world, spent>>

(* Without provider idempotency: a proven not-sent boundary.               *)
CheckNotSent(c) ==
    LET a == job[c].action IN
    /\ At(c, "proof")
    /\ IF row[a].status = "definitely_not_sent" THEN Goto(c, "claim") ELSE Return(c)
    /\ UNCHANGED <<store, owner, world, spent>>

-----------------------------------------------------------------------------
(* Compensating                                                            *)

(* Defective form: a claim nobody finished may be taken again.             *)
ClaimUnfinishedCompensation(c) ==
    LET a == job[c].action IN
    /\ At(c, "claim_undo")
    /\ IF row[a].compensation # "finished"
       THEN /\ row' = [row EXCEPT ![a].compensation = "claimed"]
            /\ Goto(c, "undo")
       ELSE Return(c) /\ UNCHANGED row
    /\ UNCHANGED <<lifecycle, ledger, saved, owner, world, spent>>

(* One compensation per action, ever: the claim is never given back.       *)
ClaimCompensation(c) ==
    LET a == job[c].action IN
    /\ At(c, "claim_undo")
    /\ IF row[a].compensation = "none"
       THEN /\ row' = [row EXCEPT ![a].compensation = "claimed"]
            /\ Goto(c, "undo")
       ELSE Return(c) /\ UNCHANGED row
    /\ UNCHANGED <<lifecycle, ledger, saved, owner, world, spent>>

(* The reference provider undoes an effect it attributes to the action and *)
(* throws otherwise; the answer may be lost, which throws as well.         *)
Compensate(c) ==
    LET a == job[c].action IN
    /\ At(c, "undo")
    /\ undone' = [undone EXCEPT ![a] = @ + 1]
    /\ IF resource[a].mine
       THEN /\ resource' = [resource EXCEPT ![a] =
                 [present |-> FALSE, mine |-> FALSE, version |-> @.version + 1]]
            /\ \/ Goto(c, "report_undone") /\ UNCHANGED spent
               \/ Return(c) /\ Spend("faults")
       ELSE Return(c) /\ UNCHANGED <<resource, spent>>
    /\ UNCHANGED <<store, owner, request, elapsed>>

AppendUndone(c) ==
    /\ At(c, "report_undone")
    /\ AppendTo(job[c].action, Plain("undone"))
    /\ Goto(c, "finish_undo")
    /\ UNCHANGED <<lifecycle, row, saved, owner, world, spent>>

FinishCompensation(c) ==
    /\ At(c, "finish_undo")
    /\ row' = [row EXCEPT ![job[c].action].compensation = "finished"]
    /\ Reconcile(c)
    /\ UNCHANGED <<lifecycle, ledger, saved, owner, world, spent>>

-----------------------------------------------------------------------------
(* Failures and the provider                                               *)

(* The process dies: its callers and its memory are gone.                  *)
Crash(h) ==
    /\ Spend("crashes")
    /\ job' = [c \in Callers |-> IF HostOf[c] = h THEN Idle ELSE job[c]]
    /\ owner' = [owner EXCEPT ![h] = [a \in Actions |-> 0]]
    /\ UNCHANGED <<store, world>>

(* The provider performs a mutation it received; a second one of the same  *)
(* operation id changes nothing at a provider that is idempotent.          *)
Land(a, n) ==
    /\ request[a][n] = "flying"
    /\ request' = [request EXCEPT ![a][n] = "landed"]
    /\ resource' =
         IF Idempotent /\ \E m \in Attempts : request[a][m] = "landed" THEN resource
         ELSE [resource EXCEPT ![a] =
                 [present |-> TRUE, mine |-> TRUE, version |-> @.version + 1]]
    /\ UNCHANGED <<store, process, elapsed, undone, spent>>

(* The request is refused by the provider, or lost on the way.             *)
Drop(a, n) ==
    /\ request[a][n] = "flying"
    /\ request' = [request EXCEPT ![a][n] = "dropped"]
    /\ UNCHANGED <<store, process, resource, elapsed, undone, spent>>

WindowElapses(a) ==
    /\ Provider = "github" /\ Planned(a) /\ ~elapsed[a]
    /\ elapsed' = [elapsed EXCEPT ![a] = TRUE]
    /\ UNCHANGED <<store, process, request, resource, undone, spent>>

(* Somebody else changes the object.                                       *)
ExternalChange(a) ==
    /\ Spend("changes")
    /\ resource' = [resource EXCEPT ![a] =
         [present |-> ~@.present, mine |-> FALSE, version |-> @.version + 1]]
    /\ UNCHANGED <<store, process, request, elapsed, undone>>

-----------------------------------------------------------------------------
Step(c) ==
    \/ RecordIntent(c) \/ Initialize(c) \/ EnsureDispatchPlan(c) \/ Route(c) \/ CheckSource(c)
    \/ ClaimDispatch(c) \/ Register(c) \/ CrossBoundary(c) \/ EnterDispatching(c)
    \/ SendNothingToDo(c) \/ Revalidate(c) \/ SendStopped(c) \/ Send(c)
    \/ Respond(c) \/ SendTimesOut(c) \/ AnswerUnreadable(c)
    \/ AppendReport(c) \/ SetNotSent(c) \/ RecordNotSent(c) \/ RecordCaught(c)
    \/ Normalize(c) \/ Release(c) \/ StealClaim(c)
    \/ ListEvidence(c) \/ Observe(c) \/ ObserveFails(c) \/ AppendObservation(c)
    \/ Derive(c) \/ FloorBoundary(c) \/ NextResolutionSequence(c) \/ SaveResolution(c)
    \/ RequireCurrent(c) \/ CheckRetry(c) \/ CheckNotSent(c)
    \/ ClaimCompensation(c) \/ Compensate(c) \/ AppendUndone(c) \/ FinishCompensation(c)

Environment ==
    \/ \E h \in Hosts : Crash(h)
    \/ \E a \in Actions : \/ \E n \in Attempts : Land(a, n) \/ Drop(a, n)
                          \/ WindowElapses(a)
                          \/ ExternalChange(a)

Next ==
    \/ \E c \in Callers : \/ \E op \in Operations, a \in Actions : Call(c, op, a)
                          \/ Step(c)
    \/ Environment

Spec == Init /\ [][Next]_vars

(* A live process runs its callbacks: no caller that can take a step is    *)
(* starved.  This is WF_vars(Step(c)) with its ENABLED spelled out: a      *)
(* caller is idle, awaits another's dispatch, or has a step to take.       *)
Runnable(c) == ~At(c, "idle") /\ ~At(c, "await")

Fairness == \A c \in Callers : []<>~Runnable(c) \/ []<><<Step(c)>>_vars

FairSpec == Spec /\ Fairness

-----------------------------------------------------------------------------
(* The type of every variable.                                             *)
Outcomes == [state : EffectStates, decision : ControlDecision]

Rows == [status : DispatchStatuses \union {"absent"}, attempts : 0..AttemptBudget,
         token : 0..AttemptBudget, compensation : {"none", "claimed", "finished"},
         sequence : Nat]

(* Where a caller stands: named for the await it is about to make.         *)
PCs == {"idle", "intent", "initialize", "plan", "route", "source", "claim", "await",
        "register", "boundary", "rejected", "dispatching", "send", "write", "inflight",
        "report", "unsend", "unsent", "caught", "settle", "settled", "steal", "stolen",
        "normalize", "list", "observe", "append", "derive", "floor", "sequence", "save",
        "current", "relist", "reobserve", "reappend", "recheck", "proof",
        "claim_undo", "undo", "report_undone", "finish_undo"}

Jobs == [pc : PCs, op : Operations \union {"none"}, action : Actions \union {NoAction},
         attempt : 0..AttemptBudget, want : Nat, sequence : Nat, evidence : Nat, prior : Nat,
         report : Entry \union {NoReport}, unsent : BOOLEAN,
         outcome : Outcomes \union {NoOutcome}]

TypeOK ==
    /\ lifecycle \in [Actions -> InternalStates]
    /\ ledger \in [Actions -> Seq(Entry)]
    /\ row \in [Actions -> Rows]
    /\ saved \in [Actions -> [sequence : Nat, evidence : Nat,
                              outcome : Outcomes \union {NoOutcome}]]
    /\ job \in [Callers -> Jobs]
    /\ owner \in [Hosts -> [Actions -> 0..AttemptBudget]]
    /\ request \in [Actions -> [Attempts -> {"none", "flying", "landed", "dropped"}]]
    /\ resource \in [Actions -> [present : BOOLEAN, mine : BOOLEAN, version : Nat]]
    /\ elapsed \in [Actions -> BOOLEAN]
    /\ undone \in [Actions -> Nat]
    /\ spent \in [DOMAIN Limits -> Nat]

(* The attempts of an action that issued its mutation.                     *)
Sent(a) == {n \in Attempts : request[a][n] # "none"}

(* The durable "definitely_not_sent" is knowledge: while a row says it, no *)
(* attempt of the action ever issued the mutation, whatever claims were    *)
(* stolen, crashed or raced (nystRuntime.ts 163-170, 368-375).             *)
NotSentIsTrue ==
    \A a \in Actions : row[a].status = "definitely_not_sent" => Sent(a) = {}

(* Without provider idempotency the mutation leaves the process at most    *)
(* once in the life of an action, over every commit, recovery and retry of *)
(* every process (the retry checks its proof in one await and claims in    *)
(* another, nystRuntime.ts 226-239).                                       *)
AtMostOneMutation == \A a \in Actions : \A m, n \in Sent(a) : m = n

(* The not-sent record of the ledger is about the first attempt and true   *)
(* of it: adapters read it back as proof (githubProvider.ts 97-103).       *)
NotSentRecordIsTrue ==
    \A a \in Actions :
        (\E i \in DOMAIN ledger[a] : ledger[a][i].fact = "not_sent") => 1 \notin Sent(a)

(* The runtime implements the abstract consequence protocol: what a row    *)
(* says of the boundary, and the attempts that really crossed it.          *)
Boundary(a) ==
    IF ~Planned(a) THEN "unplanned"
    ELSE IF row[a].status \in {"absent", "not_started"} THEN "closed"
    ELSE IF row[a].status = "definitely_not_sent" THEN "unsent"
    ELSE "open"

Abstract == INSTANCE Consequence
              WITH Budget   <- AttemptBudget,
                   boundary <- [a \in Actions |-> Boundary(a)],
                   attempts <- [a \in Actions |-> row[a].attempts],
                   crossed  <- [a \in Actions |-> Sent(a)]

ImplementsConsequence == Abstract!Spec

(* A claim is taken for an action planned before, and a second one only by *)
(* a retry whose resolution is, at the instant of the claim, the latest,   *)
(* drawn from the whole ledger and authorises it; without idempotency the  *)
(* boundary is still proven not crossed (memoryStore.ts 311-320).          *)
Claims(a) == row'[a].attempts # row[a].attempts

RetryClaimIsCurrent ==
    [][\A a \in Actions : Claims(a) =>
         /\ Planned(a)
         /\ row[a].attempts > 0 =>
              /\ saved[a].sequence = row[a].sequence
              /\ saved[a].evidence = Len(ledger[a])
              /\ AuthorizesRetry(saved[a].outcome)
              /\ ~Idempotent => row[a].status = "definitely_not_sent"]_vars

(* A dispatch in progress is the action's only one: no process sends while *)
(* the row belongs to another claim, so what an owner that was overtaken   *)
(* learns later cannot be taken for news of its successor.                 *)
Sending == {"dispatching", "send", "write", "inflight", "report", "unsend"}

OneDispatcher ==
    \A c, d \in Callers :
        /\ job[c].pc \in Sending => row[job[c].action].status = "attempted"
        /\ job[c].pc \in Sending /\ job[d].pc \in Sending
             /\ job[c].action = job[d].action => c = d

(* Reconciling never writes to the provider, and nobody sends but the      *)
(* caller that crossed the boundary of that attempt.                       *)
OnlyOwnersSend ==
    [][\A a \in Actions, n \in Attempts :
         request[a][n] = "none" /\ request'[a][n] # "none" =>
           \E c \in Callers : /\ job[c].action = a /\ job[c].attempt = n
                             /\ row[a].attempts = n
                             /\ lifecycle[a] \in {"dispatching", "observing"}]_vars

(* A dependent consequence is dispatched only while the resolution it was  *)
(* given for its source is still the latest, allows continuation and rests *)
(* on all evidence there is, all at the instant of the claim               *)
(* (nystRuntime.ts 108-139, memoryStore.ts 300-320).                       *)
ContinuationIsCurrent ==
    [][\A a \in Actions : Claims(a) /\ row[a].attempts = 0 /\ Source[a] # NoAction =>
         LET s == Source[a] IN
         /\ saved[s].sequence = row[s].sequence
         /\ saved[s].evidence = Len(ledger[s])
         /\ saved[s].outcome.state # "none"
         /\ saved[s].outcome.decision.continuation = "allowed"]_vars

(* One compensating request per action, whatever answer was lost, and      *)
(* "compensated" is claimed only when it was issued and nothing of the     *)
(* action's own is left at the provider, later retries included            *)
(* (nystRuntime.ts 264-276).                                               *)
CompensationIsSingle ==
    \A a \in Actions :
        /\ undone[a] <= 1
        /\ saved[a].outcome.state = "compensated" =>
             undone[a] = 1 /\ ~resource[a].mine

(* "verified" is claimed only when a mutation of this action landed.       *)
VerifiedIsTrue ==
    \A a \in Actions :
        saved[a].outcome.state = "verified" => \E n \in Attempts : request[a][n] = "landed"

(* What a reconciliation is about to derive does not say that the goal is  *)
(* reached when the read it has just made says it is not.  With one caller *)
(* that read is the newest there is (githubProvider.ts 164-176, 104-111).  *)
SatisfiedIsCurrent ==
    \A c \in Callers :
        /\ At(c, "derive")
        /\ job[c].report.fact \in {"absent_early", "absent_late"}
        => Outcome(ledger[job[c].action]).state # "satisfied_unattributed"

(* Every call returns or throws, also the one that awaits another caller's *)
(* dispatch, unless its process dies.                                      *)
EveryCallReturns == \A c \in Callers : ~At(c, "idle") ~> At(c, "idle")
=============================================================================
