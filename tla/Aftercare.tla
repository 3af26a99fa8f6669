----------------------------- MODULE Aftercare ------------------------------
(***************************************************************************)
(* What keeps looking at an action whose outcome is still unknown: the     *)
(* tick of the worker hosts (escalate the overdue, derive reconciliation   *)
(* jobs, run one of them, run one re-observation), the human review, and   *)
(* the suppression that stops automatic work once a human was asked.       *)
(* One action.  Hosts die and pause at any step; each statement is a step, *)
(* and sync's INSERT ... SELECT is two: what it selected, what it inserts. *)
(* Interventions, audit entries and heartbeats are written and never read  *)
(* here, and are left out.                                                 *)
(***************************************************************************)
EXTENDS Naturals

CONSTANTS
    Workers,         \* ticks that may overlap, of one host or several
    NoOne,           \* no claim token
    MaxAttempts,     \* claims of a re-observation (10 in the code)
    MaxFaults        \* crashes, pauses and lifted suppressions, in all

VARIABLES
    effect,       \* "pending": pending or unprovable; "settled": any other state
    nextCheck,    \* outcome_runtime.next_check_at: not set, ahead, or passed
    overdue,      \* the bound policy's reconcile_deadline_at has passed
    job,          \* the row of nyst_reconciliation_jobs
    suppressed,   \* there is a row of nyst_reconciliation_suppressions
    review,       \* status of the human review
    request,      \* the row of nyst_reobservation_jobs
    recorded,     \* a transition, with its webhook event, was recorded
    worker,
    spent

runtime == <<effect, nextCheck, overdue>>
vars    == <<effect, nextCheck, overdue, job, suppressed, review, request,
             recorded, worker, spent>>

Spend == spent < MaxFaults /\ spent' = spent + 1

-----------------------------------------------------------------------------
NoJob     == [kept |-> FALSE, due |-> FALSE, owner |-> NoOne, lease |-> "none"]
FreshJob  == [NoJob EXCEPT !.kept = TRUE]
NoRequest == [status |-> "none", owner |-> NoOne, lease |-> "none", attempt |-> 0]

Idle == [pc |-> "idle", task |-> "none", stop |-> FALSE, next |-> "none"]

Init ==
    /\ effect = "pending" /\ nextCheck = "ahead" /\ overdue = FALSE
    /\ job = NoJob /\ suppressed = FALSE
    /\ review = "none" /\ request = NoRequest
    /\ recorded = FALSE
    /\ worker = [w \in Workers |-> Idle]
    /\ spent = 0

(* Nothing is left to look at.                                             *)
Quiet ==
    /\ effect = "settled" /\ nextCheck = "none" /\ overdue = TRUE
    /\ job = NoJob /\ suppressed = FALSE
    /\ review = "none" /\ request = NoRequest
    /\ recorded = TRUE
    /\ worker = [w \in Workers |-> Idle]
    /\ spent = MaxFaults

At(w, pc) == worker[w].pc = pc
Become(w, j) == worker' = [worker EXCEPT ![w] = j]
Goto(w, pc) == Become(w, [Idle EXCEPT !.pc = pc])
Carry(w, pc) == Become(w, [Idle EXCEPT !.pc = pc, !.task = worker[w].task])

-----------------------------------------------------------------------------
(* escalateOverdueReconciliations: select, then one statement that opens   *)
(* the review, suppresses and deletes the job, whoever has claimed it.     *)
(* Defective form: only what still has a job is looked for.                *)
OverdueWithJob == overdue /\ effect = "pending" /\ review = "none" /\ job.kept

Overdue == overdue /\ effect = "pending" /\ review = "none"

ReadOverdue(w) ==
    /\ At(w, "idle")
    /\ Goto(w, IF Overdue THEN "escalate" ELSE "sync")
    /\ UNCHANGED <<runtime, job, suppressed, request, review, recorded, spent>>

Escalate(w) ==
    /\ At(w, "escalate")
    /\ Goto(w, "sync")
    /\ IF review = "none"
       THEN review' = "open" /\ suppressed' = TRUE /\ job' = NoJob
       ELSE UNCHANGED <<review, suppressed, job>>
    /\ UNCHANGED <<runtime, request, recorded, spent>>

(* The rest of sync.                                                       *)
(* Defective form: suppressions are not consulted.                         *)
DerivesUnconditionally == nextCheck # "none"

Derives == nextCheck # "none" /\ ~suppressed

ReadSync(w) ==
    /\ At(w, "sync")
    /\ IF Derives THEN Become(w, [Idle EXCEPT !.pc = "insert", !.next = nextCheck])
       ELSE Goto(w, "drop")
    /\ UNCHANGED <<runtime, job, suppressed, request, review, recorded, spent>>

(* A job that is kept and unclaimed falls due at the later of the two times.*)
Merged(passed) ==
    IF ~job.kept THEN [FreshJob EXCEPT !.due = passed]
    ELSE IF job.owner = NoOne THEN [job EXCEPT !.due = job.due /\ passed]
    ELSE job

InsertJob(w) ==
    /\ At(w, "insert")
    /\ Goto(w, "drop")
    /\ job' = Merged(worker[w].next = "passed")
    /\ UNCHANGED <<runtime, suppressed, request, review, recorded, spent>>

DropSuppressed(w) ==
    /\ At(w, "drop")
    /\ Goto(w, "claim")
    /\ job' = IF suppressed /\ job.owner = NoOne THEN NoJob ELSE job
    /\ UNCHANGED <<runtime, suppressed, request, review, recorded, spent>>

-----------------------------------------------------------------------------
(* The scheduler's runOne.                                                 *)
(* Defective form: a claim never ends by itself.                           *)
JobClaimableOnce == job.kept /\ job.due /\ job.owner = NoOne

JobClaimable == job.kept /\ job.due /\ (job.owner = NoOne \/ job.lease = "lapsed")

ClaimJob(w) ==
    /\ At(w, "claim")
    /\ IF JobClaimable
       THEN /\ job' = [job EXCEPT !.owner = w, !.lease = "live"]
            /\ Become(w, [Idle EXCEPT !.pc = "check", !.task = "job"])
       ELSE Goto(w, "request") /\ UNCHANGED job
    /\ UNCHANGED <<runtime, suppressed, request, review, recorded, spent>>

ReadState(w) ==
    /\ At(w, "check")
    /\ Become(w, [worker[w] EXCEPT
                     !.pc = "checked",
                     !.stop = (nextCheck = "none" \/ effect = "settled")])
    /\ UNCHANGED <<runtime, job, suppressed, request, review, recorded, spent>>

ReadSuppression(w) ==
    /\ At(w, "checked")
    /\ Carry(w, IF suppressed \/ worker[w].stop THEN "finish" ELSE "reconcile")
    /\ UNCHANGED <<runtime, job, suppressed, request, review, recorded, spent>>

OwnsJob(w) == job.owner = w

FinishJob(w) ==
    /\ At(w, "finish")
    /\ Goto(w, "request")
    /\ job' = IF ~OwnsJob(w) THEN job ELSE IF worker[w].next # "none" THEN FreshJob ELSE NoJob
    /\ UNCHANGED <<runtime, suppressed, request, review, recorded, spent>>

BackOff(w) ==
    /\ At(w, "failed") /\ worker[w].task = "job"
    /\ Goto(w, "request")
    /\ job' = IF OwnsJob(w) THEN FreshJob ELSE job
    /\ UNCHANGED <<runtime, suppressed, request, review, recorded, spent>>

-----------------------------------------------------------------------------
(* runtime.reconcile, for a job and for a re-observation: it appends what  *)
(* it observed and derives anew, or throws.  What it finds pending it sets *)
(* a check for, a minute ahead; what it finds unprovable it does not.      *)
Derived == {<<"pending", "ahead">>, <<"pending", "none">>, <<"settled", "none">>}

Reconcile(w) ==
    /\ At(w, "reconcile")
    /\ \E d \in Derived : effect' = d[1] /\ nextCheck' = d[2]
    /\ Become(w, [worker[w] EXCEPT !.pc = "derived", !.next = nextCheck'])
    /\ UNCHANGED <<overdue, job, suppressed, request, review, recorded, spent>>

(* Reconciling or recording throws.                                        *)
Fail(w) ==
    /\ worker[w].pc \in {"reconcile", "derived"}
    /\ Carry(w, "failed")
    /\ UNCHANGED <<runtime, job, suppressed, request, review, recorded, spent>>

RecordTransition(w) ==
    /\ At(w, "derived")
    /\ Become(w, [worker[w] EXCEPT
                     !.pc = IF worker[w].task = "job" THEN "finish" ELSE "complete"])
    /\ recorded' = TRUE
    /\ UNCHANGED <<runtime, job, suppressed, request, review, spent>>

-----------------------------------------------------------------------------
(* The re-observation worker.                                              *)
RequestClaimable ==
    /\ request.attempt < MaxAttempts
    /\ \/ request.status = "requested"
       \/ request.status = "executing" /\ request.lease = "lapsed"

(* Defective form: only an abandoned claim is ever given up.               *)
ExhaustedClaim == /\ request.status = "executing" /\ request.attempt >= MaxAttempts
                  /\ request.lease = "lapsed"

Exhausted == /\ request.status \in {"requested", "executing"}
             /\ request.attempt >= MaxAttempts
             /\ request.lease \in {"none", "lapsed"}

ClaimRequest(w) ==
    /\ At(w, "request")
    /\ IF RequestClaimable
       THEN /\ request' = [status |-> "executing", owner |-> w, lease |-> "live",
                           attempt |-> request.attempt + 1]
            /\ Become(w, [Idle EXCEPT !.pc = "reconcile", !.task = "request"])
       ELSE Goto(w, "park") /\ UNCHANGED request
    /\ UNCHANGED <<runtime, job, suppressed, review, recorded, spent>>

ParkExhausted(w) ==
    /\ At(w, "park")
    /\ Goto(w, "idle")
    /\ request' = IF Exhausted THEN [request EXCEPT !.status = "needs_review",
                                                    !.owner = NoOne, !.lease = "none"]
                  ELSE request
    /\ UNCHANGED <<runtime, job, suppressed, review, recorded, spent>>

(* completeReobservation.                                                  *)
(* Defective form: the token outlives the claim.                           *)
AnsweredInPart(w, status) ==
    IF request.owner = w /\ request.status = "executing"
    THEN [request EXCEPT !.status = status, !.lease = "none"]
    ELSE request

Answered(w, status) ==
    IF request.owner = w /\ request.status = "executing"
    THEN [request EXCEPT !.status = status, !.owner = NoOne, !.lease = "none"]
    ELSE request

CompleteRequest(w) ==
    /\ At(w, "complete")
    /\ Goto(w, "idle")
    /\ request' = Answered(w, "completed")
    /\ UNCHANGED <<runtime, job, suppressed, review, recorded, spent>>

ReturnRequest(w) ==
    /\ At(w, "failed") /\ worker[w].task = "request"
    /\ Goto(w, "idle")
    /\ request' = Answered(w, "requested")
    /\ UNCHANGED <<runtime, job, suppressed, review, recorded, spent>>

-----------------------------------------------------------------------------
(* A reviewer.  Only what is held may enter review; the primary directive  *)
(* of a pending action is hold or escalate.                                *)
OpenHumanReview ==
    /\ effect = "pending" /\ review = "none"
    /\ review' = "open"
    /\ UNCHANGED <<runtime, job, suppressed, request, recorded, worker, spent>>

(* updateHumanReview changes an open review only: to acknowledged,         *)
(* cancelled and the like, or asking for a re-observation.  (What it reads *)
(* before decides about a compensation alone, which Recovery authorises.)  *)
UpdateHumanReview(reobserve) ==
    /\ review = "open"
    /\ review' = "handled"
    /\ request' = IF reobserve THEN [NoRequest EXCEPT !.status = "requested"] ELSE request
    /\ UNCHANGED <<runtime, job, suppressed, recorded, worker, spent>>

LiftSuppression ==
    /\ suppressed /\ Spend
    /\ suppressed' = FALSE
    /\ UNCHANGED <<runtime, job, request, review, recorded, worker>>

-----------------------------------------------------------------------------
(* The clock, and hosts that die.                                          *)
DeadlinePasses ==
    /\ ~overdue
    /\ overdue' = TRUE
    /\ UNCHANGED <<effect, nextCheck, job, suppressed, request, review, recorded,
                   worker, spent>>

CheckFallsDue ==
    /\ nextCheck = "ahead"
    /\ nextCheck' = "passed"
    /\ UNCHANGED <<effect, overdue, job, suppressed, request, review, recorded,
                   worker, spent>>

JobFallsDue ==
    /\ job.kept /\ ~job.due
    /\ job' = [job EXCEPT !.due = TRUE]
    /\ UNCHANGED <<runtime, suppressed, request, review, recorded, worker, spent>>

Works(w, task) == worker[w].task = task

JobLapses ==
    /\ job.lease = "live"
    /\ IF \E w \in Workers : job.owner = w /\ Works(w, "job") THEN Spend ELSE UNCHANGED spent
    /\ job' = [job EXCEPT !.lease = "lapsed"]
    /\ UNCHANGED <<runtime, suppressed, request, review, recorded, worker>>

RequestLapses ==
    /\ request.lease = "live"
    /\ IF \E w \in Workers : request.owner = w /\ Works(w, "request")
       THEN Spend ELSE UNCHANGED spent
    /\ request' = [request EXCEPT !.lease = "lapsed"]
    /\ UNCHANGED <<runtime, job, suppressed, review, recorded, worker>>

Crash(w) ==
    /\ ~At(w, "idle") /\ Spend
    /\ Goto(w, "idle")
    /\ UNCHANGED <<runtime, job, suppressed, request, review, recorded>>

-----------------------------------------------------------------------------
Sync(w)      == ReadOverdue(w) \/ Escalate(w) \/ ReadSync(w) \/ InsertJob(w) \/ DropSuppressed(w)
RunJob(w)    == ClaimJob(w) \/ ReadState(w) \/ ReadSuppression(w) \/ FinishJob(w) \/ BackOff(w)
Look(w)      == Reconcile(w) \/ Fail(w) \/ RecordTransition(w)
RunRequest(w) == ClaimRequest(w) \/ ParkExhausted(w) \/ CompleteRequest(w) \/ ReturnRequest(w)

Tick(w) == Sync(w) \/ RunJob(w) \/ Look(w) \/ RunRequest(w)

Review == \/ OpenHumanReview \/ LiftSuppression
          \/ \E reobserve \in BOOLEAN : UpdateHumanReview(reobserve)

Next ==
    \/ \E w \in Workers : Tick(w) \/ Crash(w)
    \/ Review
    \/ DeadlinePasses \/ CheckFallsDue \/ JobFallsDue \/ JobLapses \/ RequestLapses

Spec == Init /\ [][Next]_vars

(* Hosts tick for ever (a tick can always take its next step, so this is   *)
(* what weak fairness of it says) and the database clock runs; nobody has  *)
(* to review.                                                              *)
Fairness == /\ \A w \in Workers : []<><<Tick(w)>>_vars
            /\ WF_vars(CheckFallsDue) /\ WF_vars(JobFallsDue)
            /\ WF_vars(JobLapses) /\ WF_vars(RequestLapses)

-----------------------------------------------------------------------------
(* The types of what is stored; a claim's token and lease come and go      *)
(* together.                                                               *)
TypeOK ==
    /\ effect \in {"pending", "settled"} /\ nextCheck \in {"none", "ahead", "passed"}
    /\ overdue \in BOOLEAN
    /\ job \in [kept : BOOLEAN, due : BOOLEAN, owner : Workers \union {NoOne},
                lease : {"none", "live", "lapsed"}]
    /\ job.owner = NoOne <=> job.lease = "none"
    /\ ~job.kept => job = NoJob
    /\ suppressed \in BOOLEAN
    /\ review \in {"none", "open", "handled"}
    /\ request \in [status : {"none", "requested", "executing", "completed", "needs_review"},
                    owner : Workers \union {NoOne}, lease : {"none", "live", "lapsed"},
                    attempt : 0..MaxAttempts]
    /\ request.status = "executing" <=> request.owner # NoOne
    /\ request.owner = NoOne <=> request.lease = "none"
    /\ recorded \in BOOLEAN
    /\ worker \in [Workers ->
          [pc : {"idle", "escalate", "sync", "insert", "drop", "claim", "check", "checked",
                 "reconcile", "derived", "finish", "failed", "request", "park", "complete"},
           task : {"none", "job", "request"}, stop : BOOLEAN, next : {"none", "ahead", "passed"}]]
    /\ spent \in 0..MaxFaults

(* Automatic reconciliation does not strand: as long as a pending action   *)
(* has a next check and no human was asked, somebody looks again and       *)
(* again, whatever hosts die on the way.                                   *)
Reconciling == \E w \in Workers : Works(w, "job")
KeepsLooking ==
    <>[](nextCheck # "none" /\ ~suppressed) => []<>Reconciling

(* A suppression really stops the automatic work: once it stays, no job    *)
(* stays or comes back, through any sync or restart, and none is running.  *)
SuppressionQuiesces ==
    <>[]suppressed => <>[](~job.kept /\ ~Reconciling)

(* An action that stays unresolved past its policy's deadline gets a human *)
(* review, whether or not it ever had a job.                               *)
OverdueEscalates ==
    overdue /\ effect = "pending" ~> review # "none" \/ effect = "settled"

(* A re-observation somebody asked for is handed back, or answered with    *)
(* what was derived on record for the customer.                            *)
RequestIsAnswered ==
    request.status = "requested" ~>
        \/ request.status = "needs_review"
        \/ request.status = "completed" /\ recorded
=============================================================================
