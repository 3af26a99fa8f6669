------------------------------ MODULE Recovery ------------------------------
(***************************************************************************)
(* Recovery execution: the one background operation that may cause an      *)
(* external consequence.  Workers claim the rows of                        *)
(* nyst_recovery_executions under a lease of the database clock, and the   *)
(* durable dispatch state of a row, not its lease, decides what a worker   *)
(* may do with it.  One action; one row for each resolution a recovery was *)
(* authorised under.  Each SQL statement is a step, the claim is two: the  *)
(* candidate is chosen in the statement's snapshot, and its UPDATE checks  *)
(* only the claim again when it gets the row (READ COMMITTED).             *)
(***************************************************************************)
EXTENDS EffectiveAuthority, FiniteSets

CONSTANTS
    Workers,          \* recovery workers, of one process or several
    Decisions,        \* what a resolution may decide
    BoundPolicies,    \* the policy versions the action may be bound to
    Registries,       \* which of executor and observer may be registered
    MaxRecoveries,    \* resolutions a recovery may be authorised under
    MaxChanges, MaxCrashes, MaxPauses  \* bounds

ASSUME DecisionsAssumption == Decisions \subseteq RuntimeAuthority
ASSUME PoliciesAssumption == BoundPolicies \subseteq Policies
ASSUME RegistryAssumption == Registries \subseteq SUBSET {"executor", "observer"}
ASSUME RecoveryBounds ==
    {MaxRecoveries, MaxChanges, MaxCrashes, MaxPauses} \subseteq Nat

Resolutions == 1..MaxRecoveries

VARIABLES
    \* what the runtime keeps of the action
    policy,           \* the policy version bound to it
    decided,          \* the control decision of each resolution
    sequence,         \* outcome_runtime.resolution_sequence
    evidence,         \* outcome_runtime.evidence_sequence
    overdue,          \* reconcile_deadline_at has passed
    \* the product's tables
    row,              \* nyst_recovery_executions, by resolution
    told,             \* interventions and webhook events recorded for the action
    review,           \* the action has a human review
    \* the processes and the world
    registered,       \* what the process registered for the effect
    worker,
    effect,           \* the external consequence of each row
    sends,            \* how often its executor was called
    spent

runtime == <<policy, decided, sequence, evidence, overdue>>
tables  == <<row, told, review>>
world   == <<registered, effect, sends>>
vars    == <<policy, decided, sequence, evidence, overdue, row, told, review,
             registered, worker, effect, sends, spent>>

Limits == [changes |-> MaxChanges, crashes |-> MaxCrashes, pauses |-> MaxPauses]

Spend(budget) == /\ spent[budget] < Limits[budget]
                 /\ spent' = [spent EXCEPT ![budget] = @ + 1]

-----------------------------------------------------------------------------
(* A claim token is fresh, and the attempt number is: 0 is NULL.           *)
NoRow == [status |-> "absent", operation |-> "none", dispatch |-> "definitely_not_sent",
          token |-> 0, lease |-> "none", attempt |-> 0, evidence |-> 0]

Statuses == {"absent", "authorized", "executing", "observing", "completed",
             "needs_review", "cancelled"}
Settled  == {"completed", "needs_review", "cancelled"}

DispatchStates == {"definitely_not_sent", "may_have_been_sent", "ambiguous", "completed"}

(* The order of the dispatch boundary.                                     *)
Boundary(d) == CASE d = "definitely_not_sent" -> 0
                 [] d = "may_have_been_sent"  -> 2
                 [] d = "ambiguous"           -> 3
                 [] d = "completed"           -> 4
                 [] OTHER                     -> 1

Idle == [pc |-> "idle", row |-> 0, token |-> 0, dispatch |-> "definitely_not_sent",
         valid |-> FALSE, saw |-> "nothing"]

Init ==
    /\ policy \in BoundPolicies
    /\ decided \in [Resolutions -> Decisions]
    /\ sequence = 1
    /\ evidence = 0
    /\ overdue = FALSE
    /\ row = [r \in Resolutions |-> NoRow]
    /\ told = {}
    /\ review = FALSE
    /\ registered \in Registries
    /\ worker = [w \in Workers |-> Idle]
    /\ effect = [r \in Resolutions |-> "none"]
    /\ sends = [r \in Resolutions |-> 0]
    /\ spent = [b \in DOMAIN Limits |-> 0]

At(w, pc) == worker[w].pc = pc
Become(w, j) == worker' = [worker EXCEPT ![w] = j]
Goto(w, pc) == Become(w, [worker[w] EXCEPT !.pc = pc])
Return(w) == Become(w, Idle)
Mine(w) == row[worker[w].row]

Update(r, new) == row' = [row EXCEPT ![r] = new]

-----------------------------------------------------------------------------
(* authorizeRecovery: checked by the application, then once more by the    *)
(* statement, which wants the resolution to be the current one.  The row   *)
(* of the resolution and operation is returned when there is one.          *)
AuthorizeRecovery(operation) ==
    /\ sequence \in Resolutions
    /\ Permits(operation, decided[sequence], policy)
    /\ SqlPermits(operation, decided[sequence], policy)
    /\ row[sequence].status = "absent"
    /\ Update(sequence, [NoRow EXCEPT !.status = "authorized", !.operation = operation,
                                      !.evidence = evidence])
    /\ UNCHANGED <<runtime, told, review, worker, world, spent>>

(* authority_valid of a claim.                                             *)
AuthorityValid(r) ==
    /\ sequence = r
    /\ evidence = row[r].evidence
    /\ ~overdue
    /\ SqlPermits(row[r].operation, decided[r], policy)

(* Defective form: an abandoned row is dropped when its authority is.      *)
ClaimableAuthorised(r) ==
    /\ AuthorityValid(r)
    /\ \/ row[r].status = "authorized" /\ row[r].token = 0
       \/ row[r].status \in {"executing", "observing"} /\ row[r].lease = "lapsed"

(* A fresh row needs authority; an abandoned one is always taken.          *)
Claimable(r) ==
    \/ row[r].status = "authorized" /\ row[r].token = 0 /\ AuthorityValid(r)
    \/ row[r].status \in {"executing", "observing"} /\ row[r].lease = "lapsed"

(* Rows are created in the order of their resolutions.                     *)
Candidate(r) == Claimable(r) /\ \A q \in Resolutions : Claimable(q) => r <= q

ChooseCandidate(w) ==
    /\ At(w, "idle")
    /\ \E r \in Resolutions :
          /\ Candidate(r)
          /\ Become(w, [Idle EXCEPT !.pc = "candidate", !.row = r, !.valid = AuthorityValid(r)])
    /\ UNCHANGED <<runtime, tables, world, spent>>

(* The claim state as the UPDATE reads it again.                           *)
Unowned(r) == row[r].token = 0 \/ row[r].lease = "lapsed"

ClaimedStatus(dispatch) ==
    CASE dispatch = "definitely_not_sent" -> "executing"
      [] dispatch = "completed"           -> "completed"
      [] OTHER                            -> "observing"

ClaimRecovery(w) ==
    LET r == worker[w].row IN
    /\ At(w, "candidate")
    /\ IF Unowned(r)
       THEN /\ Update(r, [row[r] EXCEPT !.status = ClaimedStatus(row[r].dispatch),
                                        !.token = row[r].attempt + 1, !.lease = "live",
                                        !.attempt = @ + 1])
            /\ Become(w, [worker[w] EXCEPT !.pc = "claimed", !.token = row[r].attempt + 1,
                                           !.dispatch = row[r].dispatch])
       ELSE Return(w) /\ UNCHANGED row
    /\ UNCHANGED <<runtime, told, review, world, spent>>

-----------------------------------------------------------------------------
(* recordRecoveryDispatch: token only, and the boundary never moves back.  *)
Owns(w) == Mine(w).token = worker[w].token

Recorded(w, dispatch) ==
    IF Owns(w) /\ Boundary(dispatch) >= Boundary(Mine(w).dispatch)
    THEN Update(worker[w].row, [Mine(w) EXCEPT !.dispatch = dispatch])
    ELSE UNCHANGED row

(* Defective form: a completion forgets whose claim it is.                 *)
SettleableByAnyone(w) == Mine(w).status \in {"executing", "observing"}

(* The row a completion, a parking or a cancellation matches.              *)
Settleable(w) == Owns(w) /\ Mine(w).status \in {"executing", "observing"}

Released(w, status) == [Mine(w) EXCEPT !.status = status, !.token = 0, !.lease = "none"]

(* completeRecovery(true): the row, then the control event and the         *)
(* intervention, then the webhook event, each a statement of its own.      *)
Complete(w) ==
    IF Settleable(w)
    THEN /\ Update(worker[w].row, [Released(w, "completed") EXCEPT !.dispatch = "completed"])
         /\ Goto(w, "completed")
    ELSE UNCHANGED row /\ Return(w)

(* recoveryNeedsReview, by completeRecovery(false).                        *)
Park(w) ==
    IF Settleable(w)
    THEN Update(worker[w].row, Released(w, "needs_review")) /\ Goto(w, "parked")
    ELSE UNCHANGED row /\ Return(w)

(* cancelRecovery.                                                         *)
Cancel(w) ==
    /\ IF Settleable(w) /\ Mine(w).dispatch = "definitely_not_sent"
       THEN Update(worker[w].row, Released(w, "cancelled"))
       ELSE UNCHANGED row
    /\ Return(w)

Tell(w, fact, next) ==
    /\ told' = told \union {fact}
    /\ IF next = "idle" THEN Return(w) ELSE Goto(w, next)
    /\ UNCHANGED <<runtime, row, review, world, spent>>

TellResolved(w)  == At(w, "completed") /\ Tell(w, "auto_resolved", "resolved")
QueueWebhook(w)  == At(w, "resolved")  /\ Tell(w, "recovery.completed", "idle")
TellParked(w)    == At(w, "parked")    /\ Tell(w, "recovery_needs_review", "escalated")

OpenHumanReview(w) ==
    /\ At(w, "escalated")
    /\ review' = TRUE
    /\ Return(w)
    /\ UNCHANGED <<runtime, row, told, world, spent>>

-----------------------------------------------------------------------------
(* runOne, after the claim.                                                *)
Unsent(w) == worker[w].dispatch = "definitely_not_sent"

FinishCompleted(w) ==
    /\ At(w, "claimed") /\ worker[w].dispatch = "completed"
    /\ Complete(w)
    /\ UNCHANGED <<runtime, told, review, world, spent>>

CancelStale(w) ==
    /\ At(w, "claimed") /\ Unsent(w)
    /\ ~worker[w].valid \/ "executor" \notin registered
    /\ Cancel(w)
    /\ UNCHANGED <<runtime, told, review, world, spent>>

(* What beginRecoveryDispatch verifies in the statement that moves the     *)
(* boundary.                                                               *)
MayDispatch(w) ==
    /\ Owns(w)
    /\ Mine(w).lease = "live"
    /\ Mine(w).status = "executing"
    /\ Mine(w).dispatch = "definitely_not_sent"
    /\ sequence = worker[w].row
    /\ evidence = Mine(w).evidence

(* Defective form: the boundary is verified, and moved only after the send.*)
BeginWithoutJournal(w) ==
    /\ At(w, "claimed") /\ Unsent(w) /\ worker[w].valid /\ "executor" \in registered
    /\ IF MayDispatch(w) THEN Goto(w, "sending") ELSE Return(w)
    /\ UNCHANGED <<runtime, tables, world, spent>>

(* Defective form: the result of the gate is discarded.                    *)
BeginRegardless(w) ==
    /\ At(w, "claimed") /\ Unsent(w) /\ worker[w].valid /\ "executor" \in registered
    /\ IF MayDispatch(w)
       THEN Update(worker[w].row, [Mine(w) EXCEPT !.dispatch = "may_have_been_sent"])
       ELSE UNCHANGED row
    /\ Goto(w, "sending")
    /\ UNCHANGED <<runtime, told, review, world, spent>>

BeginRecoveryDispatch(w) ==
    /\ At(w, "claimed") /\ Unsent(w) /\ worker[w].valid /\ "executor" \in registered
    /\ IF MayDispatch(w)
       THEN /\ Update(worker[w].row, [Mine(w) EXCEPT !.dispatch = "may_have_been_sent"])
            /\ Goto(w, "sending")
       ELSE UNCHANGED row /\ Return(w)
    /\ UNCHANGED <<runtime, told, review, world, spent>>

(* The executor: its request leaves, and it returns or throws.             *)
Execute(w) ==
    /\ At(w, "sending")
    /\ Goto(w, "awaiting")
    /\ sends' = [sends EXCEPT ![worker[w].row] = @ + 1]
    /\ effect' = [effect EXCEPT ![worker[w].row] = "in_flight"]
    /\ UNCHANGED <<runtime, tables, registered, spent>>

Succeeds(w) ==
    /\ At(w, "awaiting") /\ effect[worker[w].row] = "applied"
    /\ Goto(w, "sent")
    /\ UNCHANGED <<runtime, tables, world, spent>>

Throws(w) ==
    /\ At(w, "awaiting")
    /\ Goto(w, "failed")
    /\ UNCHANGED <<runtime, tables, world, spent>>

RecordSent(w) ==
    /\ At(w, "sent")
    /\ Recorded(w, "completed")
    /\ Goto(w, "confirmed")
    /\ UNCHANGED <<runtime, told, review, world, spent>>

CompleteSent(w) ==
    /\ At(w, "confirmed")
    /\ Complete(w)
    /\ UNCHANGED <<runtime, told, review, world, spent>>

(* recordResolutionTransition throws on what the executor returned, or on  *)
(* what the observer did: either way nobody is told and the row is parked. *)
TransitionThrows(w) ==
    /\ At(w, "confirmed")
    /\ Goto(w, IF worker[w].saw = "nothing" THEN "failed" ELSE "unsettled")
    /\ UNCHANGED <<runtime, tables, world, spent>>

RecordFailed(w) ==
    /\ At(w, "failed")
    /\ Recorded(w, "may_have_been_sent")
    /\ Goto(w, "unsettled")
    /\ UNCHANGED <<runtime, told, review, world, spent>>

SettleAmbiguous(w) ==
    /\ At(w, "unsettled")
    /\ Park(w)
    /\ UNCHANGED <<runtime, told, review, world, spent>>

-----------------------------------------------------------------------------
(* observeAmbiguousRecovery: the observer reads the world and never sends. *)
Ambiguous(w) == At(w, "claimed") /\ worker[w].dispatch \in {"may_have_been_sent", "ambiguous"}

ParkUnobservable(w) ==
    /\ Ambiguous(w) /\ "observer" \notin registered
    /\ Park(w)
    /\ UNCHANGED <<runtime, told, review, world, spent>>

Observed(r) == {"unprovable"} \union
               (IF effect[r] = "applied" THEN {"completed"} ELSE {"not_applied"})

Observe(w) ==
    /\ Ambiguous(w) /\ "observer" \in registered
    /\ \E outcome \in Observed(worker[w].row) :
          Become(w, [worker[w] EXCEPT !.pc = "observed", !.saw = outcome])
    /\ UNCHANGED <<runtime, tables, world, spent>>

ObserveThrows(w) ==
    /\ Ambiguous(w) /\ "observer" \in registered
    /\ Goto(w, "unsettled")
    /\ UNCHANGED <<runtime, tables, world, spent>>

(* Defective form: whatever was observed completes the recovery.           *)
RecordObservedAsDone(w) ==
    /\ At(w, "observed")
    /\ Recorded(w, "completed")
    /\ Goto(w, "confirmed")
    /\ UNCHANGED <<runtime, told, review, world, spent>>

RecordObserved(w) ==
    /\ At(w, "observed")
    /\ IF worker[w].saw = "completed"
       THEN Recorded(w, "completed") /\ Goto(w, "confirmed")
       ELSE Recorded(w, "ambiguous") /\ Goto(w, "unsettled")
    /\ UNCHANGED <<runtime, told, review, world, spent>>

-----------------------------------------------------------------------------
(* The rest of the system: the runtime learns, the clock runs, a process   *)
(* dies, and a request in flight takes effect, or never does.                *)
EvidenceArrives ==
    /\ Spend("changes")
    /\ evidence' = evidence + 1
    /\ UNCHANGED <<policy, decided, sequence, overdue, tables, worker, world>>

Reresolve ==
    /\ Spend("changes")
    /\ sequence' = sequence + 1
    /\ UNCHANGED <<policy, decided, evidence, overdue, tables, worker, world>>

DeadlinePasses ==
    /\ ~overdue /\ Spend("changes")
    /\ overdue' = TRUE
    /\ UNCHANGED <<policy, decided, sequence, evidence, tables, worker, world>>

Held(r) == \E w \in Workers : /\ worker[w].pc \notin {"idle", "candidate"}
                              /\ worker[w].row = r
                              /\ worker[w].token = row[r].token

(* A lease is longer than a statement: none lapses while one that chose    *)
(* the row is still running.                                               *)
Lapse(r) ==
    /\ row[r].lease = "live"
    /\ \A w \in Workers : ~(At(w, "candidate") /\ worker[w].row = r)
    /\ Update(r, [row[r] EXCEPT !.lease = "lapsed"])
    /\ UNCHANGED <<runtime, told, review, worker, world>>

LeaseLapses(r)  == ~Held(r) /\ Lapse(r) /\ UNCHANGED spent
WorkerPauses(r) == Held(r) /\ Lapse(r) /\ Spend("pauses")

Crash(w) ==
    /\ ~At(w, "idle") /\ Spend("crashes")
    /\ Return(w)
    /\ UNCHANGED <<runtime, tables, world>>

Land(r) ==
    /\ effect[r] = "in_flight"
    /\ effect' = [effect EXCEPT ![r] = "applied"]
    /\ UNCHANGED <<runtime, tables, registered, worker, sends, spent>>

-----------------------------------------------------------------------------
Claim(w)    == ChooseCandidate(w) \/ ClaimRecovery(w)
Dispatch(w) == \/ FinishCompleted(w) \/ CancelStale(w) \/ BeginRecoveryDispatch(w)
               \/ Execute(w) \/ Succeeds(w) \/ Throws(w) \/ RecordSent(w)
               \/ CompleteSent(w) \/ TransitionThrows(w) \/ RecordFailed(w)
               \/ SettleAmbiguous(w)
Look(w)     == ParkUnobservable(w) \/ Observe(w) \/ ObserveThrows(w) \/ RecordObserved(w)
Report(w)   == \/ TellResolved(w) \/ QueueWebhook(w) \/ TellParked(w)
               \/ OpenHumanReview(w)

RunOne(w) == Claim(w) \/ Dispatch(w) \/ Look(w) \/ Report(w)

Next ==
    \/ \E operation \in RecoveryOperations : AuthorizeRecovery(operation)
    \/ \E w \in Workers : RunOne(w) \/ Crash(w)
    \/ EvidenceArrives \/ Reresolve \/ DeadlinePasses
    \/ \E r \in Resolutions : LeaseLapses(r) \/ WorkerPauses(r) \/ Land(r)

Spec == Init /\ [][Next]_vars

(* Every worker is started again and again by its timer, and the clock     *)
(* that ends leases runs.                                                  *)
FairSpec == /\ Spec
            /\ \A w \in Workers : WF_vars(RunOne(w))
            /\ \A r \in Resolutions : WF_vars(LeaseLapses(r))

-----------------------------------------------------------------------------
Rows == [status : Statuses, operation : RecoveryOperations \union {"none"},
         dispatch : DispatchStates, token : Nat, lease : {"none", "live", "lapsed"},
         attempt : Nat, evidence : Nat]

PCs == {"idle", "candidate", "claimed", "sending", "awaiting", "sent", "confirmed", "failed",
        "unsettled", "observed", "completed", "resolved", "parked", "escalated"}

Jobs == [pc : PCs, row : Resolutions \union {0}, token : Nat, dispatch : DispatchStates,
         valid : BOOLEAN, saw : {"nothing", "completed", "not_applied", "unprovable"}]

(* The types of what is stored and carried; a claim's token and lease are  *)
(* set and cleared together.                                               *)
TypeOK ==
    /\ policy \in Policies
    /\ decided \in [Resolutions -> RuntimeAuthority]
    /\ sequence \in Nat \ {0} /\ evidence \in Nat /\ overdue \in BOOLEAN
    /\ row \in [Resolutions -> Rows]
    /\ \A r \in Resolutions : row[r].token = 0 <=> row[r].lease = "none"
    /\ told \subseteq {"auto_resolved", "recovery.completed", "recovery_needs_review"}
    /\ review \in BOOLEAN
    /\ registered \subseteq {"executor", "observer"}
    /\ worker \in [Workers -> Jobs]
    /\ \A w \in Workers : ~At(w, "idle") => worker[w].row \in Resolutions
    /\ effect \in [Resolutions -> {"none", "in_flight", "applied"}]
    /\ sends \in [Resolutions -> Nat]
    /\ spent \in [DOMAIN Limits -> Nat]

(* S1, the first promise: however workers crash, pause past their lease,   *)
(* take rows over and race for them, the executor of a recovery is called  *)
(* at most once, and once it was, the row never says otherwise.            *)
SentAtMostOnce ==
    \A r \in Resolutions :
        /\ sends[r] <= 1
        /\ sends[r] = 1 => /\ row[r].dispatch # "definitely_not_sent"
                           /\ row[r].status # "cancelled"

(* What is stored, or told to others, as a completed recovery did take     *)
(* effect, also when the worker that completes it is not the one that sent.*)
CompletedIsTrue ==
    /\ \A r \in Resolutions :
          row[r].status = "completed" \/ row[r].dispatch = "completed" => effect[r] = "applied"
    /\ "recovery.completed" \in told => \E r \in Resolutions : effect[r] = "applied"

(* A row is settled only by a worker that holds its current claim: one     *)
(* that wakes after its row was taken over changes nothing.  The only      *)
(* other way is the claim of a row whose send is already known to be done. *)
OnlyOwnersSettle ==
    [][\A r \in Resolutions :
          row[r].status \notin Settled /\ row'[r].status \in Settled =>
             \/ \E w \in Workers : worker[w].row = r /\ worker[w].token = row[r].token
                                   /\ worker[w].pc \notin {"idle", "candidate"}
             \/ row[r].dispatch = "completed" /\ row'[r].attempt > row[r].attempt]_vars

(* Nothing strands: a row some worker claimed is settled in the end, by    *)
(* that worker or by one that takes it over (I12).                         *)
ClaimedSettles ==
    \A r \in Resolutions :
        row[r].status \in {"executing", "observing"} ~> row[r].status \in Settled

(* What the abstract promise sees of the rows.                             *)
Journal(r) == CASE row[r].dispatch = "definitely_not_sent" -> "unsent"
                [] row[r].dispatch = "completed"           -> "done"
                [] OTHER                                   -> "possible"

Permitted == {r \in Resolutions : \E w \in Workers : At(w, "sending") /\ worker[w].row = r}
Sent      == {r \in Resolutions : sends[r] > 0}
Landed    == {r \in Resolutions : effect[r] = "applied"}

Promise == INSTANCE OneSend WITH
    Consequences <- Resolutions, journal <- [r \in Resolutions |-> Journal(r)],
    permitted <- Permitted, sent <- Sent, landed <- Landed

(* Recovery execution implements the abstract promise.                     *)
ImplementsOneSend == Promise!Spec
=============================================================================
