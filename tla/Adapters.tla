------------------------------ MODULE Adapters -------------------------------
(***************************************************************************)
(* The Okta and Stripe adapters at work on one action: a dispatcher and an *)
(* observer read the provider's object request by request, while the       *)
(* provider, other people and the mutation itself change it.  The durable  *)
(* side of the runtime (NystRuntime) is reduced to what the adapters see   *)
(* of it: the ledger, and leave to dispatch.                               *)
(***************************************************************************)
EXTENDS OktaEffect, StripeEffect

CONSTANTS Effects,       \* the effects followed, of {"okta", "refund", "capture"}
          MaxLooks, MaxFaults, MaxChanges     \* bounds

VARIABLES
    effect, operation,   \* the effect, and what commit decided to do about it
    object,              \* what the provider holds
    elapsed,             \* the consistency window is over
    items,               \* the evidence ledger of the action
    request,             \* what became of the mutation each attempt sent
    unsent,              \* the attempts the adapter called "definitely_not_sent"
    worker,              \* the dispatcher and the observer
    claim,               \* the resolution last derived
    left                 \* how much of each bound is left

adapters == <<effect, operation, object, elapsed, items, request, unsent, worker, claim, left>>

Desired  == "SUSPENDED"
Workers  == {"dispatcher", "observer"}
Tries    == 1..AttemptBudget

(* The requests a snapshot is read with, in order.  Of those that return   *)
(* an identity only the failure counts.                                    *)
Reads == IF effect = "okta" THEN <<"user", "roles">>
         ELSE <<"account", "payment", "charge", "refunds">>

Unread == [part \in {"user", "payment", "charge", "refunds"} |-> {}]

Resting == [pc |-> "idle", attempt |-> 0, next |-> 1, view |-> Unread, prior |-> 0,
            held |-> {}, item |-> ResponseItem, unsent |-> FALSE]

NoClaim == [state |-> "none", cited |-> {}, decision |-> "none"]

-----------------------------------------------------------------------------
(* The provider (external)                                                 *)

Live(refunds) == {r \in refunds : r.status \in {"pending", "succeeded"}}

(* What the Charge says of its refunds.                                    *)
ChargeOf(refunds) ==
    CASE Live(refunds) = {} -> "none"
      [] Live(refunds) # {} /\ (\A r \in Live(refunds) : r.exact) -> "exact"
      [] OTHER -> "other"

Users    == [status : Supported \union {"STAGED"}, moving : BOOLEAN, changed : {0}]
Payments == [status : {"requires_capture", "processing", "succeeded", "canceled"},
             received : {"none", "exact", "other"}, mine : {FALSE}]

Uncaptured == [status |-> "requires_capture", received |-> "none", mine |-> FALSE]
Captured   == [status |-> "succeeded", received |-> "exact", mine |-> FALSE]

Refund(exact, status, mine) == [exact |-> exact, status |-> status, mine |-> mine]

Held(e, user, payment, refunds) ==
    [user |-> IF e = "okta" THEN user ELSE {},
     payment |-> IF e = "okta" THEN {} ELSE payment,
     charge |-> IF e = "okta" THEN {} ELSE ChargeOf(refunds), refunds |-> refunds]

(* Whether the goal is reached, and by whom.                               *)
Reached(o) ==
    CASE effect = "okta" ->
           IF o.user.status = Desired /\ ~o.user.moving THEN "other" ELSE "nobody"
      [] effect = "refund" ->
           IF \E r \in o.refunds : o.refunds = {r} /\ r.exact /\ r.status = "succeeded"
           THEN IF \E r \in o.refunds : r.mine THEN "mine" ELSE "other"
           ELSE "nobody"
      [] effect = "capture" ->
           IF o.payment.status = "succeeded" /\ o.payment.received = "exact" /\ o.refunds = {}
           THEN IF o.payment.mine THEN "mine" ELSE "other"
           ELSE "nobody"

(* Those in the middle of a read see some of it before and some after.     *)
Changes(o) ==
    /\ object' = o
    /\ worker' = [w \in Workers |-> IF worker[w].pc = "read"
                                    THEN [worker[w] EXCEPT !.held = @ \union {Reached(o)}]
                                    ELSE worker[w]]

Users2 == {[status |-> s, moving |-> m, changed |-> object.user.changed + 1] :
             s \in Supported \union {"STAGED"}, m \in BOOLEAN}

WithRefunds(refunds) == [object EXCEPT !.refunds = refunds, !.charge = ChargeOf(refunds)]

(* What the object may become when somebody else, or time, changes it.     *)
Successors ==
    CASE effect = "okta" -> {[object EXCEPT !.user = u] : u \in Users2}
      [] effect = "refund" ->
           (UNION {{WithRefunds((object.refunds \ {r}) \union {[r EXCEPT !.status = s]}) :
                      s \in {"succeeded", "failed"} \ {r.status}} :
                     r \in {x \in object.refunds : x.status # "failed"}})
           \union {WithRefunds(object.refunds \union {Refund(x, "pending", FALSE)}) :
                     x \in IF object.charge = "none" THEN BOOLEAN ELSE {}}
      [] effect = "capture" ->
           IF object.payment.status \in {"requires_capture", "processing"}
           THEN {[object EXCEPT !.payment = [@ EXCEPT !.status = "succeeded",
                                                      !.received = received]] :
                   received \in {"exact", "other"}}
                \union {[object EXCEPT !.payment.status = "canceled"]}
           ELSE IF object.payment.status = "succeeded" /\ object.refunds = {}
                THEN {WithRefunds({Refund(TRUE, "pending", FALSE)})} ELSE {}

Spend(bound) == left[bound] > 0 /\ left' = [left EXCEPT ![bound] = @ - 1]

Change ==
    /\ Spend("changes")
    /\ \E o \in Successors : Changes(o)
    /\ UNCHANGED <<effect, operation, elapsed, items, request, unsent, claim>>

(* A mutation that left takes effect where it is legal; Stripe repeats     *)
(* nothing under the same Idempotency-Key.                                 *)
Takes(status) ==
    CASE effect = "okta" ->
           /\ OktaLegal(object.user, Desired)
           /\ Changes([object EXCEPT !.user = [status |-> Desired, moving |-> FALSE,
                                               changed |-> @.changed + 1]])
      [] effect = "refund" ->
           /\ object.charge = "none"
           /\ Changes(WithRefunds(object.refunds \union {Refund(TRUE, status, TRUE)}))
      [] effect = "capture" ->
           /\ object.payment = Uncaptured
           /\ Changes([object EXCEPT !.payment =
                         [status |-> IF status = "pending" THEN "processing" ELSE status,
                          received |-> IF status = "pending" THEN "none" ELSE "exact",
                          mine |-> TRUE]])

Land(n) ==
    /\ request[n] = "flying"
    /\ \E status \in {"pending", "succeeded"} : Takes(status)
    /\ request' = [request EXCEPT ![n] = "landed"]
    /\ UNCHANGED <<effect, operation, elapsed, items, unsent, claim, left>>

(* It is refused, or lost.                                                 *)
Drop(n) ==
    /\ request[n] = "flying"
    /\ request' = [request EXCEPT ![n] = "dropped"]
    /\ UNCHANGED <<effect, operation, object, elapsed, items, unsent, worker, claim, left>>

WindowElapses ==
    /\ ~elapsed /\ elapsed' = TRUE
    /\ UNCHANGED <<effect, operation, object, items, request, unsent, worker, claim, left>>

-----------------------------------------------------------------------------
Init ==
    /\ effect \in Effects
    /\ \E user \in Users, payment \in {Uncaptured, Captured},
          refunds \in {{}, {Refund(TRUE, "pending", FALSE)}} :
         /\ effect = "okta" => payment = Captured /\ refunds = {} /\ ~user.moving
         /\ effect # "okta" => user = [status |-> "ACTIVE", moving |-> FALSE, changed |-> 0]
         /\ object = Held(effect, user, payment, refunds)
    /\ operation = CASE effect = "okta"    -> OktaOperation(object.user, Desired)
                     [] effect = "refund"  -> RefundOperation(object)
                     [] effect = "capture" -> CaptureOperation(object)
    /\ operation # "refused"
    /\ elapsed = FALSE
    /\ items = <<>>
    /\ request = [n \in Tries |-> "none"]
    /\ unsent = {}
    /\ worker = [w \in Workers |-> Resting]
    /\ claim = NoClaim
    /\ left = [looks |-> MaxLooks, faults |-> MaxFaults, changes |-> MaxChanges]

Becomes(w, state) == worker' = [worker EXCEPT ![w] = state]
Rest(w) == Becomes(w, Resting)

world == <<effect, operation, object, elapsed>>

(* dispatch: the first attempt, or the one retry allows after the boundary *)
(* was proven not crossed.                                                 *)
MayDispatch(n) ==
    \/ n = 1
    \/ n = 2 /\ 1 \in unsent /\ claim.state = "not_applied" /\ claim.decision = "allowed"

Dispatch(n) ==
    /\ worker["dispatcher"].pc = "idle"
    /\ worker["dispatcher"].attempt = n - 1
    /\ MayDispatch(n)
    /\ Becomes("dispatcher", [Resting EXCEPT !.pc = "read", !.attempt = n,
                                             !.held = {Reached(object)}])
    /\ UNCHANGED <<world, items, request, unsent, claim, left>>

(* observe is handed the evidence there is.                                *)
Observe ==
    /\ worker["observer"].pc = "idle"
    /\ Spend("looks")
    /\ Becomes("observer", [Resting EXCEPT !.pc = "read", !.prior = Len(items),
                                           !.held = {Reached(object)}])
    /\ UNCHANGED <<world, items, request, unsent, claim>>

(* One request of readOktaUserSnapshot or readStripeSnapshot.              *)
Read(w) ==
    LET job  == worker[w]
        part == Reads[job.next] IN
    /\ job.pc = "read"
    /\ Becomes(w, [job EXCEPT
         !.view = IF part \in DOMAIN @ THEN [@ EXCEPT ![part] = object[part]] ELSE @,
         !.next = @ + 1,
         !.pc = IF job.next = Len(Reads) THEN "seen" ELSE @])
    /\ UNCHANGED <<world, items, request, unsent, claim, left>>

SnapshotItem(w, windowElapsed) ==
    IF effect = "okta"
    THEN OktaSnapshot(worker[w].view.user, Desired, windowElapsed, worker[w].held)
    ELSE StripeSnapshot(effect, worker[w].view, windowElapsed, worker[w].held)

Reports(w, item, notSent) ==
    Becomes(w, [worker[w] EXCEPT !.pc = "report", !.item = item, !.unsent = notSent,
                                 !.view = Unread, !.next = 1])

(* What the dispatcher does about what it saw: nothing is left to do, the  *)
(* precondition is gone, or it writes.                                     *)
NothingToDo(view) ==
    \/ operation = "observe_only"
    \/ IF effect = "okta" THEN OktaGoal(view.user, Desired)
       ELSE LET e == StripeEvaluated(effect, view) IN e.goal \/ e.pending \/ e.failed

Legal(view) == IF effect = "okta" THEN OktaLegal(view.user, Desired)
               ELSE StripeLegal(effect, view)

Decide ==
    LET view == worker["dispatcher"].view IN
    /\ worker["dispatcher"].pc = "seen"
    /\ CASE NothingToDo(view) ->
              Reports("dispatcher", SnapshotItem("dispatcher", elapsed), FALSE)
         [] ~NothingToDo(view) /\ ~Legal(view) ->
              Reports("dispatcher", IF effect = "okta" THEN SnapshotItem("dispatcher", TRUE)
                                    ELSE TransportItem, TRUE)
         [] OTHER -> Becomes("dispatcher", [worker["dispatcher"] EXCEPT !.pc = "write"])
    /\ UNCHANGED <<world, items, request, unsent, claim, left>>

(* failureResult, failure: whether an error of the attempt proves that     *)
(* nothing was sent.  Okta's client reports every error after the send of  *)
(* a mutation as one of the transport; Stripe's adapter knows where it is. *)
ProvesNotSent(cause, sent) ==
    IF effect = "okta" THEN cause = "contract" /\ ~sent
    ELSE cause = "contract" /\ worker["dispatcher"].pc = "read"

(* A read of the dispatcher fails, or its mutation before it leaves.       *)
DispatchFails ==
    /\ worker["dispatcher"].pc \in {"read", "write"}
    /\ Spend("faults")
    /\ \E cause \in {"transport", "contract"} :
         Reports("dispatcher", TransportItem, ProvesNotSent(cause, FALSE))
    /\ UNCHANGED <<world, items, request, unsent, claim>>

Send ==
    LET n == worker["dispatcher"].attempt IN
    /\ worker["dispatcher"].pc = "write"
    /\ request' = [request EXCEPT ![n] = "flying"]
    /\ Becomes("dispatcher", [worker["dispatcher"] EXCEPT !.pc = "sent"])
    /\ UNCHANGED <<world, items, unsent, claim, left>>

(* The answer, success or not, is evidence of an answer only.              *)
Respond ==
    /\ worker["dispatcher"].pc = "sent"
    /\ request[worker["dispatcher"].attempt] # "flying"
    /\ Reports("dispatcher", ResponseItem, FALSE)
    /\ UNCHANGED <<world, items, request, unsent, claim, left>>

(* No answer, or one that cannot be read.                                  *)
ResponseFails ==
    /\ worker["dispatcher"].pc = "sent"
    /\ \E cause \in {"transport", "contract"} :
         /\ cause = "contract" => request[worker["dispatcher"].attempt] # "flying"
         /\ Reports("dispatcher", TransportItem, ProvesNotSent(cause, TRUE))
    /\ UNCHANGED <<world, items, request, unsent, claim, left>>

(* The runtime appends the adapter's evidence, and its own proof.          *)
AppendReported ==
    LET job == worker["dispatcher"]
        reported == WithItem(items, job.item) IN
    /\ job.pc = "report"
    /\ items' = IF job.unsent THEN WithItem(reported, NotSentItem) ELSE reported
    /\ unsent' = IF job.unsent THEN unsent \union {job.attempt} ELSE unsent
    /\ Becomes("dispatcher", [Resting EXCEPT !.attempt = job.attempt])
    /\ UNCHANGED <<world, request, claim, left>>

(* The observer's evidence: a snapshot, in which a record of an attempt    *)
(* not sent counts for the window.                                         *)
Prior == SubSeq(items, 1, worker["observer"].prior)

Observed ==
    /\ worker["observer"].pc = "seen"
    /\ Reports("observer",
               SupersedingLast(Prior, SnapshotItem("observer", elapsed \/ NotSentAmong(Prior))),
               FALSE)
    /\ UNCHANGED <<world, items, request, unsent, claim, left>>

(* A read fails.  Okta's adapter reports every failure; Stripe's throws    *)
(* what is no answer, and the runtime records that.                        *)
ObserveFails ==
    /\ worker["observer"].pc = "read"
    /\ Spend("faults")
    /\ \E category \in {"rate_limited", "unreadable", "transport"} :
         Reports("observer",
                 CASE effect = "okta" ->
                        SupersedingLast(Prior, FailureItem(IF category = "transport"
                                                           THEN "unreadable" ELSE category))
                   [] effect # "okta" /\ category = "transport" -> TransportItem
                   [] OTHER -> FailureItem(category), FALSE)
    /\ UNCHANGED <<world, items, request, unsent, claim>>

AppendObservation ==
    /\ worker["observer"].pc = "report"
    /\ items' = WithItem(items, worker["observer"].item)
    /\ Becomes("observer", [Resting EXCEPT !.pc = "derive"])
    /\ UNCHANGED <<world, request, unsent, claim, left>>

(* deriveAndPersist over the ledger as it is by then.                      *)
Derive ==
    LET a == IF effect = "okta" THEN OktaAssess(items) ELSE StripeAssess(items)
        d == IF effect = "okta" THEN OktaDecide(a) ELSE StripeDecide(a)
        floored == ApplySafetyFloors(IF effect = "okta" THEN OktaSpec ELSE StripeSpec,
                                     a.state, a.refs, d, ItemsAsEvidence(items)) IN
    /\ worker["observer"].pc = "derive"
    /\ claim' = [state |-> floored.state, cited |-> a.refs,
                 decision |-> floored.decision.retry]
    /\ Rest("observer")
    /\ UNCHANGED <<world, items, request, unsent, left>>

Next ==
    \/ \E n \in Tries : Dispatch(n) \/ Land(n) \/ Drop(n)
    \/ \E w \in Workers : Read(w)
    \/ Decide \/ DispatchFails \/ Send \/ Respond \/ ResponseFails \/ AppendReported
    \/ Observe \/ Observed \/ ObserveFails \/ AppendObservation \/ Derive
    \/ Change \/ WindowElapses

-----------------------------------------------------------------------------
(* The types of the variables.                                             *)
TypeOK ==
    /\ operation \in {"change", "observe_only"}
    /\ elapsed \in BOOLEAN
    /\ \A i \in DOMAIN items : items[i].supersedes \in 0..(i - 1)
    /\ request \in [Tries -> {"none", "flying", "landed", "dropped"}]
    /\ unsent \subseteq Tries
    /\ claim.state \in EffectStates \union {"none"}

(* An attempt an adapter calls "definitely_not_sent" never reaches the     *)
(* provider, wherever in it the error arose: the runtime lets such an      *)
(* attempt be repeated.                                                    *)
UnsentIsUntouched == \A n \in unsent : request[n] = "none"

(* Every certainty was true at some moment of the read it rests on, though *)
(* its parts were read at several: an effect claimed present was there,    *)
(* one attributed to this action was made by it, one claimed absent was    *)
(* not there.                                                              *)
ClaimsHeldWhenRead ==
    LET held == UNION {items[i].held : i \in claim.cited} IN
    /\ claim.state = "verified" => "mine" \in held
    /\ claim.state = "satisfied_unattributed" => held \intersect {"mine", "other"} # {}
    /\ claim.state = "not_applied" => "nobody" \in held
=============================================================================
