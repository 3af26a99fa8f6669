------------------------------ MODULE Webhook -------------------------------
(***************************************************************************)
(* Delivery of one queued webhook event.  Delivery is at least once: a     *)
(* worker claims the event, numbers its attempt by those recorded so far,  *)
(* posts, and records what came of it.  The record is unique by number and *)
(* asks for no token; only what it does to the event does.                 *)
(***************************************************************************)
EXTENDS Naturals, FiniteSets

CONSTANTS
    Workers, NoOne,
    GiveUpAt,        \* the attempt whose failure is final (6)
    AttemptLimit,    \* the table's highest attempt number (8)
    MaxFaults        \* crashes and pauses: a bound

VARIABLES
    event,       \* the row of nyst_webhook_events
    attempts,    \* numbers of the rows of nyst_webhook_attempts
    accepted,    \* the receiver answered a post with success
    poster,
    faults

vars == <<event, attempts, accepted, poster, faults>>

Idle == [pc |-> "idle", attempt |-> 0]

Init ==
    /\ event = [status |-> "queued", due |-> TRUE, owner |-> NoOne, lease |-> "none"]
    /\ attempts = {}
    /\ accepted = FALSE
    /\ poster = [w \in Workers |-> Idle]
    /\ faults = 0

(* Nothing is left to deliver.                                             *)
Quiet ==
    /\ event = [status |-> "delivered", due |-> TRUE, owner |-> NoOne, lease |-> "none"]
    /\ attempts = {1}
    /\ accepted = TRUE
    /\ poster = [w \in Workers |-> Idle]
    /\ faults = 0

At(w, pc) == poster[w].pc = pc
Goto(w, pc) == poster' = [poster EXCEPT ![w].pc = pc]
Return(w) == poster' = [poster EXCEPT ![w] = Idle]

Claim(w) ==
    /\ At(w, "idle")
    /\ event.status = "queued" /\ event.due
    /\ event.owner = NoOne \/ event.lease = "lapsed"
    /\ event' = [event EXCEPT !.owner = w, !.lease = "live"]
    /\ poster' = [poster EXCEPT ![w] = [pc |-> "posting", attempt |-> Cardinality(attempts) + 1]]
    /\ UNCHANGED <<attempts, accepted, faults>>

(* A timeout says nothing of what the receiver did.                        *)
Post(w) ==
    /\ At(w, "posting")
    /\ \/ Goto(w, "accepted") /\ accepted' = TRUE
       \/ Goto(w, "refused") /\ accepted' \in {accepted, TRUE}
    /\ UNCHANGED <<event, attempts, faults>>

Recordable(attempt) == attempt \notin attempts /\ attempt <= AttemptLimit

(* An insert that fails is caught, and recorded as a failed delivery.      *)
RecordSuccess(w) ==
    /\ At(w, "accepted")
    /\ IF Recordable(poster[w].attempt)
       THEN /\ attempts' = attempts \union {poster[w].attempt}
            /\ event' = IF event.owner # w THEN event
                        ELSE [event EXCEPT !.status = "delivered", !.owner = NoOne, !.lease = "none"]
            /\ Return(w)
       ELSE Goto(w, "refused") /\ UNCHANGED <<attempts, event>>
    /\ UNCHANGED <<accepted, faults>>

(* Defective form: only the last number gives up, taken or not.            *)
FinalAtOnly(attempt) == attempt = GiveUpAt

Final(attempt) == attempt >= GiveUpAt

RecordFailure(w) ==
    /\ At(w, "refused")
    /\ IF Recordable(poster[w].attempt)
       THEN /\ attempts' = attempts \union {poster[w].attempt}
            /\ event' = IF event.owner # w THEN event
                        ELSE [status |-> IF Final(poster[w].attempt) THEN "given_up" ELSE "queued",
                              due |-> FALSE, owner |-> NoOne, lease |-> "none"]
       ELSE UNCHANGED <<attempts, event>>
    /\ Return(w)
    /\ UNCHANGED <<accepted, faults>>

FallsDue ==
    /\ event.status = "queued" /\ ~event.due
    /\ event' = [event EXCEPT !.due = TRUE]
    /\ UNCHANGED <<attempts, accepted, poster, faults>>

Lapse ==
    /\ event.lease = "live"
    /\ IF \E w \in Workers : event.owner = w /\ ~At(w, "idle")
       THEN faults < MaxFaults /\ faults' = faults + 1
       ELSE UNCHANGED faults
    /\ event' = [event EXCEPT !.lease = "lapsed"]
    /\ UNCHANGED <<attempts, accepted, poster>>

Crash(w) ==
    /\ ~At(w, "idle") /\ faults < MaxFaults
    /\ faults' = faults + 1
    /\ Return(w)
    /\ UNCHANGED <<event, attempts, accepted>>

Deliver(w) == Claim(w) \/ Post(w) \/ RecordSuccess(w) \/ RecordFailure(w)

Next == (\E w \in Workers : Deliver(w) \/ Crash(w)) \/ FallsDue \/ Lapse

(* Hosts deliver for ever and the database clock runs.                     *)
Fairness == /\ \A w \in Workers : WF_vars(Deliver(w))
            /\ WF_vars(FallsDue) /\ WF_vars(Lapse)

-----------------------------------------------------------------------------
TypeOK ==
    /\ event \in [status : {"queued", "delivered", "given_up"}, due : BOOLEAN,
                  owner : Workers \union {NoOne}, lease : {"none", "live", "lapsed"}]
    /\ event.owner = NoOne <=> event.lease = "none"
    /\ attempts \subseteq 1..AttemptLimit
    /\ accepted \in BOOLEAN
    /\ poster \in [Workers -> [pc : {"idle", "posting", "accepted", "refused"}, attempt : Nat]]
    /\ faults \in 0..MaxFaults

(* Every event is delivered, and then the receiver did accept it, or given *)
(* up after a bounded number of attempts.                                  *)
EventSettles ==
    event.status = "queued" ~>
        \/ event.status = "given_up"
        \/ event.status = "delivered" /\ accepted
=============================================================================
