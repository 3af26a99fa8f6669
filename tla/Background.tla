----------------------------- MODULE Background -----------------------------
(***************************************************************************)
(* The background work of the worker hosts that is not recovery: looking   *)
(* after unresolved actions, and delivering webhooks.  The two share hosts *)
(* and no data, so one is followed while the other has nothing left to do. *)
(***************************************************************************)
EXTENDS Naturals

CONSTANTS Workers, NoOne, MaxAttempts, GiveUpAt, AttemptLimit, MaxFaults

ASSUME NoOneAssumption == NoOne \notin Workers
ASSUME AttemptsAssumption == MaxAttempts \in Nat \ {0} /\ MaxFaults \in Nat

(* Every failed post leaves room for the attempts of crashed ones.         *)
ASSUME DeliveriesAssumption ==
    /\ GiveUpAt \in Nat \ {0} /\ AttemptLimit \in Nat
    /\ GiveUpAt + MaxFaults <= AttemptLimit

VARIABLES
    effect, nextCheck, overdue, job, suppressed, review, request, recorded,
    worker, spent,
    event, attempts, accepted, poster, faults

Unresolved == INSTANCE Aftercare
Delivery   == INSTANCE Webhook

aftercare == <<effect, nextCheck, overdue, job, suppressed, review, request,
               recorded, worker, spent>>
delivery  == <<event, attempts, accepted, poster, faults>>
vars == <<aftercare, delivery>>

Init == \/ Unresolved!Init /\ Delivery!Quiet
        \/ Unresolved!Quiet /\ Delivery!Init

Next == \/ Unresolved!Next /\ UNCHANGED delivery
        \/ Delivery!Next /\ UNCHANGED aftercare

FairSpec == Init /\ [][Next]_vars /\ Unresolved!Fairness /\ Delivery!Fairness

(* Both parts' types.                                                      *)
TypeOK == Unresolved!TypeOK /\ Delivery!TypeOK

(* Automatic reconciliation does not strand.                               *)
KeepsLooking == Unresolved!KeepsLooking

(* A suppression really stops the automatic work.                          *)
SuppressionQuiesces == Unresolved!SuppressionQuiesces

(* An action unresolved past its deadline gets a human review.             *)
OverdueEscalates == Unresolved!OverdueEscalates

(* A re-observation somebody asked for is answered or handed back.         *)
RequestIsAnswered == Unresolved!RequestIsAnswered

(* Every event is delivered, or given up after a bounded number of tries.  *)
EventSettles == Delivery!EventSettles
=============================================================================
