---------------------------- MODULE Consequence -----------------------------
(***************************************************************************)
(* What the dispatch boundary promises for an effect without provider      *)
(* idempotency, whoever dispatches, recovers or retries it: a consequence  *)
(* is planned before it is attempted, crosses at most once, and is         *)
(* attempted again only after the attempt before it is known, truly, not   *)
(* to have crossed.                                                        *)
(***************************************************************************)
EXTENDS Naturals

CONSTANTS Actions, Budget

VARIABLES boundary,   \* what is durably known of each action
          attempts,   \* how often it was attempted
          crossed     \* the attempts that crossed

vars == <<boundary, attempts, crossed>>

Init == /\ boundary = [a \in Actions |-> "unplanned"]
        /\ attempts = [a \in Actions |-> 0]
        /\ crossed = [a \in Actions |-> {}]

Plan(a) ==
    /\ boundary[a] = "unplanned"
    /\ boundary' = [boundary EXCEPT ![a] = "closed"]
    /\ UNCHANGED <<attempts, crossed>>

(* From here until it is proven otherwise the action may have crossed.     *)
Open(a) ==
    /\ boundary[a] \in {"closed", "unsent"}
    /\ attempts[a] < Budget
    /\ boundary' = [boundary EXCEPT ![a] = "open"]
    /\ attempts' = [attempts EXCEPT ![a] = @ + 1]
    /\ UNCHANGED crossed

Cross(a) ==
    /\ boundary[a] = "open"
    /\ crossed[a] = {}
    /\ crossed' = [crossed EXCEPT ![a] = {attempts[a]}]
    /\ UNCHANGED <<boundary, attempts>>

ProveUnsent(a) ==
    /\ boundary[a] = "open"
    /\ crossed[a] = {}
    /\ boundary' = [boundary EXCEPT ![a] = "unsent"]
    /\ UNCHANGED <<attempts, crossed>>

Next == \E a \in Actions : Plan(a) \/ Open(a) \/ Cross(a) \/ ProveUnsent(a)

Spec == Init /\ [][Next]_vars
=============================================================================
