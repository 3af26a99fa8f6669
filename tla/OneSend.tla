------------------------------ MODULE OneSend -------------------------------
(***************************************************************************)
(* What recovery promises about each external consequence, whoever runs    *)
(* it and however often: a durable journal says that a send may have begun *)
(* before it can begin, it opens once, one send follows at most, and it    *)
(* is closed as done only when the consequence really took effect.         *)
(***************************************************************************)
CONSTANT Consequences

VARIABLES
    journal,    \* what is durably known of each send
    permitted,  \* where somebody may still send
    sent,       \* where a request left
    landed      \* where it took effect

vars == <<journal, permitted, sent, landed>>

Init == /\ journal = [c \in Consequences |-> "unsent"]
        /\ permitted = {} /\ sent = {} /\ landed = {}

Open(c) == /\ journal[c] = "unsent"
           /\ journal' = [journal EXCEPT ![c] = "possible"]
           /\ permitted' = permitted \union {c}
           /\ UNCHANGED <<sent, landed>>

Send(c) == /\ c \in permitted \ sent
           /\ permitted' = permitted \ {c}
           /\ sent' = sent \union {c}
           /\ UNCHANGED <<journal, landed>>

(* The sender dies.                                                        *)
Forfeit(c) == /\ c \in permitted
              /\ permitted' = permitted \ {c}
              /\ UNCHANGED <<journal, sent, landed>>

Land(c) == /\ c \in sent \ landed
           /\ landed' = landed \union {c}
           /\ UNCHANGED <<journal, permitted, sent>>

Close(c) == /\ journal[c] = "possible" /\ c \in landed
            /\ journal' = [journal EXCEPT ![c] = "done"]
            /\ UNCHANGED <<permitted, sent, landed>>

Next == \E c \in Consequences : Open(c) \/ Send(c) \/ Forfeit(c) \/ Land(c) \/ Close(c)

Spec == Init /\ [][Next]_vars
=============================================================================
