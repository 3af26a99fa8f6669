----------------------------- MODULE Continuation -----------------------------
(***************************************************************************)
(* Continuation leases of one action: POST /v1/actions/:id/continuation-   *)
(* leases authorises, reads the receipt and inserts, in that order and in   *)
(* statements of their own, while the action is reconciled; consuming is    *)
(* one statement.  The policy bound to the action never changes.            *)
(***************************************************************************)
EXTENDS Naturals

CONSTANTS
    Clients, Leases, Nothing,
    AutoContinuation, \* of the bound policy, in automatic mode
    Term,             \* how long a lease lasts
    MaxTime, MaxEvidence, MaxResolutions

VARIABLES
    now,
    evidence,         \* evidence_sequence: how many records there are
    drawn,            \* resolution_sequence: the numbers drawn
    saved,            \* the resolutions, by number, Nothing where none is saved
    reconciling,      \* the resolution being made
    lease, client

vars == <<now, evidence, drawn, saved, reconciling, lease, client>>

Idle == [pc |-> "idle", lease |-> Nothing, resolution |-> Nothing, sequence |-> Nothing,
         evidence |-> Nothing]

Init ==
    /\ now = 0
    /\ evidence = 0
    /\ drawn = 0
    /\ saved = [n \in 1..MaxResolutions |-> Nothing]
    /\ reconciling = Nothing
    /\ lease = [l \in Leases |-> Nothing]
    /\ client = [c \in Clients |-> Idle]

At(c, pc) == client[c].pc = pc
Become(c, new) == client' = [client EXCEPT ![c] = new]
Return(c) == Become(c, Idle)

-----------------------------------------------------------------------------
AppendEvidence ==
    /\ evidence < MaxEvidence
    /\ evidence' = evidence + 1
    /\ UNCHANGED <<now, drawn, saved, reconciling, lease, client>>

(* What the evidence means is the spec's; the number is drawn before the   *)
(* resolution is signed and saved.                                         *)
NextResolutionSequence ==
    /\ reconciling = Nothing /\ drawn < MaxResolutions
    /\ drawn' = drawn + 1
    /\ \E allowed \in BOOLEAN :
          reconciling' = [allowed |-> allowed, evidence |-> evidence]
    /\ UNCHANGED <<now, evidence, saved, lease, client>>

SaveResolution ==
    /\ reconciling # Nothing
    /\ saved' = [saved EXCEPT ![drawn] = reconciling]
    /\ reconciling' = Nothing
    /\ UNCHANGED <<now, evidence, drawn, lease, client>>

Saved == {n \in DOMAIN saved : saved[n] # Nothing}
Latest == IF Saved = {} THEN 0 ELSE CHOOSE n \in Saved : \A m \in Saved : m <= n

-----------------------------------------------------------------------------
(* authorizeContinuation of the resolution the client names.               *)
Authorize(c) ==
    /\ At(c, "idle")
    /\ Latest # 0
    /\ saved[Latest].evidence = evidence /\ saved[Latest].allowed
    /\ \E l \in {x \in Leases : lease[x] = Nothing} :
          Become(c, [Idle EXCEPT !.pc = "authorised", !.lease = l, !.resolution = Latest])
    /\ UNCHANGED <<now, evidence, drawn, saved, reconciling, lease>>

(* The receipt is the latest resolution, and that may be a later one.      *)
ReadReceipt(c) ==
    /\ At(c, "authorised")
    /\ Become(c, [client[c] EXCEPT !.pc = "read", !.sequence = Latest,
                                   !.evidence = saved[Latest].evidence])
    /\ UNCHANGED <<now, evidence, drawn, saved, reconciling, lease>>

(* SQL_AUTOMATIC_CONTINUATION_AUTHORITY, of the resolution that is named.   *)
Authority(resolution) == AutoContinuation /\ saved[resolution].allowed

Current(sequence, basis) == drawn = sequence /\ evidence = basis

(* issueContinuationLease.                                                 *)
IssueLease(c) ==
    /\ At(c, "read")
    /\ LET k == client[c] IN
       lease' = IF Authority(k.resolution) /\ Current(k.sequence, k.evidence)
                   /\ lease[k.lease] = Nothing
                THEN [lease EXCEPT ![k.lease] =
                        [resolution |-> k.resolution, sequence |-> k.sequence,
                         evidence |-> k.evidence, expires |-> now + Term,
                         consumed |-> FALSE, latest |-> Nothing]]
                ELSE lease
    /\ Return(c)
    /\ UNCHANGED <<now, evidence, drawn, saved, reconciling>>

(* consumeContinuationLease.  (latest: history, what was current then.)    *)
ConsumeLease(l) ==
    /\ lease[l] # Nothing
    /\ ~lease[l].consumed /\ lease[l].expires > now
    /\ Current(lease[l].sequence, lease[l].evidence)
    /\ Authority(lease[l].resolution)
    /\ lease' = [lease EXCEPT ![l].consumed = TRUE, ![l].latest = drawn]
    /\ UNCHANGED <<now, evidence, drawn, saved, reconciling, client>>

Tick ==
    /\ now < MaxTime
    /\ now' = now + 1
    /\ UNCHANGED <<evidence, drawn, saved, reconciling, lease, client>>

Next ==
    \/ AppendEvidence \/ NextResolutionSequence \/ SaveResolution \/ Tick
    \/ \E c \in Clients : Authorize(c) \/ ReadReceipt(c) \/ IssueLease(c)
    \/ \E l \in Leases : ConsumeLease(l)

Spec == Init /\ [][Next]_vars

-----------------------------------------------------------------------------
(* The types; a lease carries the sequences of a resolution that is saved. *)
TypeOK ==
    /\ {now, evidence, drawn} \subseteq Nat
    /\ \A n \in Saved : saved[n] \in [allowed : BOOLEAN, evidence : Nat]
    /\ \A l \in Leases : lease[l] # Nothing =>
          /\ {lease[l].resolution, lease[l].sequence} \subseteq Saved
          /\ lease[l].evidence = saved[lease[l].sequence].evidence

(* A consumed lease was of the resolution that was current when it was     *)
(* consumed: no later resolution had been made of the same action.         *)
LeaseIsOfCurrent ==
    \A l \in Leases : lease[l] # Nothing /\ lease[l].consumed =>
        lease[l].resolution = lease[l].latest
=============================================================================
