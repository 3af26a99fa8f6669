------------------------------- MODULE Grants -------------------------------
(***************************************************************************)
(* Continuation grants of one outcome: what Nyst signs about the outcome   *)
(* and the approval that stands behind it, how a bearer has a grant        *)
(* validated, and its use, which is one statement.  Evaluations of the     *)
(* outcome, withdrawals and expiries come in between.                      *)
(***************************************************************************)
EXTENDS Naturals, Sequences

CONSTANTS
    Bearers, Ids, Absent,
    Approvals,          \* nyst_authority_exceptions: [agent, instance, effect, authorizes]
    Outcome,            \* this outcome instance
    Agents, Effects, Resources,
    Scopes,             \* what grants are asked for: their effects and resources
    MaxEvaluations, MaxQuestions

VARIABLES
    verdicts,           \* of the evaluations; before the first one, indeterminate
    approved,           \* the exceptions neither revoked nor expired
    grant,              \* nyst_continuation_grants
    bearer, questions

vars == <<verdicts, approved, grant, bearer, questions>>

Verdicts == {"satisfied", "unsatisfied", "indeterminate"}

(* The instance's row: its verdict and evaluation_sequence are set at once. *)
Verdict(sequence) == IF sequence = 0 THEN "indeterminate" ELSE verdicts[sequence]
Sequence == Len(verdicts)

(* with: what is to be signed.  id, agent, effect, resource: what is       *)
(* presented.  stood: history, whether the grant and its approval held at  *)
(* the read.                                                               *)
Idle == [pc |-> "idle", with |-> Absent, id |-> Absent, agent |-> Absent,
         effect |-> Absent, resource |-> Absent, stood |-> FALSE]

Init ==
    /\ verdicts = <<>>
    /\ approved \in SUBSET Approvals
    /\ grant = [i \in Ids |-> Absent]
    /\ bearer = [b \in Bearers |-> Idle]
    /\ questions = 0

At(b, pc) == bearer[b].pc = pc
Become(b, new) == bearer' = [bearer EXCEPT ![b] = new]
Return(b) == Become(b, Idle)
Ask(b, new) ==
    /\ At(b, "idle") /\ questions < MaxQuestions
    /\ questions' = questions + 1
    /\ Become(b, new)

Issued == {i \in Ids : grant[i] # Absent}

(* A scope that is left open covers everything.                            *)
Covers(scope, asked) == scope \in {Absent, asked}

Needed(verdict) ==
    IF verdict = "indeterminate" THEN "continuation_despite_indeterminate_outcome"
    ELSE "continuation_despite_unsatisfied_outcome"

(* Whether an approval of this kind and scope fits, alive or not.           *)
Fits(approval, agent, effects, verdict) ==
    /\ approval.authorizes = Needed(verdict)
    /\ Covers(approval.agent, agent)
    /\ Covers(approval.instance, Outcome)
    /\ approval.effect \in effects \union {Absent}

(* Defective form, as before v0.3.2: any reference will do.                *)
NoneIsNamed(approval, agent, effects, verdict) == approval = Absent

ExceptionCannotAuthorize(approval, agent, effects, verdict) ==
    approval \notin approved \/ ~Fits(approval, agent, effects, verdict)

-----------------------------------------------------------------------------
(* issueGrant reads the instance; without an exception, only of what is     *)
(* satisfied.                                                              *)
ReadOutcome(b, agent, scope, exception) ==
    LET verdict == Verdict(Sequence) IN
    /\ verdict = "satisfied" \/ exception # Absent
    /\ Ask(b, [Idle EXCEPT
                 !.pc = IF verdict = "satisfied" THEN "signing" ELSE "checking",
                 !.with = [agent |-> agent, permits |-> scope, exception |-> exception,
                           sequence |-> Sequence, verdict |-> verdict, ended |-> FALSE,
                           consumed |-> FALSE, uses |-> 0]])
    /\ UNCHANGED <<verdicts, approved, grant>>

CheckException(b) ==
    LET g == bearer[b].with IN
    /\ At(b, "checking")
    /\ IF ExceptionCannotAuthorize(g.exception, g.agent, g.permits.effects, g.verdict)
       THEN Return(b)
       ELSE Become(b, [bearer[b] EXCEPT !.pc = "signing"])
    /\ UNCHANGED <<verdicts, approved, grant, questions>>

(* Signed as it was read, whatever was evaluated since.                    *)
InsertGrant(b) ==
    /\ At(b, "signing")
    /\ \E i \in Ids \ Issued : grant' = [grant EXCEPT ![i] = bearer[b].with]
    /\ Return(b)
    /\ UNCHANGED <<verdicts, approved, questions>>

-----------------------------------------------------------------------------
(* validateGrant: the grant and the instance in one read ... (What contract*)
(* version the instance has was fixed when it was opened, so that this never*)
(* differs from the one that was signed.)                                  *)
Unusable(g, agent, effect, resource) ==
    \/ g.ended \/ g.consumed
    \/ ~Covers(g.agent, agent)
    \/ g.sequence # Sequence
    \/ effect \notin g.permits.effects \/ resource \notin g.permits.resources

Present(b, i, agent, effect, resource) ==
    /\ ~Unusable(grant[i], agent, effect, resource)
    /\ Ask(b, [pc |-> IF grant[i].exception = Absent THEN "using" ELSE "rechecking",
               with |-> Absent, id |-> i, agent |-> agent, effect |-> effect,
               resource |-> resource, stood |-> grant[i].exception \in approved \union {Absent}])
    /\ UNCHANGED <<verdicts, approved, grant>>

(* ... and the exception behind it in another.                             *)
RecheckException(b) ==
    LET k == bearer[b]
        g == grant[k.id]
    IN
    /\ At(b, "rechecking")
    /\ IF ExceptionCannotAuthorize(g.exception, k.agent, {k.effect}, g.verdict)
       THEN Return(b)
       ELSE Become(b, [k EXCEPT !.pc = "using"])
    /\ UNCHANGED <<verdicts, approved, grant, questions>>

(* consumeGrant.                                                           *)
Live(g) == ~g.consumed /\ ~g.ended

ConsumeGrant(b) ==
    LET i == bearer[b].id IN
    /\ At(b, "using")
    /\ grant' = IF Live(grant[i])
                THEN [grant EXCEPT ![i].consumed = TRUE, ![i].uses = @ + 1]
                ELSE grant
    /\ Return(b)
    /\ UNCHANGED <<verdicts, approved, questions>>

-----------------------------------------------------------------------------
(* revokeGrant, or its hour is over.                                       *)
RevokeGrant ==
    /\ \E i \in Issued : grant' = [grant EXCEPT ![i].ended = TRUE]
    /\ UNCHANGED <<verdicts, approved, bearer, questions>>

(* revokeException, or its time is over.                                   *)
WithdrawApproval ==
    /\ \E a \in approved : approved' = approved \ {a}
    /\ UNCHANGED <<verdicts, grant, bearer, questions>>

EvaluateOutcome ==
    /\ Sequence < MaxEvaluations
    /\ \E v \in Verdicts : verdicts' = Append(verdicts, v)
    /\ UNCHANGED <<approved, grant, bearer, questions>>

Next ==
    \/ RevokeGrant \/ WithdrawApproval \/ EvaluateOutcome
    \/ \E b \in Bearers :
          \/ \E agent \in Agents \union {Absent}, scope \in Scopes,
                exception \in Approvals \union {Absent} :
                ReadOutcome(b, agent, scope, exception)
          \/ CheckException(b) \/ InsertGrant(b)
          \/ \E i \in Issued, agent \in Agents \union {Absent}, effect \in Effects,
                resource \in Resources :
                Present(b, i, agent, effect, resource)
          \/ RecheckException(b) \/ ConsumeGrant(b)

Spec == Init /\ [][Next]_vars

-----------------------------------------------------------------------------
(* The types of the rows.                                                  *)
TypeOK ==
    /\ verdicts \in Seq(Verdicts) /\ approved \subseteq Approvals
    /\ \A i \in Issued :
          grant[i] \in [agent : Agents \union {Absent}, permits : Scopes,
                        exception : Approvals \union {Absent}, sequence : 0..MaxEvaluations,
                        verdict : Verdicts, ended : BOOLEAN, consumed : BOOLEAN, uses : Nat]
    /\ \A b \in Bearers : bearer[b].id \in Issued \union {Absent}

(* What is signed is a verdict the outcome had, and of one that was not     *)
(* satisfied, that an approval of the right kind and scope stood behind it;*)
(* "valid" is said only of a grant that, with its approval and for this     *)
(* consequence, stood at one moment of the call, though they are read       *)
(* apart; and bearers that were all told so use it once.                    *)
GrantsHold ==
    /\ \A i \in Issued : LET g == grant[i] IN
          /\ g.verdict = Verdict(g.sequence)
          /\ g.verdict # "satisfied" =>
                /\ g.exception # Absent
                /\ Fits(g.exception, g.agent, g.permits.effects, g.verdict)
          /\ g.uses <= 1
    /\ \A b \in Bearers : At(b, "using") =>
          LET k == bearer[b]
              g == grant[k.id]
          IN
          /\ k.stood
          /\ k.effect \in g.permits.effects /\ k.resource \in g.permits.resources
          /\ g.exception # Absent => Fits(g.exception, k.agent, {k.effect}, g.verdict)
=============================================================================
