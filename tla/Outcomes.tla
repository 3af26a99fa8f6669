------------------------------- MODULE Outcomes -------------------------------
(***************************************************************************)
(* World facts and the evaluation of outcome instances.  Facts arrive from *)
(* several providers in any order; recorders and evaluators run beside     *)
(* each other, each in a transaction of its own; receipts are signed from  *)
(* several reads outside of one.  One contract, one subject, one property. *)
(***************************************************************************)
EXTENDS InvariantEngine, Sequences

CONSTANTS
    Workers,          \* recorders, evaluators and signers
    Providers,        \* sources registered as authoritative
    Values,           \* what they may report
    Required,         \* the required invariants of the contract
    Subject, Property,
    Instances,        \* requests for the outcome, of the one subject
    Freshness,        \* freshness_seconds, also of the facts
    Deadline,         \* timeout_seconds of the contract
    MaxTime, MaxWork, MaxCrashes  \* bounds

VARIABLES
    clock,
    facts,            \* nyst_world_facts
    slot, latch,      \* who holds each slot's advisory lock, each instance's row
    instance,         \* nyst_outcome_instances
    evaluated,        \* nyst_outcome_evaluations of each instance, by sequence
    receipts,         \* nyst_outcome_receipts
    worker,
    work, crashes

store == <<facts, instance, evaluated, receipts>>
vars  == <<clock, facts, slot, latch, instance, evaluated, receipts, worker, work, crashes>>

Unborn == [verdict |-> "indeterminate", lifecycle |-> "unborn", continuation |-> "hold",
           sequence |-> 0, deadline |-> 0]

Idle == [pc |-> "idle", provider |-> Null, instance |-> Null, observed |-> Null,
         incumbent |-> Null, basis |-> Null, row |-> Unborn, read |-> Null]

Init ==
    /\ clock = 0
    /\ facts = {}
    /\ slot = [p \in Providers |-> Null]
    /\ latch = [i \in Instances |-> Null]
    /\ instance = [i \in Instances |-> Unborn]
    /\ evaluated = [i \in Instances |-> <<>>]
    /\ receipts = {}
    /\ worker = [w \in Workers |-> Idle]
    /\ work = 0
    /\ crashes = 0

At(w, pc) == worker[w].pc = pc
Become(w, new) == worker' = [worker EXCEPT ![w] = new]
Goto(w, pc) == Become(w, [worker[w] EXCEPT !.pc = pc])
Return(w) == Become(w, Idle)
Begins(w) == At(w, "idle") /\ work < MaxWork /\ work' = work + 1

-----------------------------------------------------------------------------
(* recordFact.  The key of the slot is locked, not a row of it.            *)
Observe(w) ==
    /\ Begins(w)
    /\ \E p \in Providers, v \in Values, at \in 0..clock :
          Become(w, [Idle EXCEPT !.pc = "observed", !.provider = p,
                                 !.observed = [value |-> v, at |-> at]])
    /\ UNCHANGED <<clock, store, slot, latch, crashes>>

LockSlot(w) ==
    /\ At(w, "observed")
    /\ slot[worker[w].provider] = Null
    /\ slot' = [slot EXCEPT ![worker[w].provider] = w]
    /\ Goto(w, "slotted")
    /\ UNCHANGED <<clock, store, latch, work, crashes>>

Current(p) == {f \in facts : f.provider = p /\ f.current}

ReadIncumbent(w) ==
    /\ At(w, "slotted")
    /\ Become(w, [worker[w] EXCEPT
                    !.pc = "compared",
                    !.incumbent = IF Current(worker[w].provider) = {} THEN Null
                                  ELSE CHOOSE f \in Current(worker[w].provider) : TRUE])
    /\ UNCHANGED <<clock, store, slot, latch, work, crashes>>

(* A tie is not later.                                                     *)
Stale(w) ==
    /\ worker[w].incumbent # Null
    /\ worker[w].observed.at <= worker[w].incumbent.observed_at

Fact(w) == [subject |-> Subject, provider |-> worker[w].provider, property |-> Property,
            value |-> worker[w].observed.value, observed_at |-> worker[w].observed.at,
            fresh_until |-> worker[w].observed.at + Freshness, authoritative |-> TRUE,
            current |-> ~Stale(w)]

RecordFact(w) ==
    /\ At(w, "compared")
    /\ LET old == worker[w].incumbent
           kept == IF old = Null \/ Stale(w) THEN facts
                   ELSE (facts \ {old}) \union {[old EXCEPT !.current = FALSE]}
       IN  facts' = kept \union {Fact(w)}
    /\ slot' = [slot EXCEPT ![worker[w].provider] = Null]
    /\ Return(w)
    /\ UNCHANGED <<clock, latch, instance, evaluated, receipts, work, crashes>>

-----------------------------------------------------------------------------
Live == {i \in Instances : instance[i].lifecycle = "open"}

(* Defective form: without the index over live instances.                  *)
OpenRegardless(i) ==
    /\ work < MaxWork /\ work' = work + 1
    /\ instance[i].lifecycle = "unborn"
    /\ instance' = [instance EXCEPT ![i] = [Unborn EXCEPT !.lifecycle = "open",
                                                          !.deadline = clock + Deadline]]
    /\ UNCHANGED <<clock, facts, slot, latch, evaluated, receipts, worker, crashes>>

(* openInstance: another live request for the subject is refused.          *)
OpenInstance(i) ==
    /\ work < MaxWork /\ work' = work + 1
    /\ instance[i].lifecycle = "unborn" /\ Live = {}
    /\ instance' = [instance EXCEPT ![i] = [Unborn EXCEPT !.lifecycle = "open",
                                                          !.deadline = clock + Deadline]]
    /\ UNCHANGED <<clock, facts, slot, latch, evaluated, receipts, worker, crashes>>

StartEvaluation(w) ==
    /\ Begins(w)
    /\ \E i \in Instances :
          /\ instance[i].lifecycle # "unborn"
          /\ Become(w, [Idle EXCEPT !.pc = "evaluating", !.instance = i])
    /\ UNCHANGED <<clock, store, slot, latch, crashes>>

(* The row is locked; what it asks for and the time of the evaluation are  *)
(* taken from there, before the facts.                                     *)
LockInstance(w) ==
    /\ At(w, "evaluating")
    /\ latch[worker[w].instance] = Null
    /\ latch' = [latch EXCEPT ![worker[w].instance] = w]
    /\ Become(w, [worker[w] EXCEPT !.pc = "locked", !.row = instance[worker[w].instance],
                                   !.basis = [now |-> clock, facts |-> {}]])
    /\ UNCHANGED <<clock, store, slot, work, crashes>>

(* currentFactsOn, which may be later than the time they are judged at.    *)
CurrentFacts == {f \in facts : f.current}

ReadFacts(w) ==
    /\ At(w, "locked")
    /\ Become(w, [worker[w] EXCEPT !.pc = "judged", !.basis.facts = CurrentFacts])
    /\ UNCHANGED <<clock, store, slot, latch, work, crashes>>

VerdictOf(basis) ==
    EvaluateOutcome(Required, [facts |-> basis.facts, now |-> basis.now,
                               freshness |-> Freshness, capabilities |-> {}])

Lifecycle(verdict, row, now) ==
    IF now > row.deadline /\ verdict # "satisfied" THEN "timed_out"
    ELSE IF verdict = "satisfied" THEN "settled" ELSE "open"

(* The instance and its evaluation; an instance that would be live again   *)
(* beside a live one rolls everything back.                                *)
Written(i, row, basis) ==
    LET verdict == VerdictOf(basis)
        new == [row EXCEPT !.verdict = verdict,
                           !.lifecycle = Lifecycle(verdict, row, basis.now),
                           !.continuation = ContinuationFor(verdict),
                           !.sequence = @ + 1]
    IN  IF new.lifecycle = "open" /\ Live \ {i} # {}
        THEN UNCHANGED <<instance, evaluated>>
        ELSE /\ instance' = [instance EXCEPT ![i] = new]
             /\ evaluated' = [evaluated EXCEPT ![i] =
                                Append(@, [verdict |-> verdict, basis |-> basis])]

WriteEvaluation(w) ==
    /\ At(w, "judged")
    /\ Written(worker[w].instance, worker[w].row, worker[w].basis)
    /\ latch' = [latch EXCEPT ![worker[w].instance] = Null]
    /\ Return(w)
    /\ UNCHANGED <<clock, facts, slot, receipts, work, crashes>>

(* Defective form: the facts are read before the row is locked.            *)
ReadThenLock(w) ==
    \/ /\ At(w, "evaluating")
       /\ Become(w, [worker[w] EXCEPT !.pc = "judged",
                                      !.basis = [now |-> clock, facts |-> CurrentFacts]])
       /\ UNCHANGED <<clock, store, slot, latch, work, crashes>>
    \/ /\ At(w, "judged")
       /\ Written(worker[w].instance, instance[worker[w].instance], worker[w].basis)
       /\ Return(w)
       /\ UNCHANGED <<clock, facts, slot, latch, receipts, work, crashes>>

Evaluate(w) == LockInstance(w) \/ ReadFacts(w) \/ WriteEvaluation(w)

-----------------------------------------------------------------------------
(* issueReceipt: the instance is read, then the newest evaluation, which   *)
(* may be one later.  A receipt of that sequence is kept when there is one.*)
ReadInstance(w) ==
    /\ Begins(w)
    /\ \E i \in Instances :
          /\ instance[i].lifecycle # "unborn"
          /\ Become(w, [Idle EXCEPT !.pc = "attesting", !.instance = i, !.row = instance[i]])
    /\ UNCHANGED <<clock, store, slot, latch, crashes>>

ReadEvaluation(w) ==
    /\ At(w, "attesting")
    /\ IF evaluated[worker[w].instance] = <<>> THEN Return(w)
       ELSE Become(w, [worker[w] EXCEPT !.pc = "signing",
                                        !.read = Len(evaluated[worker[w].instance])])
    /\ UNCHANGED <<clock, store, slot, latch, work, crashes>>

Attests(i, sequence) == {r \in receipts : r.instance = i /\ r.sequence = sequence}

IssueReceipt(w) ==
    /\ At(w, "signing")
    /\ IF Attests(worker[w].instance, worker[w].row.sequence) = {}
       THEN receipts' = receipts \union
              {[instance |-> worker[w].instance, sequence |-> worker[w].row.sequence,
                verdict |-> worker[w].row.verdict, invariants |-> worker[w].read]}
       ELSE UNCHANGED receipts
    /\ Return(w)
    /\ UNCHANGED <<clock, facts, slot, latch, instance, evaluated, work, crashes>>

(* A crash rolls back, and releases every lock.                            *)
Crash(w) ==
    /\ ~At(w, "idle") /\ crashes < MaxCrashes
    /\ crashes' = crashes + 1
    /\ slot' = [p \in Providers |-> IF slot[p] = w THEN Null ELSE slot[p]]
    /\ latch' = [i \in Instances |-> IF latch[i] = w THEN Null ELSE latch[i]]
    /\ Return(w)
    /\ UNCHANGED <<clock, store, work>>

Tick ==
    /\ clock < MaxTime
    /\ clock' = clock + 1
    /\ UNCHANGED <<store, slot, latch, worker, work, crashes>>

Next ==
    \/ \E w \in Workers :
          \/ Observe(w) \/ LockSlot(w) \/ ReadIncumbent(w) \/ RecordFact(w)
          \/ StartEvaluation(w) \/ Evaluate(w)
          \/ ReadInstance(w) \/ ReadEvaluation(w) \/ IssueReceipt(w)
          \/ Crash(w)
    \/ \E i \in Instances : OpenInstance(i)
    \/ Tick

Spec == Init /\ [][Next]_vars

-----------------------------------------------------------------------------
FactType == [subject : {Subject}, provider : Providers, property : {Property},
             value : Values, observed_at : Nat, fresh_until : Nat,
             authoritative : {TRUE}, current : BOOLEAN]

(* The types of the tables; one live instance; as many evaluations as the  *)
(* instance counts, and the last of them is what it says.                  *)
TypeOK ==
    /\ {clock, work, crashes} \subseteq Nat
    /\ facts \subseteq FactType
    /\ slot \in [Providers -> Workers \union {Null}]
    /\ latch \in [Instances -> Workers \union {Null}]
    /\ Cardinality(Live) <= 1
    /\ \A i \in Instances :
          /\ instance[i].verdict \in Verdicts
          /\ instance[i].lifecycle \in {"unborn", "open", "settled", "timed_out"}
          /\ instance[i].continuation = ContinuationFor(instance[i].verdict)
          /\ instance[i].sequence = Len(evaluated[i])
          /\ evaluated[i] # <<>> => instance[i].verdict = evaluated[i][Len(evaluated[i])].verdict
    /\ \A r \in receipts : r.sequence > 0 => r.verdict = evaluated[r.instance][r.sequence].verdict

(* Of each provider exactly one fact is current, and none it ever reported *)
(* was observed later: a delayed observation does not undo a newer one.    *)
SlotHoldsNewest ==
    \A p \in Providers :
        LET reported == {f \in facts : f.provider = p}
        IN  reported # {} =>
              \E f \in Current(p) : /\ Current(p) = {f}
                                    /\ \A g \in reported : g.observed_at <= f.observed_at

(* A later evaluation never rests on older evidence than an earlier one.   *)
NewestOf(basis, p) ==
    {f.observed_at : f \in {g \in basis.facts : g.provider = p}}

EvidenceAdvances ==
    \A i \in Instances : \A n \in DOMAIN evaluated[i] : \A m \in 1..(n - 1) :
        \A p \in Providers : \A earlier \in NewestOf(evaluated[i][m].basis, p) :
            \E later \in NewestOf(evaluated[i][n].basis, p) : later >= earlier
=============================================================================
