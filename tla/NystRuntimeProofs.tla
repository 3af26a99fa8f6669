------------------------- MODULE NystRuntimeProofs --------------------------
(***************************************************************************)
(* Type correctness of the runtime, and the truth of what it claims of the *)
(* provider.  TypeOK is not inductive: a step of a caller needs to know    *)
(* what the caller carries where it stands (one that is not idle names     *)
(* an action, a "floor" has an outcome, a report to append is an entry).   *)
(* TypeInv adds that (JobsOK) and is.  TruthInv, over it, follows what     *)
(* is claimed of a mutation from the provider to the saved resolution.     *)
(***************************************************************************)
EXTENDS NystRuntime, SafetyFloorsProofs

(* The latest of some positions of a ledger is one of them, or 0.          *)
LEMMA LatestType ==
    ASSUME NEW n \in Nat, NEW positions, positions \subseteq 1..n
    PROVE  Latest(positions) \in Nat
<1>. DEFINE greatest == {i \in positions : \A j \in positions : j <= i}
<1>1. \A i \in greatest : i \in Nat
  OBVIOUS
<1>2. greatest # {} => (CHOOSE i \in greatest : TRUE) \in greatest
  <2>. HIDE DEF greatest
  <2>. QED  OBVIOUS
<1>3. Latest(positions) = IF greatest = {} THEN 0 ELSE CHOOSE i \in greatest : TRUE
  BY DEF Latest
<1>. HIDE DEF greatest
<1>4. QED
  BY <1>1, <1>2, <1>3

(* What either effect makes of any ledger is an effect state and a control *)
(* decision.                                                               *)
LEMMA OutcomeType == \A l : Outcome(l) \in Outcomes
<1>. SUFFICES ASSUME NEW l PROVE Outcome(l) \in Outcomes
  OBVIOUS
<1>1. GitHubOutcome(l) \in Outcomes
  <2>. DEFINE a == GitHubAssess(l)
  <2>1. a.state \in EffectStates
    BY DEF GitHubAssess, Assessment, EffectStates
  <2>2. a.recheck \in BOOLEAN
    BY DEF GitHubAssess, Assessment
  <2>. HIDE DEF a
  <2>3. GitHubDecide(a) \in ControlDecision
    BY <2>2 DEF GitHubDecide, Decision, ControlDecision, Primaries, Retries, Continuations, Recoveries
  <2>4. QED
    BY <2>1, <2>3, FlooredType DEF GitHubOutcome, Floored, Outcomes, a
<1>2. ReferenceOutcome(l) \in Outcomes
  <2>. DEFINE a == ReferenceAssess(l)
  <2>1. a.state \in EffectStates
    BY DEF ReferenceAssess, Assessment, EffectStates
  <2>. HIDE DEF a
  <2>2. ReferenceDecide(a) \in ControlDecision
    BY DEF ReferenceDecide, Decision, ControlDecision, Primaries, Retries, Continuations, Recoveries
  <2>3. QED
    BY <2>1, <2>2, FlooredType DEF ReferenceOutcome, Floored, Outcomes, a
<1>3. QED
  BY <1>1, <1>2 DEF Outcome

(* Appending keeps a ledger a ledger, and never shortens it.               *)
LEMMA AppendedType ==
    ASSUME NEW l \in Seq(Entry), NEW e \in Entry
    PROVE  Appended(l, e) \in Seq(Entry)
BY DEF Appended

(* A report by name is an entry, and so is what an adapter reads.          *)
LEMMA PlainType == \A fact \in Facts : Plain(fact) \in Entry
BY DEF Plain, Report, Entry

(* Whatever an adapter reads is an entry of the ledger.                    *)
LEMMA ReadType ==
    ASSUME TypeOK, NEW a \in Actions, NEW force \in BOOLEAN, NEW n \in Nat,
           NEW prior, DOMAIN prior = 1..n
    PROVE  Read(a, prior, force) \in Entry
<1>1. \A fact : Superseding(prior, fact) \in Nat
  BY LatestType DEF Superseding
<1>2. ReferenceRead(resource[a]) \in Facts
  BY DEF ReferenceRead, Facts, ReferenceReads
<1>3. \A goal, window \in BOOLEAN : GitHubSnapshot(goal, window) \in Facts
  BY DEF GitHubSnapshot, Facts, Snapshots
<1>4. resource[a].present \in BOOLEAN /\ elapsed[a] \in BOOLEAN /\ resource[a].version \in Nat
  BY DEF TypeOK
<1>5. QED
  BY <1>1, <1>2, <1>3, <1>4 DEF Read, Report, Entry

-----------------------------------------------------------------------------
(* TypeOK is inductive once every busy caller is known to be about an      *)
(* action, and one that floors a decision to have derived it.              *)
Carriers == {"report", "append", "reappend"}

JobsOK ==
    /\ job \in [Callers -> Jobs]
    /\ \A c \in Callers :
        /\ job[c].pc # "idle" => job[c].action \in Actions
        /\ job[c].pc = "floor" => job[c].outcome \in Outcomes
        /\ job[c].pc = "source" => Source[job[c].action] \in Actions
        /\ job[c].pc \in Carriers => job[c].report \in Entry

StoreOK ==
    /\ lifecycle \in [Actions -> InternalStates]
    /\ ledger \in [Actions -> Seq(Entry)]
    /\ row \in [Actions -> Rows]
    /\ saved \in [Actions -> [sequence : Nat, evidence : Nat,
                              outcome : Outcomes \union {NoOutcome}]]
    /\ owner \in [Hosts -> [Actions -> 0..AttemptBudget]]

WorldOK ==
    /\ request \in [Actions -> [Attempts -> {"none", "flying", "landed", "dropped"}]]
    /\ resource \in [Actions -> [present : BOOLEAN, mine : BOOLEAN, version : Nat]]
    /\ elapsed \in [Actions -> BOOLEAN]
    /\ undone \in [Actions -> Nat]
    /\ spent \in [DOMAIN Limits -> Nat]

TypeInv == JobsOK /\ StoreOK /\ WorldOK

(* The typing invariant is TypeOK and what callers carry.                  *)
LEMMA TypeInvIsTypeOK == TypeInv <=> TypeOK /\ JobsOK
BY DEF TypeInv, TypeOK, StoreOK, WorldOK, JobsOK

(* An idle caller is well typed.                                           *)
LEMMA IdleType ==
  /\ Idle \in Jobs
  /\ Idle.pc = "idle"
BY DEF Idle, Jobs, PCs, AttemptBudget

(* So is one that starts to reconcile.                                     *)
LEMMA ReconcilingType ==
    ASSUME NEW a \in Actions
    PROVE  /\ Reconciling(a) \in Jobs
           /\ Reconciling(a).pc = "normalize"
           /\ Reconciling(a).action = a
BY IdleType DEF Reconciling, Jobs, PCs, Operations

(* A caller may become any job that carries what its step needs.           *)
LEMMA Becomes ==
    ASSUME JobsOK, NEW c \in Callers, NEW j \in Jobs, Become(c, j),
           j.pc # "idle" => j.action \in Actions,
           j.pc = "floor" => j.outcome \in Outcomes,
           j.pc = "source" => Source[j.action] \in Actions,
           j.pc \in Carriers => j.report \in Entry
    PROVE  JobsOK'
BY DEF JobsOK, Become

(* Where a caller carries nothing but the action it is about.              *)
Plainly == PCs \ ({"floor", "source"} \union Carriers)

(* It may go where nothing but its action is needed,                       *)
LEMMA Goes ==
    ASSUME JobsOK, NEW c \in Callers, ~At(c, "idle"),
           NEW pc \in Plainly, Goto(c, pc)
    PROVE  JobsOK'
<1>. DEFINE j == [job[c] EXCEPT !.pc = pc]
<1>1. j \in Jobs /\ j.pc = pc /\ j.action \in Actions
  BY DEF JobsOK, Jobs, At, Plainly
<1>2. Become(c, j)
  BY DEF Goto
<1>. HIDE DEF j
<1>3. QED
  BY <1>1, <1>2, Becomes DEF Plainly, Carriers

(* ... return,                                                             *)
LEMMA Returns ==
    ASSUME JobsOK, NEW c \in Callers, Return(c)
    PROVE  JobsOK'
BY IdleType, Becomes DEF Return, Carriers

(* ... reconcile,                                                          *)
LEMMA Reconciles ==
    ASSUME JobsOK, NEW c \in Callers, ~At(c, "idle"), Reconcile(c)
    PROVE  JobsOK'
BY ReconcilingType, Becomes DEF Reconcile, At, JobsOK, Carriers


(* ... or change what it knows.                                            *)
LEMMA Revises ==
    ASSUME JobsOK, NEW c \in Callers, ~At(c, "idle"),
           NEW j \in Jobs, j.action = job[c].action, j.pc \in Plainly, Become(c, j)
    PROVE  JobsOK'
BY Becomes DEF JobsOK, At, Plainly, Carriers

(* It may set out to append an entry.                                      *)
LEMMA Reports ==
    ASSUME JobsOK, NEW c \in Callers, ~At(c, "idle"),
           NEW e \in Entry, NEW unsent \in BOOLEAN, Reported(c, e, unsent)
    PROVE  JobsOK'
<1>. DEFINE j == [job[c] EXCEPT !.pc = "report", !.report = e, !.unsent = unsent]
<1>0. "report" \in PCs /\ job[c] \in Jobs
  BY DEF PCs, JobsOK
<1>1. j \in Jobs /\ j.pc = "report" /\ j.action = job[c].action /\ j.report = e
  BY <1>0 DEF Jobs
<1>2. Become(c, j)
  BY DEF Reported
<1>. HIDE DEF j
<1>3. QED
  BY <1>1, <1>2, Becomes DEF JobsOK, At

(* What an exchange leaves to report is an entry.                          *)
LEMMA AnswersType == Failure \in Entry /\ Answer \in Entry
BY PlainType DEF Failure, Answer, Facts

(* Writing one row keeps the stores well typed.                            *)
LEMMA Writes ==
    ASSUME StoreOK, NEW a \in Actions, NEW r \in Rows, row' = [row EXCEPT ![a] = r],
           UNCHANGED <<lifecycle, ledger, saved, owner>>
    PROVE  StoreOK'
BY DEF StoreOK

(* The writes the stores make of a row give a row.                         *)
LEMMA RowFields ==
    ASSUME NEW r \in Rows, NEW status \in DispatchStatuses \union {"absent"},
           NEW n \in 0..AttemptBudget, NEW compensation \in {"none", "claimed", "finished"},
           NEW sequence \in Nat
    PROVE  /\ [r EXCEPT !.status = status] \in Rows
           /\ [r EXCEPT !.status = status, !.token = n] \in Rows
           /\ [r EXCEPT !.status = status, !.attempts = n, !.token = n] \in Rows
           /\ [r EXCEPT !.compensation = compensation] \in Rows
           /\ [r EXCEPT !.sequence = sequence] \in Rows
BY DEF Rows

(* Finishing a dispatch keeps the stores well typed.                       *)
LEMMA Finishes ==
    ASSUME StoreOK, NEW a \in Actions, NEW status \in DispatchStatuses, FinishDispatch(a, status),
           UNCHANGED <<lifecycle, ledger, saved, owner>>
    PROVE  StoreOK'
<1>0. row[a] \in Rows /\ 0 \in 0..AttemptBudget
  BY DEF StoreOK, AttemptBudget
<1>1. [row[a] EXCEPT !.status = status, !.token = 0] \in Rows
  BY <1>0 DEF Rows
<1>2. QED
  BY <1>1, Writes DEF FinishDispatch

(* Appending an entry keeps them well typed.                               *)
LEMMA Appends ==
    ASSUME StoreOK, NEW a \in Actions, NEW e \in Entry, AppendTo(a, e),
           UNCHANGED <<lifecycle, row, saved, owner>>
    PROVE  StoreOK'
<1>1. Appended(ledger[a], e) \in Seq(Entry)
  BY AppendedType DEF StoreOK
<1>2. QED
  BY <1>1 DEF AppendTo, StoreOK

(* Using up a bound keeps the world well typed.                            *)
LEMMA Spends ==
    ASSUME WorldOK, NEW budget \in DOMAIN Limits, Spend(budget),
           UNCHANGED <<request, resource, elapsed, undone>>
    PROVE  WorldOK'
BY DEF WorldOK, Spend

(* The bounds there are.                                                   *)
LEMMA LimitsDomain == DOMAIN Limits = {"calls", "crashes", "faults", "changes"}
BY DEF Limits

(* Every step of a caller preserves the typing invariant.                  *)
LEMMA TypeStep ==
    ASSUME TypeInv, NEW c \in Callers, Step(c)
    PROVE  TypeInv'
<1>. DEFINE a == job[c].action
<1>0. /\ JobsOK /\ StoreOK /\ WorldOK /\ TypeOK
      /\ job[c] \in Jobs
      /\ ~At(c, "idle") => a \in Actions /\ row[a] \in Rows
      /\ {"claim", "await", "steal", "register", "unsend", "settle", "observe", "reobserve",
          "append", "reappend", "derive", "recheck", "floor", "sequence", "save",
          "relist", "source"} \subseteq PCs
      /\ {"claim", "await", "steal", "register", "unsend", "settle", "observe", "reobserve",
          "derive", "recheck", "sequence", "save", "relist"} \subseteq Plainly
  BY TypeInvIsTypeOK DEF TypeInv, JobsOK, StoreOK, At, PCs, Plainly, Carriers
<1>1. CASE RecordIntent(c)
  <2>1. JobsOK'
    BY <1>0, <1>1, Goes, Returns, Reconciles DEF RecordIntent, At, Plainly, Carriers, PCs
  <2>2. StoreOK' /\ WorldOK'
    BY <1>0, <1>1, HostAssumption DEF RecordIntent, At, store, process, world, StoreOK, WorldOK, InternalStates
  <2>3. QED
    BY <2>1, <2>2 DEF TypeInv
<1>2. CASE Initialize(c)
  <2>1. JobsOK'
    BY <1>0, <1>2, Goes, Returns, Reconciles DEF Initialize, At, Plainly, Carriers, PCs
  <2>2. StoreOK' /\ WorldOK'
    <3>1. [row[a] EXCEPT !.status = IF @ = "absent" THEN "not_started" ELSE @] \in Rows
      BY <1>0, <1>2 DEF Initialize, At, Rows, DispatchStatuses
    <3>2. QED
      BY <1>0, <1>2, <3>1, Writes DEF Initialize, At, world, WorldOK
  <2>3. QED
    BY <2>1, <2>2 DEF TypeInv
<1>3. CASE EnsureDispatchPlan(c)
  <2>1. JobsOK'
    BY <1>0, <1>3, Goes, Returns, Reconciles DEF EnsureDispatchPlan, At, Plainly, Carriers, PCs
  <2>2. StoreOK' /\ WorldOK'
    BY <1>0, <1>3, HostAssumption DEF EnsureDispatchPlan, At, store, process, world, StoreOK, WorldOK, InternalStates
  <2>3. QED
    BY <2>1, <2>2 DEF TypeInv
<1>4. CASE Route(c)
  <2>1. JobsOK'
    <3>1. ASSUME NEW pc \in {"await", "steal"}, NEW n \in 0..AttemptBudget,
                 Become(c, [job[c] EXCEPT !.pc = pc, !.attempt = n])
          PROVE  JobsOK'
      <4>. DEFINE j == [job[c] EXCEPT !.pc = pc, !.attempt = n]
      <4>1. j \in Jobs /\ j.action = a /\ j.pc \in Plainly
        BY <1>0 DEF Jobs
      <4>. HIDE DEF j
      <4>2. QED
        BY <1>0, <1>4, <3>1, <4>1, Revises DEF Route, At, j
    <3>2. row[a].token \in 0..AttemptBudget /\ owner[HostOf[c]][a] \in 0..AttemptBudget
      BY <1>0, <1>4, HostAssumption DEF Route, At, StoreOK, Rows
    <3>3. ASSUME Guarded(c), Goto(c, "source")
          PROVE  JobsOK'
      <4>. DEFINE j == [job[c] EXCEPT !.pc = "source"]
      <4>1. j \in Jobs /\ j.action = a /\ j.pc = "source"
        BY <1>0 DEF Jobs
      <4>2. Source[a] \in Actions
        BY <1>0, <1>4, <3>3, SourceAssumption DEF Route, At, Guarded
      <4>. HIDE DEF j
      <4>3. QED
        BY <1>0, <1>4, <3>3, <4>1, <4>2, Becomes DEF Route, At, Goto, j, Carriers
    <3>4. QED
      BY <1>0, <1>4, <3>1, <3>2, <3>3, Goes, Reconciles DEF Route, At, Plainly, Carriers, PCs
  <2>2. StoreOK' /\ WorldOK'
    BY <1>0, <1>4, HostAssumption DEF Route, At, store, process, world, StoreOK, WorldOK, InternalStates
  <2>3. QED
    BY <2>1, <2>2 DEF TypeInv
<1>5. CASE CheckSource(c)
  <2>1. JobsOK'
    <3>. DEFINE s == Source[a]
                j == [job[c] EXCEPT !.pc = "claim", !.sequence = saved[s].sequence,
                                    !.evidence = saved[s].evidence]
    <3>1. CASE saved[s].sequence = job[c].want /\ Become(c, j)
      <4>1. s \in Actions
        BY <1>0, <1>5 DEF CheckSource, At, JobsOK
      <4>2. saved[s].sequence \in Nat /\ saved[s].evidence \in Nat
        BY <1>0, <4>1 DEF StoreOK
      <4>3. j \in Jobs /\ j.action = a /\ j.pc \in Plainly
        BY <1>0, <4>2 DEF Jobs
      <4>. HIDE DEF j
      <4>4. QED
        BY <1>0, <1>5, <3>1, <4>3, Revises DEF CheckSource, At
    <3>2. QED
      BY <1>0, <1>5, <3>1, Returns DEF CheckSource
  <2>2. StoreOK' /\ WorldOK'
    BY <1>0, <1>5, HostAssumption DEF CheckSource, At, store, process, world, StoreOK, WorldOK, InternalStates
  <2>3. QED
    BY <2>1, <2>2 DEF TypeInv
<1>6. CASE ClaimDispatch(c)
  <2>1. JobsOK'
    <3>. DEFINE n == row[a].attempts + 1
                live == owner[HostOf[c]][a]
                claimed == [Idle EXCEPT !.pc = "register", !.op = job[c].op, !.action = a,
                                        !.attempt = n]
                waiting == [job[c] EXCEPT !.pc = "await", !.attempt = live]
    <3>1. row[a].attempts \in 0..AttemptBudget /\ live \in 0..AttemptBudget
      BY <1>0, <1>6, HostAssumption DEF ClaimDispatch, At, StoreOK, Rows
    <3>2. CASE Claimable(c) /\ Become(c, claimed)
      <4>1. n \in 0..AttemptBudget
        BY <1>0, <3>1, <3>2 DEF Claimable, AttemptBudget
      <4>2. claimed \in Jobs /\ claimed.action = a /\ claimed.pc \in Plainly
        BY <1>0, <1>6, <4>1, IdleType DEF ClaimDispatch, At, Jobs
      <4>. HIDE DEF claimed
      <4>3. QED
        BY <1>0, <1>6, <3>2, <4>2, Revises DEF ClaimDispatch, At
    <3>3. CASE Become(c, waiting)
      <4>1. waiting \in Jobs /\ waiting.action = a /\ waiting.pc \in Plainly
        BY <1>0, <1>6, <3>1 DEF ClaimDispatch, At, Jobs
      <4>. HIDE DEF waiting
      <4>2. QED
        BY <1>0, <1>6, <3>3, <4>1, Revises DEF ClaimDispatch, At
    <3>4. CASE Become(c, AfterLostClaim(c))
      BY <1>0, <1>6, <3>4, Returns, Reconciles DEF ClaimDispatch, At, AfterLostClaim, Return, Reconcile
    <3>5. QED
      BY <1>0, <1>6, <3>2, <3>3, <3>4 DEF ClaimDispatch
  <2>2. StoreOK' /\ WorldOK'
    <3>1. CASE Claimable(c)
      <4>1. row[a] \in Rows /\ row[a].attempts \in 0..AttemptBudget
        BY <1>0, <1>6 DEF ClaimDispatch, At, Rows
      <4>2. row[a].attempts + 1 \in 0..AttemptBudget
        BY <1>0, <3>1, <4>1 DEF Claimable, AttemptBudget
      <4>3. [row[a] EXCEPT !.status = "claimed", !.attempts = row[a].attempts + 1,
                          !.token = row[a].attempts + 1] \in Rows
        BY <1>0, <4>1, <4>2 DEF Rows, DispatchStatuses
      <4>4. QED
        BY <1>0, <1>6, <3>1, <4>3, Writes DEF ClaimDispatch, At, world, WorldOK
    <3>2. CASE ~Claimable(c)
      BY <1>0, <1>6, <3>2 DEF ClaimDispatch, world, StoreOK, WorldOK
    <3>3. QED
      BY <1>0, <3>1, <3>2
  <2>3. QED
    BY <2>1, <2>2 DEF TypeInv
<1>7. CASE Register(c)
  <2>1. JobsOK'
    BY <1>0, <1>7, Goes, Returns, Reconciles DEF Register, At, Plainly, Carriers, PCs
  <2>2. StoreOK' /\ WorldOK'
    <3>1. job[c].attempt \in 0..AttemptBudget /\ HostOf[c] \in Hosts
      BY <1>0, HostAssumption DEF Jobs
    <3>2. QED
      BY <1>0, <1>7, <3>1 DEF Register, At, store, world, StoreOK, WorldOK
  <2>3. QED
    BY <2>1, <2>2 DEF TypeInv
<1>8. CASE CrossBoundary(c)
  <2>1. JobsOK'
    BY <1>0, <1>8, Goes, Returns, Reconciles DEF CrossBoundary, At, Plainly, Carriers, PCs
  <2>2. StoreOK' /\ WorldOK'
    BY <1>0, <1>8, Finishes
       DEF CrossBoundary, At, world, StoreOK, WorldOK, DispatchStatuses
  <2>3. QED
    BY <2>1, <2>2 DEF TypeInv
<1>9. CASE EnterDispatching(c)
  <2>1. JobsOK'
    BY <1>0, <1>9, Goes, Returns, Reconciles DEF EnterDispatching, At, Plainly, Carriers, PCs
  <2>2. StoreOK' /\ WorldOK'
    BY <1>0, <1>9, HostAssumption DEF EnterDispatching, At, store, process, world, StoreOK, WorldOK, InternalStates
  <2>3. QED
    BY <2>1, <2>2 DEF TypeInv
<1>10. CASE SendNothingToDo(c)
  <2>1. JobsOK'
    <3>1. Read(a, <<>>, FALSE) \in Entry
      <4>1. DOMAIN <<>> = 1..0
        OBVIOUS
      <4>2. QED
        BY <1>0, <1>10, <4>1, ReadType DEF SendNothingToDo, At
    <3>2. QED
      BY <1>0, <1>10, <3>1, Reports DEF SendNothingToDo, At
  <2>2. StoreOK' /\ WorldOK'
    BY <1>0, <1>10, HostAssumption DEF SendNothingToDo, At, store, process, world, StoreOK, WorldOK, InternalStates
  <2>3. QED
    BY <2>1, <2>2 DEF TypeInv
<1>10a. CASE Revalidate(c)
  <2>1. JobsOK'
    BY <1>0, <1>10a, Goes, Returns, Reconciles DEF Revalidate, At, Plainly, Carriers, PCs
  <2>2. StoreOK' /\ WorldOK'
    BY <1>0, <1>10a, HostAssumption DEF Revalidate, At, store, process, world, StoreOK, WorldOK, InternalStates
  <2>3. QED
    BY <2>1, <2>2 DEF TypeInv
<1>11. CASE SendStopped(c)
  <2>1. JobsOK'
    BY <1>0, <1>11, AnswersType, Reports DEF SendStopped, At
  <2>2. StoreOK' /\ WorldOK'
    BY <1>0, <1>11, Spends, LimitsDomain DEF SendStopped, store, world, StoreOK
  <2>3. QED
    BY <2>1, <2>2 DEF TypeInv
<1>12. CASE Send(c)
  <2>1. JobsOK'
    BY <1>0, <1>12, Goes, Returns, Reconciles DEF Send, At, Plainly, Carriers, PCs
  <2>2. StoreOK' /\ WorldOK'
    BY <1>0, <1>12, HostAssumption DEF Send, At, store, process, world, StoreOK, WorldOK, InternalStates
  <2>3. QED
    BY <2>1, <2>2 DEF TypeInv
<1>13. CASE Respond(c)
  <2>1. JobsOK'
    BY <1>0, <1>13, AnswersType, Reports DEF Respond, At
  <2>2. StoreOK' /\ WorldOK'
    BY <1>0, <1>13, HostAssumption DEF Respond, At, store, process, world, StoreOK, WorldOK, InternalStates
  <2>3. QED
    BY <2>1, <2>2 DEF TypeInv
<1>14. CASE SendTimesOut(c)
  <2>1. JobsOK'
    BY <1>0, <1>14, AnswersType, Reports DEF SendTimesOut, At
  <2>2. StoreOK' /\ WorldOK'
    BY <1>0, <1>14, HostAssumption DEF SendTimesOut, At, store, process, world, StoreOK, WorldOK, InternalStates
  <2>3. QED
    BY <2>1, <2>2 DEF TypeInv
<1>15. CASE AnswerUnreadable(c)
  <2>1. JobsOK'
    BY <1>0, <1>15, AnswersType, Reports DEF AnswerUnreadable, At
  <2>2. StoreOK' /\ WorldOK'
    BY <1>0, <1>15, HostAssumption DEF AnswerUnreadable, At, store, process, world, StoreOK, WorldOK, InternalStates
  <2>3. QED
    BY <2>1, <2>2 DEF TypeInv
<1>16. CASE AppendReport(c)
  <2>1. JobsOK'
    <3>. DEFINE j == [job[c] EXCEPT !.pc = IF job[c].unsent THEN "unsend" ELSE "settle",
                                    !.report = NoReport]
    <3>1. j \in Jobs /\ j.action = a /\ j.pc \in Plainly
      BY <1>0, <1>16 DEF AppendReport, At, StoreOK, Jobs
    <3>2. Become(c, j)
      BY <1>0, <1>16 DEF AppendReport
    <3>. HIDE DEF j
    <3>3. QED
      BY <1>0, <1>16, <3>1, <3>2, Revises DEF AppendReport, At
  <2>2. StoreOK' /\ WorldOK'
    <3>1. job[c].report \in Entry
      BY <1>0, <1>16 DEF AppendReport, At, JobsOK, Carriers
    <3>2. QED
      BY <1>0, <1>16, <3>1, Appends DEF AppendReport, At, world, WorldOK
  <2>3. QED
    BY <2>1, <2>2 DEF TypeInv
<1>17. CASE SetNotSent(c)
  <2>1. JobsOK'
    BY <1>0, <1>17, Goes, Returns, Reconciles DEF SetNotSent, At, Plainly, Carriers, PCs
  <2>2. StoreOK' /\ WorldOK'
    <3>1. [row[a] EXCEPT !.status = "definitely_not_sent"] \in Rows
      BY <1>0, <1>17 DEF SetNotSent, At, Rows, DispatchStatuses
    <3>2. QED
      BY <1>0, <1>17, <3>1, Writes DEF SetNotSent, At, world, StoreOK, WorldOK
  <2>3. QED
    BY <2>1, <2>2 DEF TypeInv
<1>18. CASE RecordNotSent(c)
  <2>1. JobsOK'
    BY <1>0, <1>18, Goes, Returns, Reconciles DEF RecordNotSent, At, Plainly, Carriers, PCs
  <2>2. StoreOK' /\ WorldOK'
    <3>1. Plain("not_sent") \in Entry
      BY PlainType DEF Facts
    <3>2. QED
      BY <1>0, <1>18, <3>1, Appends DEF RecordNotSent, At, world, WorldOK
  <2>3. QED
    BY <2>1, <2>2 DEF TypeInv
<1>19. CASE RecordCaught(c)
  <2>1. JobsOK'
    BY <1>0, <1>19, Goes, Returns, Reconciles DEF RecordCaught, At, Plainly, Carriers, PCs
  <2>2. StoreOK' /\ WorldOK'
    <3>1. Plain("transport") \in Entry
      BY PlainType DEF Facts
    <3>2. QED
      BY <1>0, <1>19, <3>1, Appends DEF RecordCaught, At, world, WorldOK
  <2>3. QED
    BY <2>1, <2>2 DEF TypeInv
<1>20. CASE Normalize(c)
  <2>1. JobsOK'
    <3>1. CASE UNCHANGED job
      BY <1>0, <3>1 DEF JobsOK
    <3>2. CASE \E pc \in {"settled", "list"} : Goto(c, pc)
      BY <1>0, <1>20, <3>2, Goes DEF Normalize, At, Plainly, Carriers, PCs
    <3>3. QED
      BY <1>20, <3>1, <3>2 DEF Normalize
  <2>2. StoreOK' /\ WorldOK'
    BY <1>0, <1>20, HostAssumption DEF Normalize, At, store, process, world, StoreOK, WorldOK, InternalStates
  <2>3. QED
    BY <2>1, <2>2 DEF TypeInv
<1>21. CASE Release(c)
  <2>1. JobsOK'
    <3>1. ASSUME NEW d \in Callers
          PROVE  \/ job'[d] = job[d] \/ job'[d] = Idle
                 \/ \E b \in Actions : job'[d] = Reconciling(b)
      BY <1>0, <1>21 DEF Release, At, Awaiting, AfterLostClaim, JobsOK
    <3>2. \A d \in Callers : job'[d] \in Jobs
      BY <1>0, <3>1, IdleType, ReconcilingType DEF JobsOK
    <3>3. \A d \in Callers : /\ job'[d].pc # "idle" => job'[d].action \in Actions
                             /\ job'[d].pc = "floor" => job'[d].outcome \in Outcomes
                             /\ job'[d].pc = "source" => Source[job'[d].action] \in Actions
                             /\ job'[d].pc \in Carriers => job'[d].report \in Entry
      BY <1>0, <3>1, IdleType, ReconcilingType DEF JobsOK, Carriers
    <3>4. job' \in [Callers -> Jobs]
      BY <1>0, <1>21, <3>2 DEF Release
    <3>5. QED
      BY <1>0, <3>3, <3>4 DEF JobsOK
  <2>2. StoreOK' /\ WorldOK'
    <3>1. \A n : (IF owner[HostOf[c]][a] = n THEN 0 ELSE owner[HostOf[c]][a]) \in 0..AttemptBudget
      BY <1>0, <1>21, HostAssumption DEF Release, At, StoreOK, AttemptBudget
    <3>2. QED
      BY <1>0, <1>21, <3>1, HostAssumption DEF Release, At, store, world, StoreOK, WorldOK
  <2>3. QED
    BY <2>1, <2>2 DEF TypeInv
<1>22. CASE StealClaim(c)
  <2>1. JobsOK'
    BY <1>0, <1>22, Goes, Returns, Reconciles DEF StealClaim, At, Plainly, Carriers, PCs
  <2>2. StoreOK' /\ WorldOK'
    BY <1>0, <1>22, Finishes
       DEF StealClaim, At, world, StoreOK, WorldOK, DispatchStatuses
  <2>3. QED
    BY <2>1, <2>2 DEF TypeInv
<1>23. CASE ListEvidence(c)
  <2>1. JobsOK'
    <3>. DEFINE j == [job[c] EXCEPT !.pc = IF @ = "list" THEN "observe" ELSE "reobserve",
                                    !.prior = Len(ledger[a])]
    <3>0. Len(ledger[a]) \in Nat
      BY <1>0, <1>23 DEF ListEvidence, At, StoreOK
    <3>1. j \in Jobs /\ j.action = a /\ j.pc \in Plainly
      BY <1>0, <1>23, <3>0 DEF Jobs
    <3>2. Become(c, j)
      BY <1>0, <1>23 DEF ListEvidence
    <3>. HIDE DEF j
    <3>3. QED
      BY <1>0, <1>23, <3>1, <3>2, Revises DEF ListEvidence, At
  <2>2. StoreOK' /\ WorldOK'
    BY <1>0, <1>23, HostAssumption DEF ListEvidence, At, store, process, world, StoreOK, WorldOK, InternalStates
  <2>3. QED
    BY <2>1, <2>2 DEF TypeInv
<1>24. CASE Observe(c)
  <2>1. JobsOK'
    <3>. DEFINE report == Read(a, Prior(c), ProvenNotSent(Prior(c)))
                j == [job[c] EXCEPT !.pc = IF @ = "observe" THEN "append" ELSE "reappend",
                                    !.report = report]
    <3>1. report \in Entry
      <4>1. job[c].prior \in Nat /\ DOMAIN Prior(c) = 1..job[c].prior
        BY <1>0 DEF Jobs, Prior
      <4>2. ProvenNotSent(Prior(c)) \in BOOLEAN
        BY DEF ProvenNotSent
      <4>3. QED
        BY <1>0, <1>24, <4>1, <4>2, ReadType DEF Observe, At
    <3>. HIDE DEF report
    <3>2. /\ j \in Jobs /\ j.action = a /\ j.report = report
          /\ j.pc \in {"append", "reappend"}
      BY <1>0, <3>1 DEF Jobs
    <3>3. Become(c, j)
      BY <1>0, <1>24 DEF Observe, report
    <3>. HIDE DEF j
    <3>4. QED
      BY <1>0, <1>24, <3>1, <3>2, <3>3, Becomes DEF Observe, At
  <2>2. StoreOK' /\ WorldOK'
    BY <1>0, <1>24, HostAssumption DEF Observe, At, store, process, world, StoreOK, WorldOK, InternalStates
  <2>3. QED
    BY <2>1, <2>2 DEF TypeInv
<1>25. CASE ObserveFails(c)
  <2>1. JobsOK'
    <3>1. ASSUME NEW fact \in {"transport"} \union ObservationFailures,
                 Become(c, [job[c] EXCEPT !.pc = IF @ = "observe" THEN "append" ELSE "reappend",
                                          !.report = Plain(fact)])
          PROVE  JobsOK'
      <4>. DEFINE j == [job[c] EXCEPT !.pc = IF @ = "observe" THEN "append" ELSE "reappend",
                                      !.report = Plain(fact)]
      <4>1. Plain(fact) \in Entry
        BY PlainType DEF Facts
      <4>2. /\ j \in Jobs /\ j.action = a /\ j.report = Plain(fact)
            /\ j.pc \in {"append", "reappend"}
        BY <1>0, <4>1 DEF Jobs
      <4>3. Become(c, j)
        BY <3>1
      <4>. HIDE DEF j
      <4>4. QED
        BY <1>0, <1>25, <4>1, <4>2, <4>3, Becomes DEF ObserveFails, At
    <3>2. QED
      BY <1>0, <1>25, <3>1, Returns DEF ObserveFails
  <2>2. StoreOK' /\ WorldOK'
    BY <1>0, <1>25, Spends, LimitsDomain DEF ObserveFails, store, world, StoreOK
  <2>3. QED
    BY <2>1, <2>2 DEF TypeInv
<1>26. CASE AppendObservation(c)
  <2>1. JobsOK'
    <3>. DEFINE j == [job[c] EXCEPT !.pc = IF @ = "append" THEN "derive" ELSE "recheck",
                                    !.prior = 0]
    <3>1. j \in Jobs /\ j.action = a /\ j.pc \in Plainly
      BY <1>0, <1>26 DEF AppendObservation, At, StoreOK, Jobs
    <3>2. Become(c, j)
      BY <1>0, <1>26 DEF AppendObservation
    <3>. HIDE DEF j
    <3>3. QED
      BY <1>0, <1>26, <3>1, <3>2, Revises DEF AppendObservation, At
  <2>2. StoreOK' /\ WorldOK'
    <3>1. job[c].report \in Entry
      BY <1>0, <1>26 DEF AppendObservation, At, JobsOK, Carriers
    <3>2. QED
      BY <1>0, <1>26, <3>1, Appends DEF AppendObservation, At, world, WorldOK
  <2>3. QED
    BY <2>1, <2>2 DEF TypeInv
<1>27. CASE Derive(c)
  <2>1. JobsOK'
    <3>. DEFINE l == ledger[a]
                j == [job[c] EXCEPT !.pc = "floor", !.outcome = Outcome(l),
                                    !.evidence = Len(l), !.report = NoReport]
    <3>1. Len(l) \in Nat /\ Outcome(l) \in Outcomes
      BY <1>0, <1>27, OutcomeType DEF Derive, At, StoreOK
    <3>2. j \in Jobs /\ j.action = a /\ j.outcome = Outcome(l) /\ j.pc = "floor"
      BY <1>0, <3>1 DEF Jobs
    <3>3. Become(c, j)
      BY <1>0, <1>27 DEF Derive
    <3>. HIDE DEF j, l
    <3>4. QED
      BY <1>0, <1>27, <3>1, <3>2, <3>3, Becomes DEF Derive, At, Carriers
  <2>2. StoreOK' /\ WorldOK'
    BY <1>0, <1>27, HostAssumption DEF Derive, At, store, process, world, StoreOK, WorldOK, InternalStates
  <2>3. QED
    BY <2>1, <2>2 DEF TypeInv
<1>28. CASE FloorBoundary(c)
  <2>1. JobsOK'
    <3>. DEFINE d == ApplyDispatchBoundaryFloor(job[c].outcome.decision, row[a].status,
                                                Idempotent, row[a].attempts)
                floored == [job[c].outcome EXCEPT !.decision = d]
                j == [job[c] EXCEPT !.pc = "sequence", !.outcome = floored]
    <3>1. job[c].outcome \in Outcomes
      BY <1>0, <1>28 DEF FloorBoundary, At, JobsOK
    <3>2. d \in ControlDecision
      BY <1>0, <3>1, BoundaryFloorType DEF Outcomes
    <3>. HIDE DEF d
    <3>3. floored \in Outcomes
      BY <1>0, <3>1, <3>2 DEF Outcomes
    <3>. HIDE DEF floored
    <3>4. j \in Jobs /\ j.action = a /\ j.pc \in Plainly
      BY <1>0, <3>3 DEF Jobs
    <3>5. Become(c, j)
      BY <1>0, <1>28 DEF FloorBoundary, d, floored
    <3>. HIDE DEF j
    <3>6. QED
      BY <1>0, <1>28, <3>4, <3>5, Revises DEF FloorBoundary, At
  <2>2. StoreOK' /\ WorldOK'
    BY <1>0, <1>28, HostAssumption DEF FloorBoundary, At, store, process, world, StoreOK, WorldOK, InternalStates
  <2>3. QED
    BY <2>1, <2>2 DEF TypeInv
<1>29. CASE NextResolutionSequence(c)
  <2>1. JobsOK'
    <3>. DEFINE j == [job[c] EXCEPT !.pc = "save", !.sequence = row[a].sequence + 1]
    <3>0. row[a].sequence + 1 \in Nat
      BY <1>0, <1>29 DEF NextResolutionSequence, At, Rows
    <3>1. j \in Jobs /\ j.action = a /\ j.pc \in Plainly
      BY <1>0, <1>29, <3>0 DEF Jobs
    <3>2. Become(c, j)
      BY <1>0, <1>29 DEF NextResolutionSequence
    <3>. HIDE DEF j
    <3>3. QED
      BY <1>0, <1>29, <3>1, <3>2, Revises DEF NextResolutionSequence, At
  <2>2. StoreOK' /\ WorldOK'
    <3>1. [row[a] EXCEPT !.sequence = @ + 1] \in Rows
      BY <1>0, <1>29 DEF NextResolutionSequence, At, Rows
    <3>2. QED
      BY <1>0, <1>29, <3>1, Writes DEF NextResolutionSequence, At, world, WorldOK
  <2>3. QED
    BY <2>1, <2>2 DEF TypeInv
<1>30. CASE SaveResolution(c)
  <2>1. JobsOK'
    BY <1>0, <1>30, Goes, Returns, Reconciles DEF SaveResolution, At, Plainly, Carriers, PCs
  <2>2. StoreOK' /\ WorldOK'
    <3>1. [sequence |-> job[c].sequence, evidence |-> job[c].evidence, outcome |-> job[c].outcome]
            \in [sequence : Nat, evidence : Nat, outcome : Outcomes \union {NoOutcome}]
      BY <1>0 DEF Jobs
    <3>2. QED
      BY <1>0, <1>30, <3>1 DEF SaveResolution, At, world, StoreOK, WorldOK
  <2>3. QED
    BY <2>1, <2>2 DEF TypeInv
<1>31. CASE RequireCurrent(c)
  <2>1. JobsOK'
    <3>. DEFINE j == [job[c] EXCEPT !.pc = "relist", !.sequence = saved[a].sequence,
                                    !.evidence = saved[a].evidence, !.outcome = saved[a].outcome]
    <3>1. CASE Become(c, j)
      <4>1. /\ saved[a].sequence \in Nat /\ saved[a].evidence \in Nat
            /\ saved[a].outcome \in Outcomes \union {NoOutcome}
        BY <1>0, <1>31 DEF RequireCurrent, At, StoreOK
      <4>2. j \in Jobs /\ j.action = a /\ j.pc \in Plainly
        BY <1>0, <4>1 DEF Jobs
      <4>. HIDE DEF j
      <4>3. QED
        BY <1>0, <1>31, <3>1, <4>2, Revises DEF RequireCurrent, At
    <3>2. QED
      BY <1>0, <1>31, <3>1, Returns DEF RequireCurrent
  <2>2. StoreOK' /\ WorldOK'
    BY <1>0, <1>31, HostAssumption DEF RequireCurrent, At, store, process, world, StoreOK, WorldOK, InternalStates
  <2>3. QED
    BY <2>1, <2>2 DEF TypeInv
<1>32. CASE CheckRetry(c)
  <2>1. JobsOK'
    <3>. DEFINE j == [Reconciling(a) EXCEPT !.pc = "derive"]
    <3>1. CASE Become(c, j)
      <4>1. j \in Jobs /\ j.action = a /\ j.pc \in Plainly
        BY <1>0, <1>32, ReconcilingType DEF CheckRetry, At, Jobs
      <4>. HIDE DEF j
      <4>2. QED
        BY <1>0, <1>32, <3>1, <4>1, Revises DEF CheckRetry, At
    <3>2. QED
      BY <1>0, <1>32, <3>1, Goes, Returns DEF CheckRetry, At, Plainly, Carriers, PCs
  <2>2. StoreOK' /\ WorldOK'
    BY <1>0, <1>32, HostAssumption DEF CheckRetry, At, store, process, world, StoreOK, WorldOK, InternalStates
  <2>3. QED
    BY <2>1, <2>2 DEF TypeInv
<1>33. CASE CheckNotSent(c)
  <2>1. JobsOK'
    BY <1>0, <1>33, Goes, Returns, Reconciles DEF CheckNotSent, At, Plainly, Carriers, PCs
  <2>2. StoreOK' /\ WorldOK'
    BY <1>0, <1>33, HostAssumption DEF CheckNotSent, At, store, process, world, StoreOK, WorldOK, InternalStates
  <2>3. QED
    BY <2>1, <2>2 DEF TypeInv
<1>34. CASE ClaimCompensation(c)
  <2>1. JobsOK'
    BY <1>0, <1>34, Goes, Returns, Reconciles DEF ClaimCompensation, At, Plainly, Carriers, PCs
  <2>2. StoreOK' /\ WorldOK'
    <3>1. [row[a] EXCEPT !.compensation = "claimed"] \in Rows
      BY <1>0, <1>34 DEF ClaimCompensation, At, Rows
    <3>2. QED
      BY <1>0, <1>34, <3>1, Writes DEF ClaimCompensation, At, world, StoreOK, WorldOK
  <2>3. QED
    BY <2>1, <2>2 DEF TypeInv
<1>35. CASE Compensate(c)
  <2>1. JobsOK'
    BY <1>0, <1>35, Goes, Returns, Reconciles DEF Compensate, At, Plainly, Carriers, PCs
  <2>2. StoreOK' /\ WorldOK'
    <3>0. undone' \in [Actions -> Nat]
      BY <1>0, <1>35 DEF Compensate, At, WorldOK
    <3>1. CASE resource[a].mine
      <4>1. [present |-> FALSE, mine |-> FALSE, version |-> resource[a].version + 1]
              \in [present : BOOLEAN, mine : BOOLEAN, version : Nat]
        BY <1>0, <1>35 DEF Compensate, At, WorldOK
      <4>2. spent' \in [DOMAIN Limits -> Nat]
        BY <1>0, <1>35, <3>1, LimitsDomain DEF Compensate, Spend, WorldOK
      <4>3. resource' \in [Actions -> [present : BOOLEAN, mine : BOOLEAN, version : Nat]]
        BY <1>0, <1>35, <3>1, <4>1 DEF Compensate, At, WorldOK
      <4>4. QED
        BY <1>0, <1>35, <3>0, <4>2, <4>3 DEF Compensate, store, StoreOK, WorldOK
    <3>2. CASE ~resource[a].mine
      BY <1>0, <1>35, <3>0, <3>2 DEF Compensate, store, StoreOK, WorldOK
    <3>3. QED
      BY <1>0, <3>1, <3>2
  <2>3. QED
    BY <2>1, <2>2 DEF TypeInv
<1>36. CASE AppendUndone(c)
  <2>1. JobsOK'
    BY <1>0, <1>36, Goes, Returns, Reconciles DEF AppendUndone, At, Plainly, Carriers, PCs
  <2>2. StoreOK' /\ WorldOK'
    <3>1. Plain("undone") \in Entry
      BY PlainType DEF Facts
    <3>2. QED
      BY <1>0, <1>36, <3>1, Appends DEF AppendUndone, At, world, WorldOK
  <2>3. QED
    BY <2>1, <2>2 DEF TypeInv
<1>37. CASE FinishCompensation(c)
  <2>1. JobsOK'
    BY <1>0, <1>37, Goes, Returns, Reconciles DEF FinishCompensation, At, Plainly, Carriers, PCs
  <2>2. StoreOK' /\ WorldOK'
    <3>1. [row[a] EXCEPT !.compensation = "finished"] \in Rows
      BY <1>0, <1>37 DEF FinishCompensation, At, Rows
    <3>2. QED
      BY <1>0, <1>37, <3>1, Writes DEF FinishCompensation, At, world, StoreOK, WorldOK
  <2>3. QED
    BY <2>1, <2>2 DEF TypeInv
<1>38. QED
  BY <1>1, <1>2, <1>3, <1>4, <1>5, <1>6, <1>7, <1>8, <1>9, <1>10, <1>10a, <1>11,
     <1>12, <1>13, <1>14, <1>15, <1>16, <1>17, <1>18, <1>19, <1>20, <1>21, <1>22,
     <1>23, <1>24, <1>25, <1>26, <1>27, <1>28, <1>29, <1>30, <1>31, <1>32, <1>33,
     <1>34, <1>35, <1>36, <1>37 DEF Step

(* A call starts out about an action, with what it was handed.             *)
LEMMA TypeCall ==
    ASSUME TypeInv, NEW c \in Callers, NEW op \in Operations, NEW a \in Actions, Call(c, op, a)
    PROVE  TypeInv'
<1>. DEFINE want == IF op = "retry" THEN saved[a].sequence
                    ELSE IF op = "commit" /\ Source[a] # NoAction
                    THEN saved[Source[a]].sequence ELSE 0
            pc == CASE op = "commit"     -> "intent"
                    [] op = "recover"    -> "initialize"
                    [] op = "reconcile"  -> "normalize"
                    [] op = "retry"      -> "current"
                    [] op = "compensate" -> "claim_undo"
            j == [Idle EXCEPT !.op = op, !.action = a, !.pc = pc, !.want = want]
<1>1. want \in Nat
  BY SourceAssumption DEF TypeInv, StoreOK
<1>2. pc \in Plainly
  BY DEF Operations, Plainly, Carriers, PCs
<1>. HIDE DEF want, pc
<1>3. j \in Jobs /\ j.action = a /\ j.pc = pc
  BY <1>1, <1>2, IdleType DEF Jobs, Plainly
<1>4. Become(c, j)
  BY DEF Call, want, pc
<1>. HIDE DEF j
<1>5. JobsOK'
  BY <1>2, <1>3, <1>4, Becomes DEF TypeInv, Plainly, Carriers
<1>6. StoreOK' /\ WorldOK'
  BY Spends, LimitsDomain DEF Call, TypeInv, store, world, StoreOK
<1>7. QED
  BY <1>5, <1>6 DEF TypeInv

(* So does every step of the processes and of the provider.                *)
LEMMA TypeEnvironment ==
    ASSUME TypeInv, Environment
    PROVE  TypeInv'
<1>0. JobsOK /\ StoreOK /\ WorldOK
  BY DEF TypeInv
<1>1. ASSUME NEW h \in Hosts, Crash(h)
      PROVE  TypeInv'
  <2>1. ASSUME NEW d \in Callers
        PROVE  job'[d] = job[d] \/ job'[d] = Idle
    BY <1>1 DEF Crash
  <2>2. job' \in [Callers -> Jobs]
    BY <1>0, <1>1, IdleType DEF Crash, JobsOK
  <2>3. JobsOK'
    BY <1>0, <2>1, <2>2, IdleType DEF JobsOK, Carriers
  <2>4. StoreOK'
    BY <1>0, <1>1 DEF Crash, store, StoreOK, AttemptBudget
  <2>5. WorldOK'
    BY <1>0, <1>1, Spends, LimitsDomain DEF Crash, world
  <2>6. QED
    BY <2>3, <2>4, <2>5 DEF TypeInv
<1>2. ASSUME NEW a \in Actions, NEW n \in Attempts, Land(a, n) \/ Drop(a, n)
      PROVE  TypeInv'
  <2>1. resource' \in [Actions -> [present : BOOLEAN, mine : BOOLEAN, version : Nat]]
    <3>1. [present |-> TRUE, mine |-> TRUE, version |-> resource[a].version + 1]
            \in [present : BOOLEAN, mine : BOOLEAN, version : Nat]
      BY <1>0 DEF WorldOK
    <3>2. QED
      BY <1>0, <1>2, <3>1 DEF Land, Drop, WorldOK
  <2>2. request' \in [Actions -> [Attempts -> {"none", "flying", "landed", "dropped"}]]
    <3>1. PICK v \in {"landed", "dropped"} : request' = [request EXCEPT ![a][n] = v]
      BY <1>2 DEF Land, Drop
    <3>2. QED
      BY <1>0, <3>1 DEF WorldOK
  <2>3. QED
    BY <1>0, <1>2, <2>1, <2>2 DEF Land, Drop, store, process, TypeInv, JobsOK, StoreOK, WorldOK
<1>3. ASSUME NEW a \in Actions, WindowElapses(a)
      PROVE  TypeInv'
  BY <1>0, <1>3 DEF WindowElapses, store, process, TypeInv, JobsOK, StoreOK, WorldOK
<1>4. ASSUME NEW a \in Actions, ExternalChange(a)
      PROVE  TypeInv'
  <2>1. [present |-> ~resource[a].present, mine |-> FALSE, version |-> resource[a].version + 1]
          \in [present : BOOLEAN, mine : BOOLEAN, version : Nat]
    BY <1>0 DEF WorldOK
  <2>2. resource' \in [Actions -> [present : BOOLEAN, mine : BOOLEAN, version : Nat]]
    BY <1>0, <1>4, <2>1 DEF ExternalChange, WorldOK
  <2>3. spent' \in [DOMAIN Limits -> Nat]
    BY <1>0, <1>4, LimitsDomain DEF ExternalChange, Spend, WorldOK
  <2>4. QED
    BY <1>0, <1>4, <2>2, <2>3 DEF ExternalChange, store, process, TypeInv, JobsOK, StoreOK, WorldOK
<1>5. QED
  BY <1>1, <1>2, <1>3, <1>4 DEF Environment

(* The typing invariant is inductive.                                      *)
LEMMA TypeNext == TypeInv /\ [Next]_vars => TypeInv'
<1>. SUFFICES ASSUME TypeInv, [Next]_vars PROVE TypeInv'
  OBVIOUS
<1>1. CASE Next
  BY <1>1, TypeStep, TypeCall, TypeEnvironment DEF Next
<1>2. CASE UNCHANGED vars
  BY <1>2 DEF vars, TypeInv, JobsOK, StoreOK, WorldOK
<1>3. QED
  BY <1>1, <1>2

(* It holds initially.                                                     *)
LEMMA TypeInit == Init => TypeInv
<1>. SUFFICES ASSUME Init PROVE TypeInv
  OBVIOUS
<1>1. JobsOK
  BY IdleType DEF Init, JobsOK, Carriers
<1>2. StoreOK
  BY DEF Init, StoreOK, NoRow, NoOutcome, Rows, InternalStates, AttemptBudget
<1>3. WorldOK
  BY DEF Init, WorldOK
<1>4. QED
  BY <1>1, <1>2, <1>3 DEF TypeInv

(* It holds in every reachable state.                                      *)
LEMMA TypeInvariant == Spec => []TypeInv
<1>1. QED
  BY TypeInit, TypeNext, PTL DEF Spec

(* Every variable of the runtime keeps its type, for any number of callers,*)
(* hosts, actions and calls.                                               *)
THEOREM RuntimeType == Spec => []TypeOK
<1>1. TypeInv => TypeOK
  BY TypeInvIsTypeOK
<1>2. QED
  BY <1>1, TypeInvariant, PTL

-----------------------------------------------------------------------------
(* What is claimed of an action is true of the provider.  TruthInv follows *)
(* a claim from the provider (a request landed, the object is the action's *)
(* own, the compensation was issued) over the read, the evidence appended  *)
(* and the outcome derived, to the resolution that is saved.               *)
Landed(a) == \E n \in Attempts : request[a][n] = "landed"

Reverted(a) == undone[a] = 1 /\ ~resource[a].mine /\ Landed(a)

(* What an effect state claims of the provider.                            *)
Founded(state, a) ==
    /\ state = "verified" => Landed(a)
    /\ state = "compensated" => Compensable /\ Reverted(a)

Undoing  == {"claim_undo", "undo", "report_undone", "finish_undo"}
Unissued == {"register", "boundary", "dispatching", "send", "write"}
Telling  == {"applied", "undone"}

(* What an action's ledger says of the provider.                           *)
LedgerTrue(a) ==
    \A i \in DOMAIN ledger[a] :
        /\ ledger[a][i].fact = "applied" => Landed(a)
        /\ ledger[a][i].fact = "undone" => Compensable /\ Reverted(a)

(* A request beyond the attempts claimed is never issued.                  *)
Fresh(a) == \A n \in Attempts : n > row[a].attempts => request[a][n] = "none"

Grounded(a) ==
    /\ resource[a].mine => Landed(a)
    /\ LedgerTrue(a)
    /\ Founded(saved[a].outcome.state, a)
    /\ undone[a] <= 1
    /\ row[a].compensation = "none" => undone[a] = 0
    /\ Fresh(a)

(* A caller outside the dispatch and the compensation protocols, that      *)
(* carries neither report nor outcome, claims nothing.                     *)
Blank(j) ==
    /\ j.report = NoReport /\ j.outcome = NoOutcome
    /\ j.pc \notin Undoing \union Unissued

Carried(j) ==
    /\ Blank(j) \/ j.action \in Actions
    /\ j.report.fact = "applied" => Landed(j.action)
    /\ j.report.fact # "undone"
    /\ Founded(j.outcome.state, j.action)
    /\ j.pc \in Undoing => Compensable
    /\ j.pc = "undo" => row[j.action].compensation # "none" /\ undone[j.action] = 0
    /\ j.pc \in {"report_undone", "finish_undo"} => Reverted(j.action)
    /\ j.pc \in Unissued => /\ 1 <= j.attempt /\ j.attempt <= row[j.action].attempts
                            /\ request[j.action][j.attempt] = "none"

(* No two callers are about to issue the same attempt, or to undo the same *)
(* action.                                                                 *)
Exclusive(j, k) ==
    j.action = k.action =>
      /\ j.pc \in Unissued /\ k.pc \in Unissued => j.attempt # k.attempt
      /\ ~(j.pc = "undo" /\ k.pc = "undo")

TruthInv ==
    /\ \A a \in Actions : Grounded(a)
    /\ \A c \in Callers : Carried(job[c])
    /\ \A c, d \in Callers : c # d => Exclusive(job[c], job[d])

-----------------------------------------------------------------------------
(* An effect verifies, or calls compensated, what its ledger was told.      *)
LEMMA OutcomeFounded ==
    ASSUME NEW l
    PROVE  /\ Outcome(l).state = "verified" => \E i \in DOMAIN l : l[i].fact = "applied"
           /\ Outcome(l).state = "compensated" => \E i \in DOMAIN l : l[i].fact = "undone"
<1>1. GitHubOutcome(l).state \notin {"verified", "compensated"}
  <2>1. GitHubAssess(l).state \notin {"verified", "compensated"}
    BY DEF GitHubAssess, Assessment
  <2>2. QED
    BY <2>1, FlooredClaim DEF GitHubOutcome, Floored
<1>2. /\ ReferenceAssess(l).state = "verified" => \E i \in DOMAIN l : l[i].fact = "applied"
      /\ ReferenceAssess(l).state = "compensated" => \E i \in DOMAIN l : l[i].fact = "undone"
  BY DEF ReferenceAssess, Assessment
<1>3. /\ ReferenceOutcome(l).state = "verified" => ReferenceAssess(l).state = "verified"
      /\ ReferenceOutcome(l).state = "compensated" => ReferenceAssess(l).state = "compensated"
  BY FlooredClaim DEF ReferenceOutcome, Floored
<1>4. QED
  BY <1>1, <1>2, <1>3 DEF Outcome

(* Of a caller that carries nothing, nothing is claimed.                   *)
LEMMA BlankCarried ==
    ASSUME NEW j, Blank(j)
    PROVE  Carried(j)
BY DEF Blank, Carried, Founded, NoReport, NoOutcome, Undoing

(* A caller that returned or starts to reconcile is such a caller.          *)
LEMMA BlankJobs == Blank(Idle) /\ \A a \in Actions : Blank(Reconciling(a))
BY DEF Blank, Idle, Reconciling, Undoing, Unissued

(* A caller that goes on with what it has.                                 *)
Follows(j, k) ==
    /\ k.action = j.action
    /\ k.report = j.report \/ k.report.fact \notin Telling
    /\ k.outcome.state = j.outcome.state \/ k.outcome.state \notin {"verified", "compensated"}
    /\ k.pc \notin Undoing
    /\ k.pc \in Unissued => j.pc \in Unissued /\ k.attempt = j.attempt

(* What it carries stays true of it.                                       *)
LEMMA FollowsCarried ==
    ASSUME NEW j, NEW k, j.action \in Actions, Carried(j), Follows(j, k)
    PROVE  Carried(k)
BY DEF Carried, Follows, Founded, Telling, Undoing

(* What no step outside the dispatch of a mutation takes back.             *)
Steady ==
    \A a \in Actions :
        /\ Landed(a) => Landed(a)'
        /\ Compensable /\ Reverted(a) => Reverted(a)'
        /\ row'[a].attempts >= row[a].attempts
        /\ row[a].compensation # "none" => row'[a].compensation # "none"
        /\ undone'[a] = undone[a]
        /\ \A n \in Attempts : request[a][n] = "none" => request'[a][n] = "none"

(* A steady step keeps a claim founded,                                    *)
LEMMA FoundedKept ==
    ASSUME Steady, NEW a \in Actions, NEW state, Founded(state, a)
    PROVE  Founded(state, a)'
BY DEF Steady, Founded

(* ... and what is known of a caller that does not move.                   *)
LEMMA CarriedKept ==
    ASSUME TypeInv, TypeInv', Steady, NEW j \in Jobs, Carried(j)
    PROVE  Carried(j)'
<1>1. CASE Blank(j)
  <2>1. Founded(j.outcome.state, j.action)'
    BY <1>1 DEF Blank, NoOutcome, Founded
  <2>2. QED
    BY <1>1, <2>1 DEF Blank, Carried, NoReport, Undoing
<1>2. CASE j.action \in Actions
  <2>. DEFINE a == j.action
  <2>1. Founded(j.outcome.state, a)'
    BY <1>2, FoundedKept DEF Carried
  <2>2. j.pc \in Unissued => /\ 1 <= j.attempt /\ j.attempt <= row'[a].attempts
                             /\ request'[a][j.attempt] = "none"
    <3>1. SUFFICES ASSUME j.pc \in Unissued
                   PROVE  /\ 1 <= j.attempt /\ j.attempt <= row'[a].attempts
                          /\ request'[a][j.attempt] = "none"
      OBVIOUS
    <3>2. /\ 1 <= j.attempt /\ j.attempt <= row[a].attempts
          /\ request[a][j.attempt] = "none"
          /\ j.attempt \in 0..AttemptBudget
      BY <3>1 DEF Carried, Jobs
    <3>3. j.attempt \in Attempts /\ row[a].attempts \in 0..AttemptBudget
      BY <1>2, <3>2 DEF Attempts, AttemptBudget, TypeInv, StoreOK, Rows
    <3>6. row'[a].attempts \in Nat
      BY <1>2 DEF TypeInv, StoreOK, Rows
    <3>4. row'[a].attempts >= row[a].attempts /\ request'[a][j.attempt] = "none"
      BY <1>2, <3>2, <3>3 DEF Steady
    <3>5. QED
      BY <3>2, <3>3, <3>4, <3>6
  <2>3. /\ j.report.fact = "applied" => Landed(a)'
        /\ j.pc = "undo" => row'[a].compensation # "none" /\ undone'[a] = 0
        /\ j.pc \in {"report_undone", "finish_undo"} => Reverted(a)'
    BY <1>2 DEF Carried, Steady, Undoing
  <2>4. QED
    BY <1>2, <2>1, <2>2, <2>3 DEF Carried
<1>3. QED
  BY <1>1, <1>2 DEF Carried
(* A step that leaves the ledgers, the saved resolutions and the provider  *)
(* as they were, and whoever moves in these two ways, keeps the invariant. *)
LEMMA Settles ==
    ASSUME TypeInv, TypeInv', TruthInv, Steady,
           \A a \in Actions : Grounded(a)',
           \A d \in Callers :
              \/ job'[d] = job[d]
              \/ Blank(job'[d])
              \/ job[d].action \in Actions /\ Follows(job[d], job'[d])
    PROVE  TruthInv'
<1>1. ASSUME NEW d \in Callers
      PROVE  Carried(job[d])'
  <2>1. PICK j, k : j = job[d] /\ k = job'[d]
    OBVIOUS
  <2>2. j \in Jobs /\ k \in Jobs /\ Carried(j)
    BY <2>1 DEF TypeInv, JobsOK, TruthInv
  <2>3. Carried(k)
    BY <2>1, <2>2, FollowsCarried, BlankCarried
  <2>4. Carried(k)'
    BY <2>2, <2>3, CarriedKept
  <2>5. QED
    BY <2>1, <2>4 DEF Carried, Blank
<1>2. ASSUME NEW c \in Callers, NEW d \in Callers, c # d
      PROVE  Exclusive(job'[c], job'[d])
  <2>1. \A e \in Callers :
          /\ job'[e].pc = "undo" => job[e].pc = "undo" /\ job'[e].action = job[e].action
          /\ job'[e].pc \in Unissued => /\ job[e].pc \in Unissued
                                        /\ job'[e].action = job[e].action
                                        /\ job'[e].attempt = job[e].attempt
    BY DEF Blank, Follows, Undoing
  <2>2. Exclusive(job[c], job[d])
    BY <1>2 DEF TruthInv
  <2>3. QED
    BY <2>1, <2>2 DEF Exclusive
<1>3. QED
  BY <1>1, <1>2 DEF TruthInv, Exclusive

(* What is known of an action is kept by a steady step that changes none   *)
(* of what it is known from.                                               *)
LEMMA GroundedKept ==
    ASSUME TypeInv, TypeInv', Steady, NEW a \in Actions, Grounded(a),
           resource'[a].mine => Landed(a)',
           ledger'[a] = ledger[a] \/ LedgerTrue(a)',
           saved'[a] = saved[a] \/ Founded(saved[a].outcome.state, a)',
           row'[a].compensation = row[a].compensation,
           \A n \in Attempts : n > row[a].attempts => request'[a][n] = "none"
    PROVE  Grounded(a)'
<1>1. LedgerTrue(a)'
  BY DEF Grounded, LedgerTrue, Steady
<1>2. Founded(saved[a].outcome.state, a)'
  <2>1. CASE saved'[a] = saved[a]
    <3>1. PICK s : s = saved[a].outcome.state
      OBVIOUS
    <3>2. Founded(s, a)'
      BY <3>1, FoundedKept DEF Grounded
    <3>3. QED
      BY <2>1, <3>1, <3>2 DEF Founded
  <2>2. QED
    BY <2>1
<1>3. Fresh(a)'
  <2>1. row[a].attempts \in Nat
    BY DEF TypeInv, StoreOK, Rows
  <2>2. row'[a].attempts \in Nat
    BY DEF TypeInv, StoreOK, Rows
  <2>3. \A n \in Attempts : n \in Nat
    BY DEF Attempts, AttemptBudget
  <2>4. row'[a].attempts >= row[a].attempts
    BY DEF Steady
  <2>5. QED
    BY <2>1, <2>2, <2>3, <2>4 DEF Fresh
<1>4. QED
  BY <1>1, <1>2, <1>3 DEF Grounded, Steady, Founded

(* The provider unchanged.                                                 *)
Rested ==
    /\ UNCHANGED <<request, resource, undone>>
    /\ \A a \in Actions : /\ row'[a].attempts = row[a].attempts
                          /\ row'[a].compensation = row[a].compensation

(* Then the step is steady,                                                *)
LEMMA RestedSteady ==
    ASSUME TypeInv, Rested
    PROVE  Steady
<1>1. \A a \in Actions : row[a].attempts \in Nat
  BY DEF TypeInv, StoreOK, Rows
<1>2. QED
  BY <1>1 DEF Rested, Steady, Landed, Reverted

(* ... and an action is known as before.                                   *)
LEMMA RestedGround ==
    ASSUME TypeInv, TypeInv', Rested, NEW a \in Actions, Grounded(a),
           ledger'[a] = ledger[a] \/ LedgerTrue(a)',
           saved'[a] = saved[a] \/ Founded(saved[a].outcome.state, a)'
    PROVE  Grounded(a)'
<1>1. Steady
  BY RestedSteady
<1>2. resource'[a].mine => Landed(a)'
  BY DEF Rested, Grounded, Landed
<1>3. \A n \in Attempts : n > row[a].attempts => request'[a][n] = "none"
  BY DEF Rested, Grounded, Fresh
<1>4. QED
  BY <1>1, <1>2, <1>3, GroundedKept DEF Rested

(* One caller moves, everything told staying as it was.                    *)
LEMMA Moves ==
    ASSUME TypeInv, TypeInv', TruthInv, Rested, UNCHANGED <<ledger, saved>>,
           NEW c \in Callers, NEW j, Become(c, j),
           Blank(j) \/ (job[c].action \in Actions /\ Follows(job[c], j))
    PROVE  TruthInv'
<1>1. Steady
  BY RestedSteady
<1>2. \A a \in Actions : Grounded(a)'
  BY RestedGround DEF TruthInv
<1>3. \A d \in Callers : job'[d] = IF d = c THEN j ELSE job[d]
  BY DEF Become, TypeInv, JobsOK
<1>4. QED
  BY <1>1, <1>2, <1>3, Settles
-----------------------------------------------------------------------------
(* A caller goes on to where nothing new is claimed of it,                 *)
LEMMA GoesOn ==
    ASSUME TypeInv, TypeInv', TruthInv, Rested, UNCHANGED <<ledger, saved>>,
           NEW c \in Callers, job[c].action \in Actions,
           NEW pc \in PCs \ Undoing, Goto(c, pc),
           pc \in Unissued => job[c].pc \in Unissued
    PROVE  TruthInv'
<1>. DEFINE j == [job[c] EXCEPT !.pc = pc]
<1>1. job[c] \in Jobs
  BY DEF TypeInv, JobsOK
<1>2. /\ j.pc = pc /\ j.action = job[c].action /\ j.report = job[c].report
      /\ j.outcome = job[c].outcome /\ j.attempt = job[c].attempt
  BY <1>1 DEF Jobs
<1>3. Become(c, j)
  BY DEF Goto
<1>. HIDE DEF j
<1>4. QED
  BY <1>2, <1>3, Moves DEF Follows

(* ... carries off what it has to report,                                  *)
LEMMA ReportsOn ==
    ASSUME TypeInv, TypeInv', TruthInv, Rested, UNCHANGED <<ledger, saved>>,
           NEW c \in Callers, job[c].action \in Actions,
           NEW e, NEW unsent, Reported(c, e, unsent), e.fact \notin Telling
    PROVE  TruthInv'
<1>. DEFINE j == [job[c] EXCEPT !.pc = "report", !.report = e, !.unsent = unsent]
<1>1. job[c] \in Jobs
  BY DEF TypeInv, JobsOK
<1>2. /\ j.pc = "report" /\ j.action = job[c].action /\ j.report = e
      /\ j.outcome = job[c].outcome
  BY <1>1 DEF Jobs
<1>3. Become(c, j)
  BY DEF Reported
<1>. HIDE DEF j
<1>4. QED
  BY <1>2, <1>3, Moves DEF Follows, Undoing, Unissued

(* ... returns, or reconciles.                                             *)
LEMMA GoesBlank ==
    ASSUME TypeInv, TypeInv', TruthInv, Rested, UNCHANGED <<ledger, saved>>,
           NEW c \in Callers, ~At(c, "idle"), Return(c) \/ Reconcile(c)
    PROVE  TruthInv'
BY BlankJobs, Moves DEF Return, Reconcile, TypeInv, JobsOK, At

(* An exchange reports neither the effect nor its compensation.            *)
LEMMA ExchangeTells ==
    /\ Failure.fact \notin Telling /\ Answer.fact \notin Telling
    /\ \A fact : Plain(fact).fact = fact
BY DEF Failure, Answer, Plain, Report, Telling

(* A read tells of the effect only where the object is the action's own.   *)
LEMMA ReadTells ==
    ASSUME TypeInv, NEW a \in Actions, NEW prior, NEW force
    PROVE  /\ Read(a, prior, force).fact # "undone"
           /\ Read(a, prior, force).fact = "applied" => resource[a].mine
           /\ Provider = "github" => Read(a, prior, force).fact \notin Telling
<1>1. resource[a].mine \in BOOLEAN /\ resource[a].present \in BOOLEAN
  BY DEF TypeInv, WorldOK
<1>2. ReferenceRead(resource[a]) = "applied" => resource[a].mine
  BY <1>1 DEF ReferenceRead
<1>3. ReferenceRead(resource[a]) # "undone"
  BY <1>1 DEF ReferenceRead
<1>4. QED
  BY <1>2, <1>3 DEF Read, Report, GitHubSnapshot, Telling

(* Settling what a row says of the boundary leaves the provider alone.     *)
LEMMA FinishRested ==
    ASSUME TypeInv, NEW a \in Actions, NEW status, FinishDispatch(a, status),
           UNCHANGED <<request, resource, undone>>
    PROVE  Rested
<1>. DEFINE r == [row[a] EXCEPT !.status = status, !.token = 0]
<1>1. row \in [Actions -> Rows] /\ row[a] \in Rows
  BY DEF TypeInv, StoreOK
<1>2. r.attempts = row[a].attempts /\ r.compensation = row[a].compensation
  BY <1>1 DEF Rows
<1>3. row' = [row EXCEPT ![a] = r]
  BY DEF FinishDispatch
<1>. HIDE DEF r
<1>4. QED
  BY <1>1, <1>2, <1>3 DEF Rested

(* Before and after the dispatch of a mutation nothing is told.            *)
LEMMA TruthQuiet ==
    ASSUME TypeInv, TypeInv', TruthInv, NEW c \in Callers,
           \/ RecordIntent(c) \/ Initialize(c) \/ EnsureDispatchPlan(c) \/ Route(c)
           \/ CheckSource(c) \/ Register(c) \/ CrossBoundary(c) \/ EnterDispatching(c)
           \/ SendNothingToDo(c) \/ Revalidate(c) \/ SendStopped(c)
           \/ Respond(c) \/ SendTimesOut(c) \/ AnswerUnreadable(c)
           \/ SetNotSent(c) \/ Normalize(c) \/ StealClaim(c) \/ ListEvidence(c)
           \/ NextResolutionSequence(c) \/ CheckNotSent(c) \/ CheckRetry(c)
           \/ FloorBoundary(c)
           \/ ClaimDispatch(c) /\ ~Claimable(c)
    PROVE  TruthInv'
<1>. DEFINE a == job[c].action
<1>0. /\ job[c] \in Jobs
      /\ ~At(c, "idle") => a \in Actions /\ row[a] \in Rows
      /\ row \in [Actions -> Rows]
  BY DEF TypeInv, JobsOK, StoreOK, At
<1>1. CASE Initialize(c)
  <2>1. Rested
    BY <1>0, <1>1 DEF Initialize, At, world, Rested, Rows
  <2>2. QED
    BY <1>0, <1>1, <2>1, GoesOn DEF Initialize, At, PCs, Undoing, Unissued
<1>2. CASE RecordIntent(c)
  <2>1. Rested
    BY <1>2 DEF RecordIntent, world, Rested
  <2>2. QED
    BY <1>0, <1>2, <2>1, GoesOn DEF RecordIntent, At, PCs, Undoing, Unissued
<1>3. CASE EnsureDispatchPlan(c)
  <2>1. Rested
    BY <1>3 DEF EnsureDispatchPlan, world, Rested
  <2>2. QED
    BY <1>0, <1>3, <2>1, GoesOn DEF EnsureDispatchPlan, At, PCs, Undoing, Unissued
<1>4. CASE Route(c)
  <2>1. Rested /\ UNCHANGED <<ledger, saved>> /\ ~At(c, "idle")
    BY <1>4 DEF Route, store, world, Rested, At
  <2>2. CASE \E pc \in {"source", "claim"} : Goto(c, pc)
    BY <1>0, <2>1, <2>2, GoesOn DEF PCs, Undoing, Unissued
  <2>3. ASSUME NEW pc \in {"await", "steal"}, NEW n,
               Become(c, [job[c] EXCEPT !.pc = pc, !.attempt = n])
        PROVE  TruthInv'
    <3>. DEFINE j == [job[c] EXCEPT !.pc = pc, !.attempt = n]
    <3>1. j.pc = pc /\ j.action = a /\ j.report = job[c].report /\ j.outcome = job[c].outcome
      BY <1>0 DEF Jobs
    <3>2. Become(c, j)
      BY <2>3
    <3>. HIDE DEF j
    <3>3. QED
      BY <1>0, <2>1, <3>1, <3>2, Moves DEF Follows, Undoing, Unissued
  <2>4. CASE Reconcile(c)
    BY <2>1, <2>4, GoesBlank
  <2>5. QED
    BY <1>4, <2>2, <2>3, <2>4 DEF Route
<1>5. CASE CheckSource(c)
  <2>1. Rested /\ UNCHANGED <<ledger, saved>> /\ ~At(c, "idle")
    BY <1>5 DEF CheckSource, store, world, Rested, At
  <2>2. CASE Return(c)
    BY <2>1, <2>2, GoesBlank
  <2>3. CASE ~Return(c)
    <3>1. PICK j : /\ Become(c, j)
                   /\ j = [job[c] EXCEPT !.pc = "claim", !.sequence = saved[Source[a]].sequence,
                                         !.evidence = saved[Source[a]].evidence]
      BY <1>5, <2>3 DEF CheckSource
    <3>2. /\ j.pc = "claim" /\ j.action = a /\ j.report = job[c].report
          /\ j.outcome = job[c].outcome
      BY <1>0, <3>1 DEF Jobs
    <3>3. QED
      BY <1>0, <2>1, <3>1, <3>2, Moves DEF Follows, Undoing, Unissued
  <2>4. QED
    BY <2>2, <2>3
<1>6. CASE Register(c)
  <2>1. Rested /\ UNCHANGED <<ledger, saved>>
    BY <1>6 DEF Register, store, world, Rested
  <2>2. QED
    BY <1>0, <1>6, <2>1, GoesOn DEF Register, At, PCs, Undoing, Unissued
<1>7. CASE CrossBoundary(c)
  <2>1. Rested
    <3>1. /\ a \in Actions /\ UNCHANGED <<request, resource, undone>>
          /\ row' = row \/ \E status : FinishDispatch(a, status)
      BY <1>0, <1>7 DEF CrossBoundary, At, world
    <3>2. QED
      BY <3>1, FinishRested DEF Rested
  <2>2. QED
    BY <1>0, <1>7, <2>1, GoesOn DEF CrossBoundary, At, PCs, Undoing, Unissued
<1>8. CASE EnterDispatching(c)
  <2>1. Rested
    BY <1>8 DEF EnterDispatching, world, Rested
  <2>2. QED
    BY <1>0, <1>8, <2>1, GoesOn DEF EnterDispatching, At, PCs, Undoing, Unissued
<1>9. CASE SendNothingToDo(c)
  <2>1. Rested /\ UNCHANGED <<ledger, saved>> /\ a \in Actions
    BY <1>0, <1>9 DEF SendNothingToDo, store, world, Rested, At
  <2>2. PICK e : e = Read(a, <<>>, FALSE)
    OBVIOUS
  <2>3. e.fact \notin Telling /\ Reported(c, e, FALSE)
    BY <1>9, <2>1, <2>2, ReadTells DEF SendNothingToDo
  <2>4. QED
    BY <2>1, <2>3, ReportsOn
<1>10. CASE Revalidate(c)
  <2>1. Rested /\ UNCHANGED <<ledger, saved>>
    BY <1>10 DEF Revalidate, store, world, Rested
  <2>2. QED
    BY <1>0, <1>10, <2>1, GoesOn DEF Revalidate, At, PCs, Undoing, Unissued
<1>11. CASE SendStopped(c)
  <2>1. Rested /\ UNCHANGED <<ledger, saved>> /\ a \in Actions
    BY <1>0, <1>11 DEF SendStopped, store, world, Rested, At
  <2>2. QED
    BY <1>11, <2>1, ReportsOn, ExchangeTells DEF SendStopped
<1>12. CASE Respond(c) \/ SendTimesOut(c) \/ AnswerUnreadable(c)
  <2>1. Rested /\ UNCHANGED <<ledger, saved>> /\ a \in Actions
    BY <1>0, <1>12 DEF Respond, SendTimesOut, AnswerUnreadable, store, world, Rested, At
  <2>2. QED
    BY <1>12, <2>1, ReportsOn, ExchangeTells DEF Respond, SendTimesOut, AnswerUnreadable
<1>13. CASE SetNotSent(c)
  <2>1. Rested
    BY <1>0, <1>13 DEF SetNotSent, At, world, Rested, Rows
  <2>2. QED
    BY <1>0, <1>13, <2>1, GoesOn DEF SetNotSent, At, PCs, Undoing, Unissued
<1>14. CASE Normalize(c)
  <2>1. Rested /\ UNCHANGED <<ledger, saved>> /\ a \in Actions
    BY <1>0, <1>14 DEF Normalize, store, world, Rested, At
  <2>2. CASE UNCHANGED job
    BY <2>1, <2>2, RestedSteady, RestedGround, Settles DEF TruthInv
  <2>3. QED
    BY <1>14, <2>1, <2>2, GoesOn DEF Normalize, PCs, Undoing, Unissued
<1>15. CASE StealClaim(c)
  <2>1. Rested
    <3>1. /\ a \in Actions /\ UNCHANGED <<request, resource, undone>>
          /\ row' = row \/ \E status : FinishDispatch(a, status)
      BY <1>0, <1>15 DEF StealClaim, At, world
    <3>2. QED
      BY <3>1, FinishRested DEF Rested
  <2>2. QED
    BY <1>0, <1>15, <2>1, GoesOn, GoesBlank DEF StealClaim, At, PCs, Undoing, Unissued
<1>16. CASE ListEvidence(c)
  <2>1. Rested /\ UNCHANGED <<ledger, saved>> /\ a \in Actions
    BY <1>0, <1>16 DEF ListEvidence, store, world, Rested, At
  <2>2. PICK j : /\ Become(c, j)
                 /\ j = [job[c] EXCEPT !.pc = IF @ = "list" THEN "observe" ELSE "reobserve",
                                       !.prior = Len(ledger[a])]
    BY <1>16 DEF ListEvidence
  <2>3. /\ j.pc \in {"observe", "reobserve"} /\ j.action = a /\ j.report = job[c].report
        /\ j.outcome = job[c].outcome
    BY <1>0, <2>2 DEF Jobs
  <2>4. QED
    BY <2>1, <2>2, <2>3, Moves DEF Follows, Undoing, Unissued
<1>17. CASE NextResolutionSequence(c)
  <2>1. Rested /\ UNCHANGED <<ledger, saved>> /\ a \in Actions
    BY <1>0, <1>17 DEF NextResolutionSequence, At, world, Rested, Rows
  <2>2. PICK j : /\ Become(c, j)
                 /\ j = [job[c] EXCEPT !.pc = "save", !.sequence = row[a].sequence + 1]
    BY <1>17 DEF NextResolutionSequence
  <2>3. /\ j.pc = "save" /\ j.action = a /\ j.report = job[c].report
        /\ j.outcome = job[c].outcome
    BY <1>0, <2>2 DEF Jobs
  <2>4. QED
    BY <2>1, <2>2, <2>3, Moves DEF Follows, Undoing, Unissued
<1>18. CASE CheckNotSent(c)
  <2>1. Rested /\ UNCHANGED <<ledger, saved>> /\ ~At(c, "idle")
    BY <1>18 DEF CheckNotSent, store, world, Rested, At
  <2>2. QED
    BY <1>0, <1>18, <2>1, GoesOn, GoesBlank DEF CheckNotSent, PCs, Undoing, Unissued
<1>19. CASE CheckRetry(c)
  <2>1. Rested /\ UNCHANGED <<ledger, saved>> /\ ~At(c, "idle")
    BY <1>19 DEF CheckRetry, store, world, Rested, At
  <2>2. CASE Become(c, [Reconciling(a) EXCEPT !.pc = "derive"])
    <3>. DEFINE j == [Reconciling(a) EXCEPT !.pc = "derive"]
    <3>1. Blank(j)
      BY DEF Reconciling, Idle, Blank, Undoing, Unissued
    <3>2. QED
      BY <2>1, <2>2, <3>1, Moves
  <2>3. QED
    BY <1>0, <1>19, <2>1, <2>2, GoesOn, GoesBlank DEF CheckRetry, PCs, Undoing, Unissued
<1>20. CASE FloorBoundary(c)
  <2>1. Rested /\ UNCHANGED <<ledger, saved>> /\ a \in Actions
    BY <1>0, <1>20 DEF FloorBoundary, store, world, Rested, At
  <2>2. PICK d : Become(c, [job[c] EXCEPT !.pc = "sequence", !.outcome.decision = d])
    BY <1>20 DEF FloorBoundary
  <2>3. PICK j : Become(c, j) /\ j = [job[c] EXCEPT !.pc = "sequence", !.outcome.decision = d]
    BY <2>2
  <2>4. job[c].outcome \in Outcomes
    BY <1>20 DEF FloorBoundary, At, TypeInv, JobsOK
  <2>5. /\ j.pc = "sequence" /\ j.action = a /\ j.report = job[c].report
        /\ j.outcome.state = job[c].outcome.state
    BY <1>0, <2>3, <2>4 DEF Jobs, Outcomes
  <2>6. QED
    BY <2>1, <2>3, <2>5, Moves DEF Follows, Undoing, Unissued
<1>21. CASE ClaimDispatch(c) /\ ~Claimable(c)
  <2>1. Rested /\ UNCHANGED <<ledger, saved>> /\ a \in Actions
    BY <1>0, <1>21 DEF ClaimDispatch, store, world, Rested, At
  <2>2. PICK n, j : /\ Become(c, j)
                    /\ \/ j = [job[c] EXCEPT !.pc = "await", !.attempt = n]
                       \/ j = AfterLostClaim(c)
    BY <1>21 DEF ClaimDispatch
  <2>3. \/ Blank(j)
        \/ /\ j.pc = "await" /\ j.action = a /\ j.report = job[c].report
           /\ j.outcome = job[c].outcome
    BY <1>0, <2>1, <2>2, BlankJobs DEF Jobs, AfterLostClaim
  <2>4. QED
    BY <2>1, <2>2, <2>3, Moves DEF Follows, Undoing, Unissued
<1>22. QED
  BY <1>1, <1>2, <1>3, <1>4, <1>5, <1>6, <1>7, <1>8, <1>9, <1>10, <1>11, <1>12, <1>13,
     <1>14, <1>15, <1>16, <1>17, <1>18, <1>19, <1>20, <1>21
(* A resolution that was claimed becomes the saved one; a read is derived. *)
LEMMA TruthResolve ==
    ASSUME TypeInv, TypeInv', TruthInv, NEW c \in Callers,
           Observe(c) \/ ObserveFails(c) \/ Derive(c) \/ SaveResolution(c) \/ RequireCurrent(c)
    PROVE  TruthInv'
<1>. DEFINE a == job[c].action
<1>0. /\ job[c] \in Jobs /\ Carried(job[c]) /\ ~At(c, "idle") /\ a \in Actions
      /\ Grounded(a) /\ Rested
  <2>1. ~At(c, "idle") /\ UNCHANGED <<row, request, resource, undone>>
    BY DEF Observe, ObserveFails, Derive, SaveResolution, RequireCurrent, At, store, world
  <2>2. QED
    BY <2>1 DEF TypeInv, JobsOK, At, TruthInv, Rested
<1>1. Steady
  BY <1>0, RestedSteady
<1>2. ASSUME NEW j, Become(c, j), UNCHANGED <<ledger, saved>>,
             j.action = a, j.pc \notin Undoing, j.pc \notin Unissued,
             Carried(j)
      PROVE  TruthInv'
  <2>1. \A d \in Callers : job'[d] = IF d = c THEN j ELSE job[d]
    BY <1>2 DEF Become, TypeInv, JobsOK
  <2>2. \A b \in Actions : Grounded(b)'
    BY <1>0, <1>2, RestedGround DEF TruthInv
  <2>3. ASSUME NEW d \in Callers
        PROVE  Carried(job[d])'
    <3>1. PICK k : k = job'[d]
      OBVIOUS
    <3>2. k \in Jobs /\ Carried(k)
      BY <1>2, <2>1, <3>1 DEF TypeInv, JobsOK, TruthInv
    <3>3. Carried(k)'
      BY <1>1, <3>2, CarriedKept
    <3>4. QED
      BY <3>1, <3>3 DEF Carried, Blank
  <2>4. ASSUME NEW d \in Callers, NEW e \in Callers, d # e
        PROVE  Exclusive(job'[d], job'[e])
    BY <1>2, <2>1, <2>4 DEF TruthInv, Exclusive, Undoing
  <2>5. QED
    BY <2>2, <2>3, <2>4 DEF TruthInv, Exclusive
<1>3. CASE Observe(c)
  <2>1. PICK prior, force : prior = Prior(c) /\ force = ProvenNotSent(Prior(c))
    OBVIOUS
  <2>2. PICK e : e = Read(a, prior, force)
    OBVIOUS
  <2>3. e.fact # "undone" /\ (e.fact = "applied" => resource[a].mine)
    BY <1>0, <2>2, ReadTells
  <2>4. PICK j : /\ Become(c, j)
                 /\ j = [job[c] EXCEPT !.pc = IF @ = "observe" THEN "append" ELSE "reappend",
                                       !.report = e]
    BY <1>3, <2>1, <2>2 DEF Observe
  <2>5. /\ j.pc \in {"append", "reappend"} /\ j.action = a /\ j.report = e
        /\ j.outcome = job[c].outcome
    BY <1>0, <2>4 DEF Jobs
  <2>6. Carried(j)
    BY <1>0, <2>3, <2>5 DEF Carried, Undoing, Unissued, Grounded
  <2>7. QED
    BY <1>2, <1>3, <2>4, <2>5, <2>6 DEF Observe, store, Undoing, Unissued
<1>4. CASE ObserveFails(c)
  <2>1. UNCHANGED <<ledger, saved>>
    BY <1>4 DEF ObserveFails, store
  <2>2. CASE Return(c)
    BY <1>0, <2>1, <2>2, GoesBlank
  <2>3. CASE ~Return(c)
    <3>1. PICK fact \in {"transport"} \union ObservationFailures :
             Become(c, [job[c] EXCEPT !.pc = IF @ = "observe" THEN "append" ELSE "reappend",
                                      !.report = Plain(fact)])
      BY <1>4, <2>3 DEF ObserveFails
    <3>2. PICK j : /\ Become(c, j)
                   /\ j = [job[c] EXCEPT !.pc = IF @ = "observe" THEN "append" ELSE "reappend",
                                         !.report = Plain(fact)]
      BY <3>1
    <3>3. /\ j.pc \in {"append", "reappend"} /\ j.action = a /\ j.report = Plain(fact)
          /\ j.outcome = job[c].outcome
      BY <1>0, <3>2 DEF Jobs
    <3>4. j.report.fact \notin Telling
      BY <3>3, ExchangeTells DEF ObservationFailures, Telling
    <3>5. Follows(job[c], j)
      BY <3>3, <3>4 DEF Follows, Undoing, Unissued
    <3>6. QED
      BY <1>0, <2>1, <3>2, <3>5, Moves
  <2>4. QED
    BY <2>2, <2>3
<1>5. CASE Derive(c)
  <2>1. PICK l, o : l = ledger[a] /\ o = Outcome(l)
    OBVIOUS
  <2>2. Founded(o.state, a)
    BY <1>0, <2>1, OutcomeFounded DEF Grounded, LedgerTrue, Founded
  <2>3. PICK j : /\ Become(c, j)
                 /\ j = [job[c] EXCEPT !.pc = "floor", !.outcome = o,
                                       !.evidence = Len(l), !.report = NoReport]
    BY <1>5, <2>1 DEF Derive
  <2>4. j.pc = "floor" /\ j.action = a /\ j.report = NoReport /\ j.outcome = o
    BY <1>0, <2>3 DEF Jobs
  <2>5. Carried(j)
    BY <1>0, <2>2, <2>4 DEF Carried, Undoing, Unissued, NoReport
  <2>6. QED
    BY <1>2, <1>5, <2>3, <2>4, <2>5 DEF Derive, store, Undoing, Unissued
<1>6. CASE RequireCurrent(c)
  <2>1. UNCHANGED <<ledger, saved>>
    BY <1>6 DEF RequireCurrent, store
  <2>2. CASE Return(c)
    BY <1>0, <2>1, <2>2, GoesBlank
  <2>3. CASE ~Return(c)
    <3>1. PICK s, v, o : s = saved[a].sequence /\ v = saved[a].evidence /\ o = saved[a].outcome
      OBVIOUS
    <3>2. PICK j : /\ Become(c, j)
                   /\ j = [job[c] EXCEPT !.pc = "relist", !.sequence = s, !.evidence = v,
                                         !.outcome = o]
      BY <1>6, <2>3, <3>1 DEF RequireCurrent
    <3>3. j.pc = "relist" /\ j.action = a /\ j.report = job[c].report /\ j.outcome = o
      BY <1>0, <3>2 DEF Jobs
    <3>4. Carried(j)
      BY <1>0, <3>1, <3>3 DEF Carried, Undoing, Unissued, Grounded
    <3>5. QED
      BY <1>2, <2>1, <3>2, <3>3, <3>4 DEF Undoing, Unissued
  <2>4. QED
    BY <2>2, <2>3
<1>7. CASE SaveResolution(c)
  <2>1. UNCHANGED ledger /\ Become(c, Idle)
    BY <1>7 DEF SaveResolution, Return
  <2>2. PICK s : s = job[c].outcome.state
    OBVIOUS
  <2>3. ASSUME NEW b \in Actions, b = a
        PROVE  Founded(s, b)'
    <3>1. Founded(s, b)
      BY <1>0, <2>2, <2>3 DEF Carried
    <3>2. QED
      BY <1>1, <3>1, FoundedKept
  <2>4. ASSUME NEW b \in Actions
        PROVE  Grounded(b)'
    <3>1. saved'[b] = saved[b] \/ (b = a /\ saved'[b].outcome = job[c].outcome)
      BY <1>0, <1>7 DEF SaveResolution, TypeInv, StoreOK
    <3>2. ASSUME b = a, saved'[b].outcome = job[c].outcome
          PROVE  Founded(saved[b].outcome.state, b)'
      BY <2>2, <2>3, <3>2 DEF Founded
    <3>3. QED
      BY <1>0, <2>1, <3>1, <3>2, RestedGround DEF TruthInv
  <2>5. \A d \in Callers : job'[d] = IF d = c THEN Idle ELSE job[d]
    BY <2>1 DEF Become, TypeInv, JobsOK
  <2>6. QED
    BY <1>1, <2>4, <2>5, BlankJobs, Settles
<1>8. QED
  BY <1>3, <1>4, <1>5, <1>6, <1>7

(* What is appended is true of the provider.                               *)
LEMMA AppendGround ==
    ASSUME TypeInv, TypeInv', TruthInv, Rested, NEW a \in Actions, NEW e \in Entry,
           AppendTo(a, e), UNCHANGED saved,
           e.fact = "applied" => Landed(a),
           e.fact = "undone" => Compensable /\ Reverted(a)
    PROVE  \A b \in Actions : Grounded(b)'
<1>1. Steady
  BY RestedSteady
<1>2. ledger \in [Actions -> Seq(Entry)]
  BY DEF TypeInv, StoreOK
<1>3. \A b \in Actions : b # a => ledger'[b] = ledger[b]
  BY <1>2 DEF AppendTo
<1>4. LedgerTrue(a)'
  <2>1. ledger'[a] = ledger[a] \/ ledger'[a] = Append(ledger[a], e)
    BY <1>2 DEF AppendTo, Appended
  <2>2. \A i \in DOMAIN ledger'[a] : \/ i \in DOMAIN ledger[a] /\ ledger'[a][i] = ledger[a][i]
                                    \/ ledger'[a][i] = e
    <3>1. PICK l : l = ledger[a] /\ l \in Seq(Entry)
      BY <1>2
    <3>2. \A i \in DOMAIN Append(l, e) : \/ i \in DOMAIN l /\ Append(l, e)[i] = l[i]
                                        \/ Append(l, e)[i] = e
      BY <3>1
    <3>3. QED
      BY <2>1, <3>1, <3>2
  <2>3. LedgerTrue(a)
    BY DEF TruthInv, Grounded
  <2>4. QED
    BY <1>1, <2>2, <2>3 DEF LedgerTrue, Steady
<1>5. QED
  BY <1>3, <1>4, RestedGround DEF TruthInv

(* The evidence that callers append is what they read, or tells nothing.   *)
LEMMA TruthAppend ==
    ASSUME TypeInv, TypeInv', TruthInv, NEW c \in Callers,
           AppendReport(c) \/ RecordNotSent(c) \/ RecordCaught(c) \/ AppendObservation(c)
    PROVE  TruthInv'
<1>. DEFINE a == job[c].action
<1>0. /\ job[c] \in Jobs /\ Carried(job[c]) /\ ~At(c, "idle") /\ a \in Actions
      /\ Grounded(a) /\ Rested /\ UNCHANGED saved
  <2>1. ~At(c, "idle") /\ UNCHANGED <<row, saved, request, resource, undone>>
    BY DEF AppendReport, RecordNotSent, RecordCaught, AppendObservation, At, world
  <2>2. QED
    BY <2>1 DEF TypeInv, JobsOK, At, TruthInv, Rested
<1>1. Steady
  BY <1>0, RestedSteady
<1>2. ASSUME NEW e \in Entry, AppendTo(a, e), NEW j, Become(c, j),
             e.fact = "applied" => Landed(a), e.fact # "undone",
             Blank(j) \/ Follows(job[c], j)
      PROVE  TruthInv'
  <2>1. \A b \in Actions : Grounded(b)'
    BY <1>0, <1>2, AppendGround
  <2>2. \A d \in Callers : job'[d] = IF d = c THEN j ELSE job[d]
    BY <1>2 DEF Become, TypeInv, JobsOK
  <2>3. QED
    BY <1>0, <1>1, <1>2, <2>1, <2>2, Settles
<1>3. CASE AppendReport(c)
  <2>1. PICK j : /\ Become(c, j)
                 /\ j = [job[c] EXCEPT !.pc = IF job[c].unsent THEN "unsend" ELSE "settle",
                                       !.report = NoReport]
    BY <1>3 DEF AppendReport
  <2>2. /\ j.pc \in {"unsend", "settle"} /\ j.action = a /\ j.report = NoReport
        /\ j.outcome = job[c].outcome
    BY <1>0, <2>1 DEF Jobs
  <2>3. Follows(job[c], j)
    BY <2>2 DEF Follows, NoReport, Telling, Undoing, Unissued
  <2>4. PICK e : e = job[c].report
    OBVIOUS
  <2>5. e \in Entry /\ AppendTo(a, e)
    BY <1>3, <2>4 DEF AppendReport, At, TypeInv, JobsOK, Carriers
  <2>6. QED
    BY <1>0, <1>2, <2>1, <2>3, <2>4, <2>5 DEF Carried
<1>4. CASE RecordNotSent(c) \/ RecordCaught(c)
  <2>1. PICK fact \in {"not_sent", "transport"} : AppendTo(a, Plain(fact))
    BY <1>4 DEF RecordNotSent, RecordCaught
  <2>2. PICK e : e = Plain(fact)
    OBVIOUS
  <2>3. e \in Entry /\ e.fact \notin Telling
    BY <2>2, PlainType, ExchangeTells DEF Facts, Telling
  <2>4. CASE Goto(c, "settle")
    <3>1. PICK j : Become(c, j) /\ j = [job[c] EXCEPT !.pc = "settle"]
      BY <2>4 DEF Goto
    <3>2. /\ j.pc = "settle" /\ j.action = a /\ j.report = job[c].report
          /\ j.outcome = job[c].outcome
      BY <1>0, <3>1 DEF Jobs
    <3>3. Follows(job[c], j)
      BY <3>2 DEF Follows, Undoing, Unissued
    <3>4. QED
      BY <1>2, <2>1, <2>2, <2>3, <3>1, <3>3 DEF Telling
  <2>5. CASE Reconcile(c)
    <3>1. PICK j : Become(c, j) /\ j = Reconciling(a)
      BY <2>5 DEF Reconcile
    <3>2. Blank(j)
      BY <1>0, <3>1, BlankJobs
    <3>3. QED
      BY <1>2, <2>1, <2>2, <2>3, <3>1, <3>2 DEF Telling
  <2>6. QED
    BY <1>4, <2>4, <2>5 DEF RecordNotSent, RecordCaught
<1>5. CASE AppendObservation(c)
  <2>1. PICK j : /\ Become(c, j)
                 /\ j = [job[c] EXCEPT !.pc = IF @ = "append" THEN "derive" ELSE "recheck",
                                       !.prior = 0]
    BY <1>5 DEF AppendObservation
  <2>2. /\ j.pc \in {"derive", "recheck"} /\ j.action = a /\ j.report = job[c].report
        /\ j.outcome = job[c].outcome
    BY <1>0, <2>1 DEF Jobs
  <2>3. Follows(job[c], j)
    BY <2>2 DEF Follows, Undoing, Unissued
  <2>4. PICK e : e = job[c].report
    OBVIOUS
  <2>5. e \in Entry /\ AppendTo(a, e)
    BY <1>5, <2>4 DEF AppendObservation, At, TypeInv, JobsOK, Carriers
  <2>6. QED
    BY <1>0, <1>2, <2>1, <2>3, <2>4, <2>5 DEF Carried
<1>6. QED
  BY <1>3, <1>4, <1>5
(* A dispatch is claimed for an attempt nobody was given before.           *)
LEMMA TruthClaim ==
    ASSUME TypeInv, TypeInv', TruthInv, NEW c \in Callers, ClaimDispatch(c), Claimable(c)
    PROVE  TruthInv'
<1>1. PICK a : a = job[c].action
  OBVIOUS
<1>2. PICK n : n = row[a].attempts + 1
  OBVIOUS
<1>3. /\ a \in Actions /\ row[a] \in Rows /\ row \in [Actions -> Rows] /\ Grounded(a)
      /\ n \in Attempts /\ row[a].attempts \in Nat
  BY <1>1, <1>2 DEF ClaimDispatch, Claimable, At, TypeInv, JobsOK, StoreOK, TruthInv, Rows,
                    Attempts, AttemptBudget
<1>4. /\ row' = [row EXCEPT ![a] = [@ EXCEPT !.status = "claimed", !.attempts = n, !.token = n]]
      /\ UNCHANGED <<ledger, saved, request, resource, undone>>
  BY <1>1, <1>2 DEF ClaimDispatch, world
<1>5. PICK j : /\ Become(c, j)
               /\ j = [Idle EXCEPT !.pc = "register", !.op = job[c].op, !.action = a,
                                   !.attempt = n]
  BY <1>1, <1>2 DEF ClaimDispatch
<1>6. /\ j.pc = "register" /\ j.action = a /\ j.attempt = n
      /\ j.report = NoReport /\ j.outcome = NoOutcome
  BY <1>5 DEF Idle
<1>7. /\ row'[a].attempts = n /\ row'[a].compensation = row[a].compensation
      /\ \A b \in Actions : b # a => row'[b] = row[b]
  <2>. DEFINE r == [row[a] EXCEPT !.status = "claimed", !.attempts = n, !.token = n]
  <2>1. r.attempts = n /\ r.compensation = row[a].compensation
    BY <1>3 DEF Rows
  <2>2. row' = [row EXCEPT ![a] = r]
    BY <1>4
  <2>. HIDE DEF r
  <2>3. QED
    BY <1>3, <2>1, <2>2
<1>8. \A b \in Actions : row[b].attempts \in Nat
  BY DEF TypeInv, StoreOK, Rows
<1>9. Steady
  BY <1>2, <1>3, <1>4, <1>7, <1>8 DEF Steady, Landed, Reverted
<1>10. ASSUME NEW b \in Actions
       PROVE  Grounded(b)'
  <2>1. Grounded(b)
    BY DEF TruthInv
  <2>2. resource'[b].mine => Landed(b)'
    BY <1>4, <2>1 DEF Grounded, Landed
  <2>3. \A m \in Attempts : m > row[b].attempts => request'[b][m] = "none"
    BY <1>4, <2>1 DEF Grounded, Fresh
  <2>4. QED
    BY <1>4, <1>7, <1>9, <2>1, <2>2, <2>3, GroundedKept
<1>11. \A d \in Callers : job'[d] = IF d = c THEN j ELSE job[d]
  BY <1>5 DEF Become, TypeInv, JobsOK
<1>12. ASSUME NEW d \in Callers
       PROVE  Carried(job[d])'
  <2>1. PICK k : k = job[d]
    OBVIOUS
  <2>2. k \in Jobs /\ Carried(k)
    BY <2>1 DEF TypeInv, JobsOK, TruthInv
  <2>3. Carried(k)'
    BY <1>9, <2>2, CarriedKept
  <2>4. CASE d # c
    BY <1>11, <2>1, <2>3, <2>4 DEF Carried, Blank
  <2>5. CASE d = c
    <3>1. request'[a][n] = "none"
      <4>1. n > row[a].attempts
        BY <1>2, <1>3
      <4>2. QED
        BY <1>3, <1>4, <4>1 DEF Grounded, Fresh
    <3>2. 1 <= n /\ n <= row'[a].attempts
      BY <1>2, <1>3, <1>7
    <3>3. Carried(j)'
      BY <1>3, <1>6, <3>1, <3>2
         DEF Carried, Undoing, Unissued, NoReport, NoOutcome, Founded
    <3>4. QED
      BY <1>11, <2>5, <3>3 DEF Carried, Blank
  <2>6. QED
    BY <2>4, <2>5
<1>13. ASSUME NEW d \in Callers, NEW e \in Callers, d # e
       PROVE  Exclusive(job'[d], job'[e])
  <2>1. ASSUME NEW f \in Callers, job[f].action = a, job[f].pc \in Unissued
        PROVE  job[f].attempt # n
    <3>1. Carried(job[f])
      BY DEF TruthInv
    <3>2. job[f].attempt <= row[a].attempts /\ job[f].attempt \in Nat
      BY <2>1, <3>1 DEF Carried, TypeInv, JobsOK, Jobs
    <3>3. QED
      BY <1>2, <1>3, <3>2
  <2>2. Exclusive(job[d], job[e])
    BY <1>13 DEF TruthInv
  <2>3. QED
    BY <1>6, <1>11, <1>13, <2>1, <2>2 DEF Exclusive
<1>14. QED
  BY <1>10, <1>12, <1>13 DEF TruthInv, Exclusive

(* A mutation is issued once under its attempt.                            *)
LEMMA TruthSend ==
    ASSUME TypeInv, TypeInv', TruthInv, NEW c \in Callers, Send(c)
    PROVE  TruthInv'
<1>1. PICK a, n : a = job[c].action /\ n = job[c].attempt
  OBVIOUS
<1>2. /\ a \in Actions /\ job[c] \in Jobs /\ Carried(job[c]) /\ job[c].pc = "write"
      /\ request \in [Actions -> [Attempts -> {"none", "flying", "landed", "dropped"}]]
  BY <1>1 DEF Send, At, TypeInv, JobsOK, WorldOK, TruthInv
<1>3. n \in Attempts /\ n <= row[a].attempts /\ request[a][n] = "none"
  <2>1. 1 <= n /\ n <= row[a].attempts /\ request[a][n] = "none" /\ n \in 0..AttemptBudget
    BY <1>1, <1>2 DEF Carried, Unissued, Jobs
  <2>2. QED
    BY <2>1 DEF Attempts, AttemptBudget
<1>4. /\ request' = [request EXCEPT ![a][n] = "flying"]
      /\ UNCHANGED <<ledger, row, saved, resource, undone>>
  BY <1>1 DEF Send, store
<1>5. PICK j : Become(c, j) /\ j = [job[c] EXCEPT !.pc = "inflight"]
  BY DEF Send, Goto
<1>6. /\ j.pc = "inflight" /\ j.action = a /\ j.report = job[c].report
      /\ j.outcome = job[c].outcome
  BY <1>1, <1>2, <1>5 DEF Jobs
<1>7. \A d \in Callers : job'[d] = IF d = c THEN j ELSE job[d]
  BY <1>5 DEF Become, TypeInv, JobsOK
<1>8. \A b \in Actions, m \in Attempts :
         /\ (b # a \/ m # n) => request'[b][m] = request[b][m]
         /\ request'[b][m] = "landed" <=> request[b][m] = "landed"
  BY <1>2, <1>3, <1>4
<1>9. ASSUME NEW b \in Actions
      PROVE  (Landed(b)' <=> Landed(b)) /\ (Reverted(b)' <=> Reverted(b))
  <2>1. Landed(b)' <=> Landed(b)
    BY <1>8 DEF Landed
  <2>2. QED
    BY <1>4, <2>1 DEF Reverted
<1>10. ASSUME NEW state, NEW b \in Actions, Founded(state, b)
       PROVE  Founded(state, b)'
  BY <1>9, <1>10 DEF Founded
<1>11. ASSUME NEW b \in Actions
       PROVE  Grounded(b)'
  <2>1. Grounded(b)
    BY DEF TruthInv
  <2>2. \A m \in Attempts : m > row[b].attempts => request'[b][m] = "none"
    <3>1. row[b].attempts \in Nat
      BY DEF TypeInv, StoreOK, Rows
    <3>2. \A m \in Attempts : m > row[b].attempts => b # a \/ m # n
      BY <1>3, <3>1 DEF Attempts, AttemptBudget
    <3>3. QED
      BY <1>8, <2>1, <3>2 DEF Grounded, Fresh
  <2>3. PICK s : s = saved[b].outcome.state
    OBVIOUS
  <2>4. Founded(s, b)'
    BY <1>10, <2>1, <2>3 DEF Grounded
  <2>5. LedgerTrue(b)'
    BY <1>4, <1>9, <2>1 DEF Grounded, LedgerTrue
  <2>6. Fresh(b)'
    BY <1>4, <2>2 DEF Fresh
  <2>7. Founded(saved[b].outcome.state, b)'
    BY <1>4, <2>3, <2>4 DEF Founded
  <2>8. QED
    BY <1>4, <1>9, <2>1, <2>5, <2>6, <2>7 DEF Grounded
<1>12. ASSUME NEW k \in Jobs, k.action \in Actions \/ Blank(k), Carried(k),
              k.pc \in Unissued /\ k.action = a => k.attempt # n
       PROVE  Carried(k)'
  <2>1. CASE Blank(k)
    <3>1. Founded(k.outcome.state, k.action)'
      BY <2>1 DEF Blank, NoOutcome, Founded
    <3>2. QED
      BY <2>1, <3>1 DEF Blank, Carried, NoReport, Undoing
  <2>2. CASE k.action \in Actions
    <3>1. Founded(k.outcome.state, k.action)'
      BY <1>10, <1>12, <2>2 DEF Carried
    <3>2. ASSUME k.pc \in Unissued
          PROVE  /\ 1 <= k.attempt /\ k.attempt <= row'[k.action].attempts
                 /\ request'[k.action][k.attempt] = "none"
      <4>1. /\ 1 <= k.attempt /\ k.attempt <= row[k.action].attempts
            /\ request[k.action][k.attempt] = "none" /\ k.attempt \in 0..AttemptBudget
        BY <1>12, <3>2 DEF Carried, Jobs
      <4>2. k.attempt \in Attempts
        BY <4>1 DEF Attempts, AttemptBudget
      <4>3. QED
        BY <1>4, <1>8, <1>12, <2>2, <3>2, <4>1, <4>2
    <3>3. /\ Landed(k.action) => Landed(k.action)'
          /\ Reverted(k.action) => Reverted(k.action)'
      BY <1>9, <2>2
    <3>4. QED
      BY <1>4, <1>12, <2>2, <3>1, <3>2, <3>3 DEF Carried
  <2>3. QED
    BY <1>12, <2>1, <2>2
<1>13. ASSUME NEW d \in Callers
       PROVE  Carried(job[d])'
  <2>1. PICK k : k = job'[d]
    OBVIOUS
  <2>2. k \in Jobs
    BY <2>1 DEF TypeInv, JobsOK
  <2>3. Carried(k) /\ (k.pc \in Unissued /\ k.action = a => k.attempt # n)
    <3>1. CASE d = c
      <4>1. k = j
        BY <1>7, <2>1, <3>1
      <4>2. Follows(job[c], j)
        BY <1>1, <1>6 DEF Follows, Undoing, Unissued
      <4>3. Carried(j)
        BY <1>1, <1>2, <4>2, FollowsCarried
      <4>4. QED
        BY <1>6, <4>1, <4>3 DEF Unissued
    <3>2. CASE d # c
      <4>1. k = job[d]
        BY <1>7, <2>1, <3>2
      <4>2. Carried(job[d]) /\ Exclusive(job[c], job[d])
        BY <3>2 DEF TruthInv
      <4>3. QED
        BY <1>1, <1>2, <4>1, <4>2 DEF Exclusive, Unissued
    <3>3. QED
      BY <3>1, <3>2
  <2>4. Carried(k)'
    BY <1>12, <2>2, <2>3 DEF Carried
  <2>5. QED
    BY <2>1, <2>4 DEF Carried, Blank
<1>14. ASSUME NEW d \in Callers, NEW e \in Callers, d # e
       PROVE  Exclusive(job'[d], job'[e])
  BY <1>6, <1>7, <1>14 DEF TruthInv, Exclusive, Unissued
<1>15. QED
  BY <1>11, <1>13, <1>14 DEF TruthInv, Exclusive
(* The right to compensate is taken once, and never given back.            *)
LEMMA TruthClaimUndo ==
    ASSUME TypeInv, TypeInv', TruthInv, NEW c \in Callers, ClaimCompensation(c)
    PROVE  TruthInv'
<1>1. PICK a : a = job[c].action
  OBVIOUS
<1>2. /\ a \in Actions /\ row[a] \in Rows /\ row \in [Actions -> Rows] /\ Grounded(a)
      /\ job[c] \in Jobs /\ Carried(job[c]) /\ job[c].pc = "claim_undo"
      /\ UNCHANGED <<ledger, saved, request, resource, undone>>
  BY <1>1 DEF ClaimCompensation, At, TypeInv, JobsOK, StoreOK, TruthInv, world
<1>3. CASE Return(c)
  <2>1. UNCHANGED row \/ row' = [row EXCEPT ![a].compensation = "claimed"]
    BY <1>1 DEF ClaimCompensation
  <2>2. CASE UNCHANGED row
    <3>1. Rested /\ ~At(c, "idle")
      BY <1>2, <2>2 DEF Rested, At
    <3>2. QED
      BY <1>2, <1>3, <3>1, GoesBlank
  <2>3. CASE ~UNCHANGED row
    <3>1. Goto(c, "undo")
      BY <1>1, <2>3 DEF ClaimCompensation
    <3>2. [job[c] EXCEPT !.pc = "undo"].pc = "undo"
      BY <1>2 DEF Jobs
    <3>3. job'[c].pc = "undo" /\ job'[c] = Idle
      BY <1>3, <3>1, <3>2 DEF Goto, Return, Become, TypeInv, JobsOK
    <3>4. QED
      BY <3>3, IdleType
  <2>4. QED
    BY <2>2, <2>3
<1>4. CASE ~Return(c)
  <2>1. /\ row[a].compensation = "none" /\ Goto(c, "undo")
        /\ row' = [row EXCEPT ![a].compensation = "claimed"]
    BY <1>1, <1>4 DEF ClaimCompensation
  <2>2. PICK j : Become(c, j) /\ j = [job[c] EXCEPT !.pc = "undo"]
    BY <2>1 DEF Goto
  <2>3. /\ j.pc = "undo" /\ j.action = a /\ j.report = job[c].report
        /\ j.outcome = job[c].outcome
    BY <1>1, <1>2, <2>2 DEF Jobs
  <2>4. \A d \in Callers : job'[d] = IF d = c THEN j ELSE job[d]
    BY <2>2 DEF Become, TypeInv, JobsOK
  <2>5. /\ row'[a].compensation = "claimed" /\ row'[a].attempts = row[a].attempts
        /\ \A b \in Actions : b # a => row'[b] = row[b]
    BY <1>2, <2>1 DEF Rows
  <2>6. \A b \in Actions : row[b].attempts \in Nat
    BY DEF TypeInv, StoreOK, Rows
  <2>7. Steady
    BY <1>2, <2>5, <2>6 DEF Steady, Landed, Reverted
  <2>8. ASSUME NEW b \in Actions
        PROVE  Grounded(b)'
    <3>1. Grounded(b)
      BY DEF TruthInv
    <3>2. row'[b].attempts = row[b].attempts
      BY <2>5
    <3>3. row'[b].compensation = "none" => row[b].compensation = "none"
      BY <2>5
    <3>4. LedgerTrue(b)' /\ Founded(saved[b].outcome.state, b)' /\ Fresh(b)'
      BY <1>2, <3>1, <3>2 DEF Grounded, LedgerTrue, Fresh, Founded, Landed, Reverted
    <3>5. QED
      BY <1>2, <3>1, <3>3, <3>4 DEF Grounded, Landed
  <2>9. ASSUME NEW d \in Callers
        PROVE  Carried(job[d])'
    <3>1. PICK k : k = job[d]
      OBVIOUS
    <3>2. k \in Jobs /\ Carried(k)
      BY <3>1 DEF TypeInv, JobsOK, TruthInv
    <3>3. Carried(k)'
      BY <2>7, <3>2, CarriedKept
    <3>4. CASE d # c
      BY <2>4, <3>1, <3>3, <3>4 DEF Carried, Blank
    <3>5. CASE d = c
      <4>1. Compensable /\ undone'[a] = 0
        BY <1>2, <2>1 DEF Carried, Grounded, Undoing
      <4>2. k.action = a /\ k.report = j.report /\ k.outcome = j.outcome
        BY <1>1, <2>3, <3>1, <3>5
      <4>3. Carried(j)'
        BY <1>2, <2>3, <2>5, <3>3, <4>1, <4>2
           DEF Carried, Undoing, Unissued, Blank
      <4>4. QED
        BY <2>4, <3>5, <4>3 DEF Carried, Blank
    <3>6. QED
      BY <3>4, <3>5
  <2>10. ASSUME NEW d \in Callers, job[d].action = a
         PROVE  job[d].pc # "undo"
    BY <2>1, <2>10 DEF TruthInv, Carried
  <2>11. ASSUME NEW d \in Callers, NEW e \in Callers, d # e
         PROVE  Exclusive(job'[d], job'[e])
    <3>1. Exclusive(job[d], job[e])
      BY <2>11 DEF TruthInv
    <3>2. QED
      BY <2>3, <2>4, <2>10, <2>11, <3>1 DEF Exclusive, Unissued
  <2>12. QED
    BY <2>8, <2>9, <2>11 DEF TruthInv, Exclusive
<1>5. QED
  BY <1>3, <1>4

(* The compensating request is issued by the one caller that took it.      *)
LEMMA TruthUndo ==
    ASSUME TypeInv, TypeInv', TruthInv, NEW c \in Callers, Compensate(c)
    PROVE  TruthInv'
<1>1. PICK a : a = job[c].action
  OBVIOUS
<1>2. /\ a \in Actions /\ Grounded(a)
      /\ job[c] \in Jobs /\ Carried(job[c]) /\ job[c].pc = "undo"
      /\ UNCHANGED <<lifecycle, ledger, row, saved, request>>
  BY <1>1 DEF Compensate, At, TypeInv, JobsOK, TruthInv, store
<1>3. /\ Compensable /\ undone[a] = 0 /\ row[a].compensation # "none"
      /\ undone \in [Actions -> Nat]
      /\ resource \in [Actions -> [present : BOOLEAN, mine : BOOLEAN, version : Nat]]
  BY <1>1, <1>2 DEF Carried, Undoing, TypeInv, WorldOK
<1>4. undone' = [undone EXCEPT ![a] = @ + 1]
  BY <1>1 DEF Compensate
<1>5. undone'[a] = 1 /\ \A b \in Actions : b # a => undone'[b] = undone[b]
  BY <1>2, <1>3, <1>4
<1>6. /\ ~resource'[a].mine
      /\ \A b \in Actions : b # a => resource'[b] = resource[b]
  <2>1. CASE ~resource[a].mine
    BY <1>1, <2>1 DEF Compensate
  <2>2. CASE resource[a].mine
    <3>1. resource' = [resource EXCEPT ![a] =
                 [present |-> FALSE, mine |-> FALSE, version |-> @.version + 1]]
      BY <1>1, <2>2 DEF Compensate
    <3>2. QED
      BY <1>2, <1>3, <3>1
  <2>3. QED
    BY <2>1, <2>2
<1>7. \A b \in Actions : Landed(b)' <=> Landed(b)
  BY <1>2 DEF Landed
<1>8. ~Reverted(a)
  BY <1>3 DEF Reverted
<1>9. \A b \in Actions : Reverted(b) => Reverted(b)'
  BY <1>5, <1>6, <1>7, <1>8 DEF Reverted
<1>10. ASSUME NEW b \in Actions
       PROVE  Grounded(b)'
  <2>1. Grounded(b)
    BY DEF TruthInv
  <2>2. undone'[b] <= 1 /\ (row'[b].compensation = "none" => undone'[b] = 0)
    BY <1>2, <1>3, <1>5, <2>1 DEF Grounded
  <2>3. resource'[b].mine => Landed(b)'
    BY <1>6, <1>7, <2>1 DEF Grounded
  <2>4. LedgerTrue(b)' /\ Founded(saved[b].outcome.state, b)' /\ Fresh(b)'
    BY <1>2, <1>7, <1>9, <2>1 DEF Grounded, LedgerTrue, Fresh, Founded
  <2>5. QED
    BY <2>2, <2>3, <2>4 DEF Grounded
<1>11. ASSUME NEW k, Carried(k), k.action = a => k.pc # "undo"
       PROVE  Carried(k)'
  <2>1. CASE Blank(k)
    <3>1. Founded(k.outcome.state, k.action)'
      BY <2>1 DEF Blank, NoOutcome, Founded
    <3>2. QED
      BY <2>1, <3>1 DEF Blank, Carried, NoReport, Undoing
  <2>2. CASE k.action \in Actions
    <3>1. Founded(k.outcome.state, k.action)'
      BY <1>7, <1>9, <1>11, <2>2 DEF Carried, Founded
    <3>2. k.pc = "undo" => undone'[k.action] = undone[k.action]
      BY <1>5, <1>11, <2>2
    <3>3. /\ Landed(k.action) => Landed(k.action)'
          /\ Reverted(k.action) => Reverted(k.action)'
      BY <1>7, <1>9, <2>2
    <3>4. QED
      BY <1>2, <1>11, <2>2, <3>1, <3>2, <3>3 DEF Carried
  <2>3. QED
    BY <1>11, <2>1, <2>2 DEF Carried
<1>12. PICK j : /\ Become(c, j)
                /\ \/ j = Idle
                   \/ resource[a].mine /\ j = [job[c] EXCEPT !.pc = "report_undone"]
  BY <1>1 DEF Compensate, Goto, Return
<1>13. \A d \in Callers : job'[d] = IF d = c THEN j ELSE job[d]
  BY <1>12 DEF Become, TypeInv, JobsOK
<1>14. j.pc \notin Unissued /\ j.pc # "undo"
  <2>1. CASE j = Idle
    BY <2>1, IdleType DEF Unissued
  <2>2. CASE j # Idle
    BY <1>2, <1>12, <2>2 DEF Jobs, Unissued
  <2>3. QED
    BY <2>1, <2>2
<1>15. Carried(j)'
  <2>1. CASE j = Idle
    <3>1. Carried(j) /\ j.pc = "idle"
      BY <2>1, BlankJobs, BlankCarried, IdleType
    <3>2. QED
      BY <1>11, <3>1
  <2>2. CASE j # Idle
    <3>1. /\ j.pc = "report_undone" /\ j.action = a /\ j.report = job[c].report
          /\ j.outcome = job[c].outcome /\ resource[a].mine
      BY <1>1, <1>2, <1>12, <2>2 DEF Jobs
    <3>2. Landed(a)' /\ Reverted(a)'
      BY <1>2, <1>5, <1>6, <1>7, <3>1 DEF Grounded, Reverted
    <3>3. /\ j.report.fact # "undone"
          /\ Founded(j.outcome.state, a)
      BY <1>1, <1>2, <3>1 DEF Carried
    <3>4. Founded(j.outcome.state, a)'
      BY <1>2, <1>7, <1>9, <3>3 DEF Founded
    <3>5. QED
      BY <1>2, <1>3, <3>1, <3>2, <3>3, <3>4 DEF Carried, Undoing, Unissued
  <2>3. QED
    BY <2>1, <2>2
<1>16. ASSUME NEW d \in Callers
       PROVE  Carried(job[d])'
  <2>1. CASE d = c
    BY <1>13, <1>15, <2>1 DEF Carried, Blank
  <2>2. CASE d # c
    <3>1. PICK k : k = job[d]
      OBVIOUS
    <3>2. Carried(k) /\ (k.action = a => k.pc # "undo")
      BY <1>1, <1>2, <2>2, <3>1 DEF TruthInv, Exclusive
    <3>3. Carried(k)'
      BY <1>11, <3>2
    <3>4. QED
      BY <1>13, <2>2, <3>1, <3>3 DEF Carried, Blank
  <2>3. QED
    BY <2>1, <2>2
<1>17. ASSUME NEW d \in Callers, NEW e \in Callers, d # e
       PROVE  Exclusive(job'[d], job'[e])
  BY <1>13, <1>14, <1>17 DEF TruthInv, Exclusive
<1>18. QED
  BY <1>10, <1>16, <1>17 DEF TruthInv, Exclusive

(* It is recorded as what happened, and the row is finished.               *)
LEMMA TruthUndone ==
    ASSUME TypeInv, TypeInv', TruthInv, NEW c \in Callers,
           AppendUndone(c) \/ FinishCompensation(c)
    PROVE  TruthInv'
<1>1. PICK a : a = job[c].action
  OBVIOUS
<1>2. /\ a \in Actions /\ Grounded(a) /\ row \in [Actions -> Rows]
      /\ job[c] \in Jobs /\ Carried(job[c]) /\ job[c].pc \in {"report_undone", "finish_undo"}
      /\ UNCHANGED <<lifecycle, saved, request, resource, undone>>
  BY <1>1 DEF AppendUndone, FinishCompensation, At, TypeInv, JobsOK, StoreOK, TruthInv, world
<1>3. CASE AppendUndone(c)
  <2>1. Rested /\ Compensable /\ Reverted(a)
    BY <1>1, <1>2, <1>3 DEF AppendUndone, Rested, Carried, Undoing
  <2>2. PICK e : e = Plain("undone")
    OBVIOUS
  <2>3. e \in Entry /\ AppendTo(a, e) /\ e.fact = "undone"
    BY <1>1, <1>3, <2>2, PlainType, ExchangeTells DEF AppendUndone, Facts
  <2>4. \A b \in Actions : Grounded(b)'
    BY <1>2, <2>1, <2>3, AppendGround
  <2>5. Steady
    BY <2>1, RestedSteady
  <2>6. PICK j : Become(c, j) /\ j = [job[c] EXCEPT !.pc = "finish_undo"]
    BY <1>3 DEF AppendUndone, Goto
  <2>7. /\ j.pc = "finish_undo" /\ j.action = a /\ j.report = job[c].report
        /\ j.outcome = job[c].outcome
    BY <1>1, <1>2, <2>6 DEF Jobs
  <2>8. \A d \in Callers : job'[d] = IF d = c THEN j ELSE job[d]
    BY <2>6 DEF Become, TypeInv, JobsOK
  <2>9. Carried(j)
    BY <1>1, <1>2, <2>1, <2>7 DEF Carried, Undoing, Unissued
  <2>10. ASSUME NEW d \in Callers
         PROVE  Carried(job[d])'
    <3>1. PICK k : k = job'[d]
      OBVIOUS
    <3>2. k \in Jobs /\ Carried(k)
      BY <2>8, <2>9, <3>1 DEF TypeInv, JobsOK, TruthInv
    <3>3. Carried(k)'
      BY <2>5, <3>2, CarriedKept
    <3>4. QED
      BY <3>1, <3>3 DEF Carried, Blank
  <2>11. ASSUME NEW d \in Callers, NEW e2 \in Callers, d # e2
         PROVE  Exclusive(job'[d], job'[e2])
    BY <2>7, <2>8, <2>11 DEF TruthInv, Exclusive, Unissued
  <2>12. QED
    BY <2>4, <2>10, <2>11 DEF TruthInv, Exclusive
<1>4. CASE FinishCompensation(c)
  <2>1. /\ row' = [row EXCEPT ![a].compensation = "finished"] /\ UNCHANGED ledger
        /\ Become(c, Reconciling(a))
    BY <1>1, <1>4 DEF FinishCompensation, Reconcile
  <2>2. /\ row'[a].compensation = "finished" /\ row'[a].attempts = row[a].attempts
        /\ \A b \in Actions : b # a => row'[b] = row[b]
    BY <1>2, <2>1 DEF Rows
  <2>3. \A b \in Actions : row[b].attempts \in Nat
    BY DEF TypeInv, StoreOK, Rows
  <2>4. Steady
    BY <1>2, <2>2, <2>3 DEF Steady, Landed, Reverted
  <2>5. ASSUME NEW b \in Actions
        PROVE  Grounded(b)'
    <3>1. Grounded(b)
      BY DEF TruthInv
    <3>2. row'[b].attempts = row[b].attempts
      BY <2>2
    <3>3. row'[b].compensation = "none" => row[b].compensation = "none"
      BY <2>2
    <3>4. LedgerTrue(b)' /\ Founded(saved[b].outcome.state, b)' /\ Fresh(b)'
      BY <1>2, <2>1, <3>1, <3>2 DEF Grounded, LedgerTrue, Fresh, Founded, Landed, Reverted
    <3>5. QED
      BY <1>2, <3>1, <3>3, <3>4 DEF Grounded, Landed
  <2>6. \A d \in Callers : job'[d] = IF d = c THEN Reconciling(a) ELSE job[d]
    BY <2>1 DEF Become, TypeInv, JobsOK
  <2>7. QED
    BY <1>2, <2>4, <2>5, <2>6, BlankJobs, Settles
<1>5. QED
  BY <1>3, <1>4
(* Every step of a caller keeps the invariant.                             *)
LEMMA TruthStep ==
    ASSUME TypeInv, TypeInv', TruthInv, NEW c \in Callers, Step(c)
    PROVE  TruthInv'
<1>1. CASE \/ RecordIntent(c) \/ Initialize(c) \/ EnsureDispatchPlan(c) \/ Route(c)
           \/ CheckSource(c) \/ Register(c) \/ CrossBoundary(c) \/ EnterDispatching(c)
           \/ SendNothingToDo(c) \/ Revalidate(c) \/ SendStopped(c)
           \/ Respond(c) \/ SendTimesOut(c) \/ AnswerUnreadable(c)
           \/ SetNotSent(c) \/ Normalize(c) \/ StealClaim(c) \/ ListEvidence(c)
           \/ NextResolutionSequence(c) \/ CheckNotSent(c) \/ CheckRetry(c)
           \/ FloorBoundary(c)
           \/ ClaimDispatch(c) /\ ~Claimable(c)
  BY <1>1, TruthQuiet
<1>2. CASE ClaimDispatch(c) /\ Claimable(c)
  BY <1>2, TruthClaim
<1>3. CASE Send(c)
  BY <1>3, TruthSend
<1>4. CASE \/ Observe(c) \/ ObserveFails(c) \/ Derive(c) \/ SaveResolution(c)
           \/ RequireCurrent(c)
  BY <1>4, TruthResolve
<1>5. CASE AppendReport(c) \/ RecordNotSent(c) \/ RecordCaught(c) \/ AppendObservation(c)
  BY <1>5, TruthAppend
<1>6. CASE ClaimCompensation(c) \/ Compensate(c) \/ AppendUndone(c) \/ FinishCompensation(c)
  BY <1>6, TruthClaimUndo, TruthUndo, TruthUndone
<1>7. CASE Release(c)
  <2>1. Rested /\ UNCHANGED <<ledger, saved>> /\ ~At(c, "idle")
    BY <1>7 DEF Release, store, world, Rested, At
  <2>2. \A d \in Callers : d # c /\ At(d, "await") => job[d].action \in Actions
    BY DEF TypeInv, JobsOK, At
  <2>3. job[c].action \in Actions
    BY <2>1 DEF TypeInv, JobsOK, At
  <2>4. ASSUME NEW d \in Callers
        PROVE  job'[d] = job[d] \/ Blank(job'[d])
    <3>1. \/ job'[d] = job[d]
          \/ job'[d] = Idle
          \/ job'[d] = Reconciling(job[c].action)
          \/ At(d, "await") /\ job'[d] = Reconciling(job[d].action)
      BY <1>7 DEF Release, Awaiting, AfterLostClaim
    <3>2. QED
      BY <2>3, <3>1, BlankJobs DEF At, TypeInv, JobsOK
  <2>5. Steady /\ \A a \in Actions : Grounded(a)'
    BY <2>1, RestedSteady, RestedGround DEF TruthInv
  <2>6. QED
    BY <2>4, <2>5, Settles
<1>8. QED
  BY <1>1, <1>2, <1>3, <1>4, <1>5, <1>6, <1>7 DEF Step

(* A caller that enters carries nothing yet.                               *)
LEMMA TruthCall ==
    ASSUME TypeInv, TypeInv', TruthInv, NEW c \in Callers,
           NEW op \in Operations, NEW a \in Actions, Call(c, op, a)
    PROVE  TruthInv'
<1>1. Rested /\ UNCHANGED <<ledger, saved>>
  BY DEF Call, store, world, Rested
<1>2. Steady /\ \A b \in Actions : Grounded(b)'
  BY <1>1, RestedSteady, RestedGround DEF TruthInv
<1>3. PICK p, w : Become(c, [Idle EXCEPT !.op = op, !.action = a, !.pc = p, !.want = w])
                  /\ p \in {"intent", "initialize", "normalize", "current", "claim_undo"}
                  /\ (p = "claim_undo" => Compensable)
  BY DEF Call, Operations
<1>4. PICK j : Become(c, j) /\ j = [Idle EXCEPT !.op = op, !.action = a, !.pc = p, !.want = w]
  BY <1>3
<1>5. j.pc = p /\ j.report = NoReport /\ j.outcome = NoOutcome /\ j.action = a
  BY <1>4 DEF Idle
<1>6. Carried(j)
  BY <1>3, <1>5 DEF Carried, Undoing, Unissued, NoReport, NoOutcome, Founded
<1>7. \A d \in Callers : job'[d] = IF d = c THEN j ELSE job[d]
  BY <1>4 DEF Become, TypeInv, JobsOK
<1>8. ASSUME NEW d \in Callers
      PROVE  Carried(job[d])'
  <2>1. PICK k : k = job'[d]
    OBVIOUS
  <2>2. k \in Jobs /\ Carried(k)
    BY <1>6, <1>7, <2>1 DEF TypeInv, JobsOK, TruthInv
  <2>3. Carried(k)'
    BY <1>2, <2>2, CarriedKept
  <2>4. QED
    BY <2>1, <2>3 DEF Carried, Blank
<1>9. ASSUME NEW d \in Callers, NEW e \in Callers, d # e
      PROVE  Exclusive(job'[d], job'[e])
  BY <1>3, <1>5, <1>7, <1>9 DEF TruthInv, Exclusive, Unissued
<1>10. QED
  BY <1>2, <1>8, <1>9 DEF TruthInv, Exclusive

(* A crash forgets, others change what is not the action's own any more,   *)
(* and a mutation that lands founds what was claimed without it.           *)
LEMMA TruthEnvironment ==
    ASSUME TypeInv, TypeInv', TruthInv, Environment
    PROVE  TruthInv'
<1>1. ASSUME NEW h \in Hosts, Crash(h)
      PROVE  TruthInv'
  <2>1. Rested /\ UNCHANGED <<ledger, saved>>
    BY <1>1 DEF Crash, store, world, Rested
  <2>2. Steady /\ \A a \in Actions : Grounded(a)'
    BY <2>1, RestedSteady, RestedGround DEF TruthInv
  <2>3. \A d \in Callers : job'[d] = job[d] \/ Blank(job'[d])
    BY <1>1, BlankJobs DEF Crash
  <2>4. QED
    BY <2>2, <2>3, Settles
<1>2. ASSUME Steady, UNCHANGED <<ledger, row, saved, job>>,
             \A a \in Actions : resource'[a].mine => Landed(a)',
             \A a \in Actions, n \in Attempts : request[a][n] = "none" => request'[a][n] = "none"
      PROVE  TruthInv'
  <2>1. ASSUME NEW a \in Actions
        PROVE  Grounded(a)'
    <3>1. Grounded(a)
      BY DEF TruthInv
    <3>2. \A n \in Attempts : n > row[a].attempts => request'[a][n] = "none"
      BY <1>2, <3>1 DEF Grounded, Fresh
    <3>3. QED
      BY <1>2, <3>1, <3>2, GroundedKept
  <2>2. QED
    BY <1>2, <2>1, Settles
<1>3. ASSUME NEW a \in Actions, NEW n \in Attempts, Land(a, n) \/ Drop(a, n)
      PROVE  TruthInv'
  <2>1. /\ request \in [Actions -> [Attempts -> {"none", "flying", "landed", "dropped"}]]
        /\ resource \in [Actions -> [present : BOOLEAN, mine : BOOLEAN, version : Nat]]
        /\ \A b \in Actions : row[b].attempts \in Nat
    BY DEF TypeInv, WorldOK, StoreOK, Rows
  <2>2. PICK v \in {"landed", "dropped"} : /\ request' = [request EXCEPT ![a][n] = v]
                                           /\ v = "landed" <=> Land(a, n)
    <3>1. CASE Land(a, n)
      BY <3>1 DEF Land
    <3>2. CASE ~Land(a, n)
      BY <1>3, <3>2 DEF Drop
    <3>3. QED
      BY <3>1, <3>2
  <2>3. request[a][n] = "flying" /\ UNCHANGED <<ledger, row, saved, job, undone>>
    BY <1>3 DEF Land, Drop, store, process
  <2>4. \A b \in Actions, m \in Attempts :
          /\ (b # a \/ m # n) => request'[b][m] = request[b][m]
          /\ request[b][m] = "none" => request'[b][m] = "none"
          /\ request[b][m] = "landed" => request'[b][m] = "landed"
    BY <2>1, <2>2, <2>3
  <2>5. \A b \in Actions : Landed(b) => Landed(b)'
    BY <2>4 DEF Landed
  <2>6. Land(a, n) => Landed(a)'
    BY <2>1, <2>2 DEF Landed
  <2>7. \A b \in Actions : resource'[b] = resource[b] \/ (b = a /\ Land(a, n))
    BY <1>3, <2>1 DEF Land, Drop
  <2>8. Idempotent /\ Landed(a) => resource' = resource
    BY <1>3 DEF Land, Drop, Landed
  <2>9. ASSUME NEW b \in Actions, Compensable, Reverted(b)
        PROVE  Reverted(b)'
    <3>1. Idempotent
      BY <2>9 DEF Compensable, Idempotent
    <3>2. Landed(b) /\ undone'[b] = 1
      BY <2>3, <2>9 DEF Reverted
    <3>3. resource'[b] = resource[b]
      BY <2>7, <2>8, <3>1, <3>2
    <3>4. QED
      BY <2>5, <2>9, <3>2, <3>3 DEF Reverted
  <2>10. Steady
    BY <2>1, <2>3, <2>4, <2>5, <2>9 DEF Steady
  <2>11. ASSUME NEW b \in Actions, resource'[b].mine
         PROVE  Landed(b)'
    BY <2>5, <2>6, <2>7, <2>11 DEF TruthInv, Grounded
  <2>12. QED
    BY <1>2, <2>3, <2>4, <2>10, <2>11
<1>4. ASSUME NEW a \in Actions, WindowElapses(a) \/ ExternalChange(a)
      PROVE  TruthInv'
  <2>1. /\ UNCHANGED <<ledger, row, saved, job, request, undone>>
        /\ resource \in [Actions -> [present : BOOLEAN, mine : BOOLEAN, version : Nat]]
        /\ \A b \in Actions : row[b].attempts \in Nat
    BY <1>4 DEF WindowElapses, ExternalChange, store, process, TypeInv, WorldOK, StoreOK, Rows
  <2>2. \A b \in Actions : resource'[b] = resource[b] \/ ~resource'[b].mine
    BY <1>4, <2>1 DEF WindowElapses, ExternalChange
  <2>3. \A b \in Actions : Landed(b)' <=> Landed(b)
    BY <2>1 DEF Landed
  <2>4. Steady
    BY <2>1, <2>2, <2>3 DEF Steady, Reverted
  <2>5. \A b \in Actions : resource'[b].mine => Landed(b)'
    BY <2>2, <2>3 DEF TruthInv, Grounded
  <2>6. QED
    BY <1>2, <2>1, <2>4, <2>5
<1>5. QED
  BY <1>1, <1>3, <1>4 DEF Environment

(* Nothing is claimed of anything in the initial state.                    *)
LEMMA TruthInit == Init => TruthInv
<1>. SUFFICES ASSUME Init PROVE TruthInv
  OBVIOUS
<1>1. ASSUME NEW a \in Actions
      PROVE  Grounded(a)
  BY DEF Init, Grounded, LedgerTrue, Fresh, Founded, NoOutcome
<1>2. ASSUME NEW c \in Callers
      PROVE  Carried(job[c])
  BY BlankJobs, BlankCarried DEF Init
<1>3. ASSUME NEW c \in Callers, NEW d \in Callers
      PROVE  Exclusive(job[c], job[d])
  BY IdleType DEF Init, Exclusive, Unissued
<1>4. QED
  BY <1>1, <1>2, <1>3 DEF TruthInv

(* The invariant is inductive, over the typing invariant.                  *)
LEMMA TruthNext ==
    ASSUME TypeInv, TypeInv', TruthInv, [Next]_vars
    PROVE  TruthInv'
<1>1. CASE Next
  BY <1>1, TruthStep, TruthCall, TruthEnvironment DEF Next
<1>2. CASE UNCHANGED vars
  <2>1. Rested /\ UNCHANGED <<ledger, saved, job>>
    BY <1>2 DEF vars, Rested
  <2>2. QED
    BY <2>1, RestedSteady, RestedGround, Settles DEF TruthInv
<1>3. QED
  BY <1>1, <1>2

(* Every reachable state satisfies the invariant.                          *)
LEMMA TruthInvariant == Spec => [](TypeInv /\ TruthInv)
<1>1. Init => TypeInv /\ TruthInv
  BY TypeInit, TruthInit
<1>2. (TypeInv /\ TruthInv) /\ [Next]_vars => (TypeInv /\ TruthInv)'
  BY TypeNext, TruthNext
<1>3. QED
  BY <1>1, <1>2, PTL DEF Spec

(* A resolution says "verified" only of an action one of whose mutations   *)
(* landed, whatever was lost, stolen, retried or changed by others, and    *)
(* whichever of the effects it is (nystRuntime.ts deriveAndPersist).       *)
THEOREM VerifiedTheorem == Spec => []VerifiedIsTrue
<1>1. TypeInv /\ TruthInv => VerifiedIsTrue
  BY DEF TruthInv, Grounded, Founded, Landed, VerifiedIsTrue
<1>2. QED
  BY <1>1, TruthInvariant, PTL

(* At most one compensating request is ever issued for an action, and a    *)
(* resolution says "compensated" only when it was, and nothing of the      *)
(* action's own is left (nystRuntime.ts 264-276).                          *)
THEOREM CompensationTheorem == Spec => []CompensationIsSingle
<1>1. TypeInv /\ TruthInv => CompensationIsSingle
  BY DEF TruthInv, Grounded, Founded, Reverted, CompensationIsSingle
<1>2. QED
  BY <1>1, TruthInvariant, PTL
=============================================================================
