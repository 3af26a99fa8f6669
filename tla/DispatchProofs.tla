--------------------------- MODULE DispatchProofs ---------------------------
(***************************************************************************)
(* The dispatch boundary of an effect without provider idempotency, for    *)
(* any number of callers, processes, actions, crashes and calls.  The      *)
(* argument is the inductive invariant DispatchInv: what a row says of the *)
(* boundary bounds what was sent (Row), a caller inside the protocol holds *)
(* an attempt nobody else holds (Caller, distinct claims), and once the    *)
(* first attempt is known unsent it stays unsent (FirstUnsent).            *)
(* Then the refinement of Consequence, that the stores only move onward,   *)
(* and last the currency of what the callers rely on.                      *)
(***************************************************************************)
EXTENDS NystRuntimeProofs

(* Callers that hold a dispatch claim, and those that have not sent yet.   *)
Owning == {"register", "boundary"} \union Sending
Before == {"register", "boundary", "dispatching", "send", "write"}

(* The first attempt ended without sending, and every later claim is a     *)
(* later attempt.                                                          *)
FirstUnsent(a) ==
    /\ row[a].attempts > 0
    /\ row[a].attempts = 1 => row[a].status = "definitely_not_sent"

HasNotSent(l) == \E i \in DOMAIN l : l[i].fact = "not_sent"

Row(a) ==
    /\ \A n \in Sent(a) : row[a].status = "attempted" /\ n = row[a].attempts
    /\ row[a].status = "claimed" => row[a].token = row[a].attempts
    /\ row[a].attempts = 0 <=> row[a].status \in {"absent", "not_started"}
    /\ row[a].attempts > 0 => Planned(a)
    /\ HasNotSent(ledger[a]) => FirstUnsent(a)

Caller(j) ==
    /\ j.pc \in Owning => 1 <= j.attempt /\ j.attempt <= row[j.action].attempts
    /\ j.pc \in Sending =>
         row[j.action].status = "attempted" /\ j.attempt = row[j.action].attempts
    /\ j.pc \in Before => j.attempt \notin Sent(j.action)
    /\ j.pc \in {"report", "unsend"} /\ j.unsent => j.attempt \notin Sent(j.action)
    /\ j.pc = "unsend" => j.unsent
    /\ j.pc \in {"unsent", "stolen"} => FirstUnsent(j.action)
    /\ j.pc = "claim" => IF j.op = "retry" THEN FirstUnsent(j.action) ELSE Planned(j.action)
    /\ j.pc \in {"intent", "initialize", "plan", "route", "source"} => j.op # "retry"
    /\ j.pc \in {"initialize", "plan"} => lifecycle[j.action] # "absent"
    /\ j.pc \in {"route", "source"} => Planned(j.action)
    /\ j.pc \in Carriers => j.report.fact # "not_sent"

DistinctClaims ==
    \A c, d \in Callers :
        /\ job[c].pc \in Owning /\ job[d].pc \in Owning
        /\ job[c].action = job[d].action /\ job[c].attempt = job[d].attempt
        => c = d

DispatchInv ==
    /\ \A a \in Actions : Row(a)
    /\ \A c \in Callers : Caller(job[c])
    /\ DistinctClaims

-----------------------------------------------------------------------------
(* The program counters that DispatchInv says nothing about.               *)
Calm == {"idle", "await", "rejected", "caught", "settle", "settled", "steal",
         "normalize", "list", "observe", "derive", "floor", "sequence", "save", "current",
         "relist", "reobserve", "recheck", "proof", "claim_undo", "undo", "report_undone",
         "finish_undo"}

(* What a step outside the protocol leaves of the rows, requests and so on.*)
Frame ==
    /\ request' = request
    /\ \A a \in Actions :
        /\ row'[a].attempts = row[a].attempts
        /\ row'[a].token = row[a].token
        /\ \/ row'[a].status = row[a].status
           \/ row[a].status = "absent" /\ row'[a].status = "not_started"
        /\ Planned(a) => Planned(a)'
        /\ lifecycle[a] # "absent" => lifecycle'[a] # "absent"
        /\ HasNotSent(ledger'[a]) => HasNotSent(ledger[a]) \/ FirstUnsent(a)

(* What was sent is a matter of the requests alone.                        *)
LEMMA SentKept == \A a : request' = request => Sent(a)' = Sent(a)
BY DEF Sent

(* A step inside the frame keeps the first attempt known unsent,           *)
LEMMA FirstUnsentKept == \A a \in Actions : Frame /\ FirstUnsent(a) => FirstUnsent(a)'
BY DEF Frame, FirstUnsent

(* ... keeps what a row says of the boundary,                              *)
LEMMA FrameRow ==
    ASSUME Frame, NEW a \in Actions, Row(a)
    PROVE  Row(a)'
BY SentKept, FirstUnsentKept DEF Frame, Row

(* ... and what is claimed of a caller that does not move.                 *)
LEMMA FrameCaller ==
    ASSUME Frame, NEW j, j.pc # "idle" => j.action \in Actions, Caller(j)
    PROVE  Caller(j)'
<1>1. CASE j.action \in Actions
  BY <1>1, SentKept, FirstUnsentKept DEF Frame, Caller
<1>2. CASE j.pc = "idle"
  BY <1>2 DEF Caller, Owning, Sending, Before, Carriers
<1>3. QED
  BY <1>1, <1>2

(* Nothing is claimed of a caller outside the protocol.                    *)
LEMMA CalmCaller ==
    ASSUME NEW j, j.pc \in Calm
    PROVE  Caller(j) /\ Caller(j)' /\ j.pc \notin Owning
BY DEF Calm, Caller, Owning, Sending, Before, Carriers

(* A step that leaves the frame alone and moves callers to where nothing   *)
(* new is claimed of them keeps the invariant.                             *)
LEMMA Quiet ==
    ASSUME TypeInv, DispatchInv, Frame,
           \A d \in Callers :
              \/ job'[d] = job[d]
              \/ job'[d].pc \in Calm
              \/ /\ Caller(job[d])'
                 /\ job'[d].pc \in Owning =>
                      /\ job[d].pc \in Owning
                      /\ job'[d].action = job[d].action
                      /\ job'[d].attempt = job[d].attempt
    PROVE  DispatchInv'
<1>1. \A a \in Actions : Row(a)'
  BY FrameRow DEF DispatchInv
<1>2. ASSUME NEW d \in Callers
      PROVE  Caller(job[d])'
  <2>1. CASE job'[d] = job[d]
    <3>0. PICK j : j = job[d]
      OBVIOUS
    <3>1. Caller(j) /\ (j.pc # "idle" => j.action \in Actions)
      BY <3>0 DEF DispatchInv, TypeInv, JobsOK
    <3>2. Caller(j)'
      BY <3>1, FrameCaller
    <3>3. QED
      BY <2>1, <3>0, <3>2 DEF Caller
  <2>2. QED
    BY <2>1, CalmCaller
<1>3. DistinctClaims'
  BY CalmCaller DEF DispatchInv, DistinctClaims
<1>4. QED
  BY <1>1, <1>2, <1>3 DEF DispatchInv

(* A step that touches no row, ledger, lifecycle or request is inside.     *)
LEMMA StillFrame == UNCHANGED <<lifecycle, ledger, row, request>> => Frame
BY DEF Frame, Planned

(* An entry other than the not-sent record leaves the frame alone.         *)
LEMMA AppendFrame ==
    ASSUME TypeInv, NEW a \in Actions, NEW e \in Entry, AppendTo(a, e),
           e.fact # "not_sent" \/ FirstUnsent(a),
           UNCHANGED <<lifecycle, row, request>>
    PROVE  Frame
<1>1. ASSUME NEW l \in Seq(Entry), HasNotSent(Appended(l, e))
      PROVE  HasNotSent(l) \/ e.fact = "not_sent"
  BY <1>1 DEF Appended, HasNotSent
<1>2. ASSUME NEW b \in Actions, HasNotSent(ledger'[b])
      PROVE  HasNotSent(ledger[b]) \/ FirstUnsent(b)
  <2>1. ledger[b] \in Seq(Entry) /\ ledger'[b] = IF b = a THEN Appended(ledger[a], e) ELSE ledger[b]
    BY DEF TypeInv, StoreOK, AppendTo
  <2>2. QED
    BY <1>1, <1>2, <2>1
<1>3. QED
  BY <1>2 DEF Frame, Planned

(* A change to the sequence or the compensation of a row does as well.     *)
LEMMA RowFrame ==
    ASSUME TypeInv, NEW a \in Actions, NEW r, row' = [row EXCEPT ![a] = r],
           r.attempts = row[a].attempts, r.token = row[a].token,
           \/ r.status = row[a].status
           \/ row[a].status = "absent" /\ r.status = "not_started",
           UNCHANGED <<lifecycle, ledger, request>>
    PROVE  Frame
BY DEF TypeInv, StoreOK, Frame, Planned

(* So is one that moves a lifecycle forward.                               *)
LEMMA LifecycleFrame ==
    ASSUME TypeInv, NEW a \in Actions, NEW l, lifecycle' = [lifecycle EXCEPT ![a] = l],
           Planned(a) => l \notin {"absent", "intent_recorded"},
           lifecycle[a] # "absent" => l # "absent",
           UNCHANGED <<ledger, row, request>>
    PROVE  Frame
BY DEF TypeInv, StoreOK, Frame, Planned

(* What each way of moving a caller leaves of it and of the others.        *)
LEMMA BecomeFields ==
    ASSUME TypeInv, NEW c \in Callers, NEW j, Become(c, j)
    PROVE  job'[c] = j /\ \A d \in Callers : d # c => job'[d] = job[d]
BY DEF TypeInv, JobsOK, Become

(* A caller that goes on keeps the claim it holds.                         *)
LEMMA GotoFields ==
    ASSUME TypeInv, NEW c \in Callers, NEW pc \in PCs, Goto(c, pc)
    PROVE  /\ job'[c].pc = pc
           /\ job'[c].op = job[c].op
           /\ job'[c].action = job[c].action
           /\ job'[c].attempt = job[c].attempt
           /\ job'[c].unsent = job[c].unsent
           /\ \A d \in Callers : d # c => job'[d] = job[d]
<1>1. job[c] \in Jobs /\ job'[c] = [job[c] EXCEPT !.pc = pc]
  BY BecomeFields DEF Goto, TypeInv, JobsOK
<1>2. QED
  BY <1>1, BecomeFields DEF Goto, Jobs

(* A caller that has something to report keeps its claim.                  *)
LEMMA ReportFields ==
    ASSUME TypeInv, NEW c \in Callers, NEW e, NEW unsent, Reported(c, e, unsent)
    PROVE  /\ job'[c].pc = "report"
           /\ job'[c].action = job[c].action
           /\ job'[c].attempt = job[c].attempt
           /\ job'[c].unsent = unsent
           /\ job'[c].report = e
           /\ \A d \in Callers : d # c => job'[d] = job[d]
<1>. DEFINE j == [job[c] EXCEPT !.pc = "report", !.report = e, !.unsent = unsent]
<1>1. job[c] \in Jobs /\ job'[c] = j
  BY BecomeFields DEF Reported, TypeInv, JobsOK
<1>2. j.pc = "report" /\ j.action = job[c].action /\ j.attempt = job[c].attempt
      /\ j.unsent = unsent /\ j.report = e
  BY <1>1 DEF Jobs
<1>3. QED
  BY <1>1, <1>2, BecomeFields DEF Reported

(* A caller that returns leaves the protocol,                              *)
LEMMA ReturnFields ==
    ASSUME TypeInv, NEW c \in Callers, Return(c)
    PROVE  /\ job'[c].pc \in Calm
           /\ \A d \in Callers : d # c => job'[d] = job[d]
<1>1. Idle.pc \in Calm
  BY DEF Idle, Calm
<1>2. QED
  BY <1>1, BecomeFields DEF Return

(* ... and so does one that goes on to reconcile.                          *)
LEMMA ReconcileFields ==
    ASSUME TypeInv, NEW c \in Callers, ~At(c, "idle"), Reconcile(c)
    PROVE  /\ job'[c].pc \in Calm
           /\ \A d \in Callers : d # c => job'[d] = job[d]
<1>1. Reconciling(job[c].action).pc = "normalize"
  BY ReconcilingType DEF TypeInv, JobsOK, At
<1>2. QED
  BY <1>1, BecomeFields DEF Reconcile, Calm

(* The three ways a step moves one caller without entering the protocol.   *)
LEMMA QuietCalm ==
    ASSUME TypeInv, DispatchInv, Frame, NEW c \in Callers,
           job'[c].pc \in Calm,
           \A d \in Callers : d # c => job'[d] = job[d]
    PROVE  DispatchInv'
BY Quiet

(* The caller stays, keeping what is claimed of it.                        *)
LEMMA QuietCaller ==
    ASSUME TypeInv, DispatchInv, Frame, NEW c \in Callers,
           Caller(job[c])',
           job'[c].pc \in Owning =>
                      /\ job[c].pc \in Owning
                      /\ job'[c].action = job[c].action
                      /\ job'[c].attempt = job[c].attempt,
           \A d \in Callers : d # c => job'[d] = job[d]
    PROVE  DispatchInv'
BY Quiet

(* An owner, or a recovery that stole its claim, settles what the row says *)
(* of the boundary while nothing was sent and nobody else is sending.      *)
LEMMA StatusChange ==
    ASSUME TypeInv, DispatchInv, NEW c \in Callers, NEW a \in Actions,
           UNCHANGED <<lifecycle, ledger, request>>,
           Sent(a) = {}, row[a].attempts > 0, row[a].status # "definitely_not_sent",
           row'[a].status \in {"attempted", "definitely_not_sent"},
           row'[a].attempts = row[a].attempts,
           \A b \in Actions : b # a => row'[b] = row[b],
           \A d \in Callers : d # c /\ job[d].action = a => job[d].pc \notin Sending,
           \A d \in Callers : d # c => job'[d] = job[d],
           Caller(job[c])',
           job'[c].pc \in Owning => /\ job[c].pc \in Owning
                                    /\ job'[c].action = job[c].action
                                    /\ job'[c].attempt = job[c].attempt
    PROVE  DispatchInv'
<1>1. \A b : Sent(b)' = Sent(b)
  BY SentKept
<1>2. row[a].attempts \in Nat
  BY DEF TypeInv, StoreOK, Rows
<1>3. \A b \in Actions : FirstUnsent(b) => FirstUnsent(b)'
  BY <1>2 DEF FirstUnsent
<1>4. ASSUME NEW b \in Actions
      PROVE  Row(b)'
  <2>1. Row(b)
    BY DEF DispatchInv
  <2>2. CASE b = a
    BY <1>1, <1>2, <1>3, <2>1, <2>2 DEF Row, Planned
  <2>3. CASE b # a
    BY <1>1, <1>3, <2>1, <2>3 DEF Row, Planned
  <2>4. QED
    BY <2>2, <2>3
<1>5. ASSUME NEW d \in Callers, d # c
      PROVE  Caller(job[d])'
  <2>1. PICK j : j = job[d]
    OBVIOUS
  <2>2. j \in Jobs /\ Caller(j) /\ (j.pc # "idle" => j.action \in Actions)
    BY <2>1 DEF DispatchInv, TypeInv, JobsOK
  <2>3. CASE j.pc = "idle"
    BY <1>5, <2>1, <2>3 DEF Caller, Owning, Sending, Before, Carriers
  <2>4. CASE j.pc # "idle"
    <3>1. Caller(j)'
      BY <1>1, <1>3, <1>5, <2>1, <2>2, <2>4 DEF Caller, Planned
    <3>2. QED
      BY <1>5, <2>1, <3>1 DEF Caller
  <2>5. QED
    BY <2>3, <2>4
<1>6. DistinctClaims'
  BY DEF DispatchInv, DistinctClaims
<1>7. QED
  BY <1>4, <1>5, <1>6 DEF DispatchInv

-----------------------------------------------------------------------------
(* The setting of the theorems: GitHub, whose mutations carry no           *)
(* idempotency key, as long as every answer it sends is readable.          *)
GitHubReadable == Provider = "github" /\ ContractErrors = FALSE

(* No adapter reports the not-sent record of the runtime.                  *)
LEMMA ReadIsNews ==
    /\ \A a, prior, force : Read(a, prior, force).fact # "not_sent"
    /\ Failure.fact # "not_sent" /\ Answer.fact # "not_sent"
    /\ \A fact \in {"transport"} \union ObservationFailures : Plain(fact).fact # "not_sent"
BY DEF Read, Failure, Answer, Plain, Report, GitHubSnapshot, ReferenceRead, ObservationFailures

(* Every step of a caller preserves the invariant.                         *)
LEMMA DispatchStep ==
    ASSUME GitHubReadable, TypeInv, TypeInv', DispatchInv, NEW c \in Callers, Step(c)
    PROVE  DispatchInv'
<1>. DEFINE a == job[c].action
<1>0. /\ JobsOK /\ StoreOK
      /\ job[c] \in Jobs /\ job'[c] \in Jobs
      /\ Caller(job[c])
      /\ ~At(c, "idle") => a \in Actions /\ Row(a) /\ row[a] \in Rows
      /\ ~Idempotent
      /\ HasNotSent(<<>>) = FALSE
  BY DEF TypeInv, JobsOK, StoreOK, DispatchInv, At, Idempotent, GitHubReadable, HasNotSent
<1>1. CASE RecordIntent(c)
  <2>1. Frame
    BY <1>0, <1>1, LifecycleFrame DEF RecordIntent, At, Planned, world
  <2>2. job'[c].pc = "initialize" /\ job'[c].op = job[c].op /\ job'[c].action = a
        /\ \A d \in Callers : d # c => job'[d] = job[d]
    BY <1>1, GotoFields DEF RecordIntent, PCs
  <2>3. lifecycle'[a] # "absent"
    BY <1>0, <1>1 DEF RecordIntent, At, StoreOK
  <2>4. Caller(job[c])' /\ job'[c].pc \notin Owning
    BY <1>0, <1>1, <2>2, <2>3 DEF RecordIntent, At, Caller, Owning, Sending, Before, Carriers
  <2>5. QED
    BY <2>1, <2>2, <2>4, QuietCaller
<1>2. CASE Initialize(c)
  <2>1. Frame
    <3>. DEFINE r == [row[a] EXCEPT !.status = IF @ = "absent" THEN "not_started" ELSE @]
    <3>1. /\ r.attempts = row[a].attempts /\ r.token = row[a].token
          /\ \/ r.status = row[a].status
             \/ row[a].status = "absent" /\ r.status = "not_started"
      BY <1>0, <1>2 DEF Initialize, At, Rows
    <3>2. row' = [row EXCEPT ![a] = r]
      BY <1>2 DEF Initialize
    <3>. HIDE DEF r
    <3>3. QED
      BY <1>0, <1>2, <3>1, <3>2, RowFrame DEF Initialize, At, world
  <2>2. job'[c].pc = "plan" /\ job'[c].op = job[c].op /\ job'[c].action = a
        /\ \A d \in Callers : d # c => job'[d] = job[d]
    BY <1>2, GotoFields DEF Initialize, PCs
  <2>3. Caller(job[c])' /\ job'[c].pc \notin Owning
    BY <1>0, <1>2, <2>2 DEF Initialize, At, Caller, Owning, Sending, Before, Carriers
  <2>4. QED
    BY <2>1, <2>2, <2>3, QuietCaller
<1>3. CASE EnsureDispatchPlan(c)
  <2>1. Frame
    BY <1>0, <1>3, LifecycleFrame DEF EnsureDispatchPlan, At, Planned, world
  <2>2. job'[c].pc = "route" /\ job'[c].op = job[c].op /\ job'[c].action = a
        /\ \A d \in Callers : d # c => job'[d] = job[d]
    BY <1>3, GotoFields DEF EnsureDispatchPlan, PCs
  <2>3. lifecycle[a] # "absent" /\ lifecycle'[a] # "intent_recorded" /\ lifecycle'[a] # "absent"
    BY <1>0, <1>3 DEF EnsureDispatchPlan, At, StoreOK, Caller
  <2>4. Caller(job[c])' /\ job'[c].pc \notin Owning
    BY <1>0, <1>3, <2>2, <2>3
       DEF EnsureDispatchPlan, At, Caller, Owning, Sending, Before, Carriers, Planned
  <2>5. QED
    BY <2>1, <2>2, <2>4, QuietCaller
<1>4. CASE Route(c)
  <2>1. Frame
    BY <1>4, StillFrame DEF Route, store, world
  <2>2. CASE \E pc \in {"source", "claim"} : Goto(c, pc)
    <3>1. job'[c].pc \in {"source", "claim"} /\ job'[c].op = job[c].op /\ job'[c].action = a
          /\ \A d \in Callers : d # c => job'[d] = job[d]
      BY <2>2, GotoFields DEF PCs
    <3>2. lifecycle'[a] \notin {"absent", "intent_recorded"} /\ job[c].op # "retry"
      BY <1>0, <1>4 DEF Route, At, Caller, Planned, store
    <3>3. Caller(job[c])' /\ job'[c].pc \notin Owning
      BY <3>1, <3>2 DEF Planned, Caller, Owning, Sending, Before, Carriers
    <3>4. QED
      BY <2>1, <3>1, <3>3, QuietCaller
  <2>3. CASE \E pc \in {"await", "steal"}, n \in Nat :
               Become(c, [job[c] EXCEPT !.pc = pc, !.attempt = n])
    <3>1. PICK pc \in {"await", "steal"}, n \in Nat :
               Become(c, [job[c] EXCEPT !.pc = pc, !.attempt = n])
      BY <2>3
    <3>2. [job[c] EXCEPT !.pc = pc, !.attempt = n].pc = pc
      BY <1>0 DEF Jobs
    <3>3. QED
      BY <2>1, <3>1, <3>2, BecomeFields, QuietCalm DEF Calm
  <2>4. CASE Reconcile(c)
    BY <1>4, <2>1, <2>4, ReconcileFields, QuietCalm DEF Route, At
  <2>5. row[a].token \in Nat /\ owner[HostOf[c]][a] \in Nat
    BY <1>0, <1>4, HostAssumption DEF Route, At, StoreOK, Rows
  <2>6. QED
    BY <1>4, <2>2, <2>3, <2>4, <2>5 DEF Route
<1>5. CASE CheckSource(c)
  <2>1. Frame
    BY <1>5, StillFrame DEF CheckSource, store, world
  <2>2. CASE Return(c)
    BY <2>1, <2>2, ReturnFields, QuietCalm
  <2>3. CASE ~Return(c)
    <3>1. PICK j : /\ Become(c, j)
                   /\ j = [job[c] EXCEPT !.pc = "claim", !.sequence = saved[Source[a]].sequence,
                                         !.evidence = saved[Source[a]].evidence]
      BY <1>5, <2>3 DEF CheckSource
    <3>2. j.pc = "claim" /\ j.op = job[c].op /\ j.action = a
      BY <1>0, <3>1 DEF Jobs
    <3>3. lifecycle'[a] \notin {"absent", "intent_recorded"} /\ job[c].op # "retry"
      BY <1>0, <1>5 DEF CheckSource, At, Caller, Planned, store
    <3>4. job'[c] = j /\ \A d \in Callers : d # c => job'[d] = job[d]
      BY <3>1, BecomeFields
    <3>5. Caller(job[c])' /\ job'[c].pc \notin Owning
      BY <3>2, <3>3, <3>4 DEF Planned, Caller, Owning, Sending, Before, Carriers
    <3>6. QED
      BY <2>1, <3>4, <3>5, QuietCaller
  <2>4. QED
    BY <2>2, <2>3
<1>6. CASE ClaimDispatch(c)
  <2>1. CASE ~Claimable(c)
    <3>1. Frame
      BY <1>6, <2>1, StillFrame DEF ClaimDispatch, world
    <3>2. CASE Become(c, AfterLostClaim(c))
      BY <1>6, <3>1, <3>2, ReturnFields, ReconcileFields, QuietCalm
         DEF ClaimDispatch, At, AfterLostClaim, Return, Reconcile
    <3>3. CASE \E n : Become(c, [job[c] EXCEPT !.pc = "await", !.attempt = n])
      <4>1. PICK n : Become(c, [job[c] EXCEPT !.pc = "await", !.attempt = n])
        BY <3>3
      <4>2. [job[c] EXCEPT !.pc = "await", !.attempt = n].pc = "await"
        BY <1>0 DEF Jobs
      <4>3. QED
        BY <3>1, <4>1, <4>2, BecomeFields, QuietCalm DEF Calm
    <3>4. QED
      BY <1>6, <2>1, <3>2, <3>3 DEF ClaimDispatch
  <2>2. CASE Claimable(c)
    <3>. DEFINE n == row[a].attempts + 1
    <3>1. /\ a \in Actions /\ Row(a) /\ row[a].attempts \in Nat
          /\ row[a].status \in {"not_started", "definitely_not_sent", "attempted"}
          /\ Planned(a)
          /\ Sent(a) = {}
          /\ row[a].attempts = 0 \/ row[a].status = "definitely_not_sent"
      <4>1. a \in Actions /\ Row(a) /\ row[a].attempts \in 0..AttemptBudget /\ row[a].attempts < 2
        BY <1>0, <1>6, <2>2 DEF ClaimDispatch, At, Claimable, AttemptBudget, Rows
      <4>2. CASE job[c].op = "retry"
        <5>1. FirstUnsent(a) /\ row[a].attempts = 1
          BY <1>0, <1>6, <4>1, <4>2 DEF ClaimDispatch, At, Caller, FirstUnsent, AttemptBudget
        <5>2. QED
          BY <4>1, <5>1 DEF FirstUnsent, Row, AttemptBudget
      <4>3. CASE job[c].op # "retry"
        BY <1>0, <1>6, <2>2, <4>1, <4>3
           DEF ClaimDispatch, At, Caller, Claimable, Allowed, Row, AttemptBudget
      <4>4. QED
        BY <4>2, <4>3
    <3>2. /\ row' = [row EXCEPT ![a] =
                       [@ EXCEPT !.status = "claimed", !.attempts = n, !.token = n]]
          /\ UNCHANGED <<lifecycle, ledger, request>>
      BY <1>6, <2>2 DEF ClaimDispatch, world
    <3>3. /\ row'[a].status = "claimed" /\ row'[a].attempts = n /\ row'[a].token = n
          /\ \A b \in Actions : b # a => row'[b] = row[b]
      BY <1>0, <3>1, <3>2, <1>6 DEF StoreOK, Rows, At, ClaimDispatch
    <3>4. \A b : Sent(b)' = Sent(b)
      BY <3>2, SentKept
    <3>5. \A b \in Actions : FirstUnsent(b) => FirstUnsent(b)'
      BY <3>1, <3>3 DEF FirstUnsent
    <3>6. PICK j : /\ Become(c, j)
                   /\ j = [Idle EXCEPT !.pc = "register", !.op = job[c].op, !.action = a,
                                       !.attempt = n]
      BY <1>6, <2>2 DEF ClaimDispatch
    <3>7. j.pc = "register" /\ j.action = a /\ j.attempt = n
      BY <3>6, IdleType DEF Jobs
    <3>8. job'[c] = j /\ \A d \in Callers : d # c => job'[d] = job[d]
      BY <3>6, BecomeFields
    <3>9. ASSUME NEW b \in Actions
          PROVE  Row(b)'
      <4>1. CASE b = a
        BY <3>1, <3>2, <3>3, <3>4, <3>5, <4>1 DEF Row, Planned
      <4>2. CASE b # a
        BY <3>2, <3>3, <3>4, <3>5, <4>2 DEF Row, Planned, DispatchInv
      <4>3. QED
        BY <4>1, <4>2
    <3>10. Caller(job[c])'
      <4>1. job'[c].attempt \notin Sent(job[c].action)'
        BY <3>1, <3>2, <3>7, <3>8 DEF Sent
      <4>2. QED
        BY <3>1, <3>3, <3>7, <3>8, <4>1 DEF Caller, Owning, Sending, Before, Carriers
    <3>11. ASSUME NEW d \in Callers, d # c
           PROVE  Caller(job[d])' /\ (job[d].pc \in Owning /\ job[d].action = a => job[d].attempt < n)
      <4>1. PICK k : k = job[d]
        OBVIOUS
      <4>2. k \in Jobs /\ Caller(k) /\ (k.pc # "idle" => k.action \in Actions)
        BY <4>1 DEF DispatchInv, TypeInv, JobsOK
      <4>3. k.pc \in Owning /\ k.action = a => k.attempt < n
        BY <3>1, <4>2 DEF Caller, Jobs, AttemptBudget
      <4>4. Caller(k)'
        <5>1. CASE k.pc = "idle"
          BY <5>1 DEF Caller, Owning, Sending, Before, Carriers
        <5>2. CASE k.pc # "idle" /\ k.action # a
          BY <3>2, <3>3, <3>4, <3>5, <4>2, <5>2 DEF Caller, Planned
        <5>3. CASE k.pc # "idle" /\ k.action = a
          <6>1. k.pc \notin Sending
            BY <3>1, <4>2, <5>3 DEF Caller, Row, Owning, Sending, AttemptBudget
          <6>2. k.pc \in Owning => 1 <= k.attempt /\ k.attempt <= row'[k.action].attempts
            BY <3>1, <3>3, <4>2, <4>3, <5>3 DEF Caller, Jobs, AttemptBudget
          <6>3. QED
            BY <3>2, <3>4, <3>5, <4>2, <5>3, <6>1, <6>2
               DEF Caller, Planned, Owning, Sending, Before
        <5>4. QED
          BY <5>1, <5>2, <5>3
      <4>5. QED
        BY <3>8, <3>11, <4>1, <4>3, <4>4 DEF Caller
    <3>12. DistinctClaims'
      <4>1. ASSUME NEW d \in Callers, d # c, job'[d].pc \in Owning, job'[d].action = a
            PROVE  job'[d].attempt # n
        <5>1. job[d].attempt \in Nat /\ job[d].attempt < n
          BY <3>8, <3>11, <4>1 DEF TypeInv, JobsOK, Jobs, AttemptBudget
        <5>2. QED
          BY <3>1, <3>8, <4>1, <5>1
      <4>. HIDE DEF n
      <4>2. QED
        BY <3>7, <3>8, <4>1 DEF DispatchInv, DistinctClaims
    <3>13. QED
      BY <3>9, <3>10, <3>11, <3>12 DEF DispatchInv
  <2>3. QED
    BY <2>1, <2>2
<1>7. CASE Register(c)
  <2>1. Frame
    BY <1>7, StillFrame DEF Register, store, world
  <2>2. job'[c].pc = "boundary" /\ job'[c].action = a /\ job'[c].attempt = job[c].attempt
        /\ \A d \in Callers : d # c => job'[d] = job[d]
    BY <1>7, GotoFields DEF Register, PCs
  <2>3. Caller(job[c])' /\ job[c].pc \in Owning
    BY <1>0, <1>7, <2>1, <2>2, SentKept
       DEF Register, At, Caller, Owning, Sending, Before, Carriers, Frame
  <2>4. QED
    BY <2>1, <2>2, <2>3, QuietCaller
<1>8. CASE CrossBoundary(c)
  <2>1. CASE ~HoldsClaim(a, job[c].attempt)
    <3>1. Frame
      BY <1>8, <2>1, StillFrame DEF CrossBoundary, world
    <3>2. QED
      BY <1>8, <2>1, <3>1, GotoFields, QuietCalm DEF CrossBoundary, PCs, Calm
  <2>2. CASE HoldsClaim(a, job[c].attempt)
    <3>1. /\ a \in Actions /\ Row(a) /\ row[a].attempts \in Nat /\ row[a].attempts > 0
          /\ row[a].status = "claimed" /\ row[a].attempts = job[c].attempt
          /\ Sent(a) = {}
      BY <1>0, <1>8, <2>2
         DEF CrossBoundary, At, HoldsClaim, Row, Rows, AttemptBudget, Caller, Owning
    <3>2. FinishDispatch(a, "attempted") /\ UNCHANGED <<lifecycle, ledger, request>>
      BY <1>8, <2>2 DEF CrossBoundary, world
    <3>3. /\ row'[a].status = "attempted" /\ row'[a].attempts = row[a].attempts
          /\ \A b \in Actions : b # a => row'[b] = row[b]
      BY <1>0, <3>1, <3>2 DEF FinishDispatch, StoreOK, Rows
    <3>4. /\ job'[c].pc = "dispatching" /\ job'[c].action = a
          /\ job'[c].attempt = job[c].attempt /\ job[c].pc \in Owning
          /\ \A d \in Callers : d # c => job'[d] = job[d]
      BY <1>8, <2>2, GotoFields DEF CrossBoundary, PCs, At, Owning
    <3>5. \A d \in Callers : d # c /\ job[d].action = a => job[d].pc \notin Sending
      BY <3>1 DEF DispatchInv, Caller
    <3>6. job'[c].attempt \notin Sent(job[c].action)'
      BY <3>1, <3>2, <3>4 DEF Sent
    <3>7. Caller(job[c])'
      BY <3>1, <3>3, <3>4, <3>6 DEF Caller, Owning, Sending, Before, Carriers
    <3>8. QED
      BY <3>1, <3>2, <3>3, <3>4, <3>5, <3>7, StatusChange
  <2>3. QED
    BY <2>1, <2>2
<1>9. CASE EnterDispatching(c)
  <2>1. Frame
    BY <1>0, <1>9, LifecycleFrame DEF EnterDispatching, At, Planned, world
  <2>2. job'[c].pc = "send" /\ job'[c].action = a /\ job'[c].attempt = job[c].attempt
        /\ \A d \in Callers : d # c => job'[d] = job[d]
    BY <1>9, GotoFields DEF EnterDispatching, PCs
  <2>3. UNCHANGED row
    BY <1>9 DEF EnterDispatching
  <2>4. Caller(job[c])' /\ job[c].pc \in Owning
    BY <1>0, <1>9, <2>1, <2>2, <2>3, SentKept
       DEF EnterDispatching, At, Caller, Owning, Sending, Before, Carriers, Frame
  <2>5. QED
    BY <2>1, <2>2, <2>4, QuietCaller
<1>10. CASE SendNothingToDo(c)
  <2>1. Frame
    BY <1>10, StillFrame DEF SendNothingToDo, store, world
  <2>2. PICK e, unsent : Reported(c, e, unsent) /\ e.fact # "not_sent" /\ unsent = FALSE
    BY <1>10, ReadIsNews DEF SendNothingToDo
  <2>3. /\ job'[c].pc = "report" /\ job'[c].action = a /\ job'[c].attempt = job[c].attempt
        /\ job'[c].unsent = unsent /\ job'[c].report = e
        /\ \A d \in Callers : d # c => job'[d] = job[d]
    BY <2>2, ReportFields
  <2>4. UNCHANGED row
    BY <1>10 DEF SendNothingToDo, store
  <2>5. Caller(job[c])' /\ job[c].pc \in Owning
    BY <1>0, <1>10, <2>1, <2>2, <2>3, <2>4, SentKept
       DEF SendNothingToDo, At, Caller, Owning, Sending, Before, Carriers, Frame
  <2>6. QED
    BY <2>1, <2>3, <2>5, QuietCaller
<1>10a. CASE Revalidate(c)
  <2>1. Frame
    BY <1>10a, StillFrame DEF Revalidate, store, world
  <2>2. job'[c].pc = "write" /\ job'[c].action = a /\ job'[c].attempt = job[c].attempt
        /\ \A d \in Callers : d # c => job'[d] = job[d]
    BY <1>10a, GotoFields DEF Revalidate, PCs
  <2>3. UNCHANGED row
    BY <1>10a DEF Revalidate, store
  <2>4. Caller(job[c])' /\ job[c].pc \in Owning
    BY <1>0, <1>10a, <2>1, <2>2, <2>3, SentKept
       DEF Revalidate, At, Caller, Owning, Sending, Before, Carriers, Frame
  <2>5. QED
    BY <2>1, <2>2, <2>4, QuietCaller
<1>11. CASE SendStopped(c)
  <2>1. Frame
    BY <1>11, StillFrame DEF SendStopped, store, world
  <2>2. PICK e, unsent : Reported(c, e, unsent) /\ e.fact # "not_sent"
    BY <1>11, ReadIsNews DEF SendStopped
  <2>3. /\ job'[c].pc = "report" /\ job'[c].action = a /\ job'[c].attempt = job[c].attempt
        /\ job'[c].unsent = unsent /\ job'[c].report = e
        /\ \A d \in Callers : d # c => job'[d] = job[d]
    BY <2>2, ReportFields
  <2>4. UNCHANGED row
    BY <1>11 DEF SendStopped, store
  <2>5. Caller(job[c])' /\ job[c].pc \in Owning
    BY <1>0, <1>11, <2>1, <2>2, <2>3, <2>4, SentKept
       DEF SendStopped, At, Caller, Owning, Sending, Before, Carriers, Frame
  <2>6. QED
    BY <2>1, <2>3, <2>5, QuietCaller
<1>12. CASE Send(c)
  <2>. DEFINE n == job[c].attempt
  <2>1. /\ a \in Actions /\ Row(a) /\ n \in Attempts
        /\ row[a].status = "attempted" /\ n = row[a].attempts /\ row[a].attempts > 0
    BY <1>0, <1>12
       DEF Send, At, Caller, Owning, Sending, Jobs, Attempts, AttemptBudget, Rows
  <2>2. /\ request' = [request EXCEPT ![a][n] = "flying"]
        /\ UNCHANGED <<lifecycle, ledger, row>>
    BY <1>12 DEF Send, store
  <2>3. /\ job'[c].pc = "inflight" /\ job'[c].action = a /\ job'[c].attempt = n
        /\ \A d \in Callers : d # c => job'[d] = job[d]
    BY <1>12, GotoFields DEF Send, PCs
  <2>4. request \in [Actions -> [Attempts -> {"none", "flying", "landed", "dropped"}]]
    BY DEF TypeInv, WorldOK
  <2>5. ASSUME NEW b \in Actions, NEW m \in Sent(b)'
        PROVE  m \in Sent(b) \/ (b = a /\ m = n)
    BY <2>1, <2>2, <2>4, <2>5 DEF Sent
  <2>6. ASSUME NEW b \in Actions
        PROVE  Row(b)'
    <3>1. Row(b)
      BY DEF DispatchInv
    <3>2. QED
      BY <2>1, <2>2, <2>5, <3>1 DEF Row, FirstUnsent, Planned
  <2>7. Caller(job[c])'
    BY <2>1, <2>2, <2>3 DEF Caller, Owning, Sending, Before, Carriers, Attempts
  <2>8. ASSUME NEW d \in Callers, d # c
        PROVE  Caller(job[d])'
    <3>1. PICK j : j = job[d]
      OBVIOUS
    <3>2. j \in Jobs /\ Caller(j) /\ (j.pc # "idle" => j.action \in Actions)
      BY <3>1 DEF DispatchInv, TypeInv, JobsOK
    <3>3. j.pc \in Owning /\ j.action = a => j.attempt # n
      BY <1>12, <2>8, <3>1 DEF Send, At, DispatchInv, DistinctClaims, Owning, Sending
    <3>4. CASE j.pc = "idle"
      BY <2>3, <2>8, <3>1, <3>4 DEF Caller, Owning, Sending, Before, Carriers
    <3>5. CASE j.pc # "idle"
      <4>1. j.pc \in Before \union {"report", "unsend"} /\ j.attempt \notin Sent(j.action)
              => j.attempt \notin Sent(j.action)'
        BY <2>3, <2>5, <2>8, <3>1, <3>2, <3>3, <3>5 DEF Before, Owning, Sending
      <4>2. Caller(j)'
        BY <2>2, <3>2, <3>5, <4>1 DEF Caller, FirstUnsent, Planned, Before
      <4>3. QED
        BY <2>3, <2>8, <3>1, <4>2 DEF Caller
    <3>6. QED
      BY <3>4, <3>5
  <2>9. DistinctClaims'
    BY <1>12, <2>3 DEF Send, At, DispatchInv, DistinctClaims, Owning, Sending
  <2>10. QED
    BY <2>6, <2>7, <2>8, <2>9 DEF DispatchInv
<1>13. CASE Respond(c)
  <2>1. Frame
    BY <1>13, StillFrame DEF Respond, store, world
  <2>2. PICK e, unsent : Reported(c, e, unsent) /\ e.fact # "not_sent" /\ unsent = FALSE
    BY <1>13, ReadIsNews DEF Respond
  <2>3. /\ job'[c].pc = "report" /\ job'[c].action = a /\ job'[c].attempt = job[c].attempt
        /\ job'[c].unsent = unsent /\ job'[c].report = e
        /\ \A d \in Callers : d # c => job'[d] = job[d]
    BY <2>2, ReportFields
  <2>4. UNCHANGED row
    BY <1>13 DEF Respond, store
  <2>5. Caller(job[c])' /\ job[c].pc \in Owning
    BY <1>0, <1>13, <2>1, <2>2, <2>3, <2>4, SentKept
       DEF Respond, At, Caller, Owning, Sending, Before, Carriers, Frame
  <2>6. QED
    BY <2>1, <2>3, <2>5, QuietCaller
<1>14. CASE SendTimesOut(c)
  <2>1. Frame
    BY <1>14, StillFrame DEF SendTimesOut, store, world
  <2>2. PICK e, unsent : Reported(c, e, unsent) /\ e.fact # "not_sent" /\ unsent = FALSE
    BY <1>14, ReadIsNews DEF SendTimesOut
  <2>3. /\ job'[c].pc = "report" /\ job'[c].action = a /\ job'[c].attempt = job[c].attempt
        /\ job'[c].unsent = unsent /\ job'[c].report = e
        /\ \A d \in Callers : d # c => job'[d] = job[d]
    BY <2>2, ReportFields
  <2>4. UNCHANGED row
    BY <1>14 DEF SendTimesOut, store
  <2>5. Caller(job[c])' /\ job[c].pc \in Owning
    BY <1>0, <1>14, <2>1, <2>2, <2>3, <2>4, SentKept
       DEF SendTimesOut, At, Caller, Owning, Sending, Before, Carriers, Frame
  <2>6. QED
    BY <2>1, <2>3, <2>5, QuietCaller
<1>15. CASE AnswerUnreadable(c)
  <2>1. QED
    BY <1>15 DEF AnswerUnreadable, GitHubReadable
<1>16. CASE AppendReport(c)
  <2>1. Frame
    <3>1. job[c].report \in Entry /\ job[c].report.fact # "not_sent"
      BY <1>0, <1>16 DEF AppendReport, At, JobsOK, Caller, Carriers
    <3>2. QED
      BY <1>0, <1>16, <3>1, AppendFrame DEF AppendReport, At, world
  <2>2. PICK j : /\ Become(c, j)
                 /\ j = [job[c] EXCEPT !.pc = IF job[c].unsent THEN "unsend" ELSE "settle",
                                       !.report = NoReport]
    BY <1>16 DEF AppendReport
  <2>3. /\ j.pc = IF job[c].unsent THEN "unsend" ELSE "settle"
        /\ j.action = a /\ j.attempt = job[c].attempt /\ j.unsent = job[c].unsent
    BY <1>0, <2>2 DEF Jobs
  <2>4. job'[c] = j /\ \A d \in Callers : d # c => job'[d] = job[d]
    BY <2>2, BecomeFields
  <2>5. UNCHANGED row
    BY <1>16 DEF AppendReport
  <2>6. Caller(job[c])' /\ job[c].pc \in Owning
    BY <1>0, <1>16, <2>1, <2>3, <2>4, <2>5, SentKept
       DEF AppendReport, At, Caller, Owning, Sending, Before, Carriers, Frame
  <2>7. QED
    BY <2>1, <2>3, <2>4, <2>6, QuietCaller
<1>17. CASE SetNotSent(c)
  <2>1. /\ a \in Actions /\ Row(a) /\ row[a].attempts \in Nat /\ row[a].attempts > 0
        /\ row[a].status = "attempted" /\ row[a].attempts = job[c].attempt
        /\ Sent(a) = {}
    BY <1>0, <1>17 DEF SetNotSent, At, Row, Rows, AttemptBudget, Caller, Owning, Sending
  <2>2. /\ row' = [row EXCEPT ![a].status = "definitely_not_sent"]
        /\ UNCHANGED <<lifecycle, ledger, request>> /\ Goto(c, "unsent")
    BY <1>17, <2>1 DEF SetNotSent, world
  <2>3. /\ row'[a].status = "definitely_not_sent" /\ row'[a].attempts = row[a].attempts
        /\ \A b \in Actions : b # a => row'[b] = row[b]
    BY <1>0, <2>1, <2>2 DEF StoreOK, Rows
  <2>4. /\ job'[c].pc = "unsent" /\ job'[c].action = a
        /\ \A d \in Callers : d # c => job'[d] = job[d]
    BY <2>2, GotoFields DEF PCs
  <2>5. \A d \in Callers : d # c /\ job[d].action = a => job[d].pc \notin Sending
    BY <1>17, <2>1 DEF SetNotSent, At, DispatchInv, Caller, DistinctClaims, Owning, Sending
  <2>6. FirstUnsent(job[c].action)' /\ job'[c].pc \notin Owning
    BY <2>1, <2>3, <2>4 DEF FirstUnsent, Owning, Sending
  <2>7. Caller(job[c])'
    BY <2>4, <2>6 DEF Caller, Owning, Sending, Before, Carriers
  <2>8. QED
    BY <2>1, <2>2, <2>3, <2>4, <2>5, <2>6, <2>7, StatusChange
<1>18. CASE RecordNotSent(c)
  <2>1. Plain("not_sent") \in Entry /\ FirstUnsent(a) /\ a \in Actions
    BY <1>0, <1>18, PlainType DEF RecordNotSent, At, Facts, Caller
  <2>2. Frame
    BY <1>18, <2>1, AppendFrame DEF RecordNotSent, world
  <2>3. QED
    BY <1>18, <2>2, GotoFields, ReconcileFields, QuietCalm DEF Calm, RecordNotSent, At, PCs
<1>19. CASE RecordCaught(c)
  <2>1. Plain("transport") \in Entry /\ Plain("transport").fact # "not_sent" /\ a \in Actions
    BY <1>0, <1>19, PlainType DEF RecordCaught, At, Facts, Plain, Report
  <2>2. Frame
    BY <1>19, <2>1, AppendFrame DEF RecordCaught, world
  <2>3. QED
    BY <1>19, <2>2, GotoFields, QuietCalm DEF Calm, RecordCaught, PCs
<1>20. CASE Normalize(c)
  <2>1. Frame
    <3>1. CASE UNCHANGED lifecycle
      BY <1>20, <3>1, StillFrame DEF Normalize, world
    <3>2. CASE lifecycle[a] \in {"prepared", "dispatching"}
      BY <1>0, <1>20, <3>2, LifecycleFrame DEF Normalize, At, Planned, world
    <3>3. QED
      BY <1>20, <3>1, <3>2 DEF Normalize
  <2>2. CASE UNCHANGED job
    BY <2>1, <2>2, Quiet
  <2>3. CASE \E pc \in {"settled", "list"} : Goto(c, pc)
    BY <2>1, <2>3, GotoFields, QuietCalm DEF Calm, PCs
  <2>4. QED
    BY <1>20, <2>2, <2>3 DEF Normalize
<1>21. CASE Release(c)
  <2>1. Frame
    BY <1>21, StillFrame DEF Release, store, world
  <2>2. ASSUME NEW d \in Callers
        PROVE  \/ job'[d] = job[d] \/ job'[d] = Idle
               \/ \E b \in Actions : job'[d] = Reconciling(b)
    BY <1>0, <1>21 DEF Release, At, Awaiting, AfterLostClaim, JobsOK
  <2>3. \A d \in Callers : job'[d] = job[d] \/ job'[d].pc \in Calm
    BY <2>2, IdleType, ReconcilingType DEF Calm
  <2>4. QED
    BY <2>1, <2>3, Quiet
<1>22. CASE StealClaim(c)
  <2>1. CASE ~HoldsClaim(a, job[c].attempt)
    <3>1. Frame
      BY <1>22, <2>1, StillFrame DEF StealClaim, world
    <3>2. QED
      BY <1>22, <2>1, <3>1, ReturnFields, QuietCalm DEF StealClaim
  <2>2. CASE HoldsClaim(a, job[c].attempt)
    <3>1. /\ a \in Actions /\ Row(a) /\ row[a].attempts \in Nat /\ row[a].attempts > 0
          /\ row[a].status = "claimed" /\ Sent(a) = {}
      BY <1>0, <1>22, <2>2 DEF StealClaim, At, HoldsClaim, Row, Rows, AttemptBudget
    <3>2. FinishDispatch(a, "definitely_not_sent") /\ UNCHANGED <<lifecycle, ledger, request>>
      BY <1>22, <2>2 DEF StealClaim, world
    <3>3. /\ row'[a].status = "definitely_not_sent" /\ row'[a].attempts = row[a].attempts
          /\ \A b \in Actions : b # a => row'[b] = row[b]
      BY <1>0, <3>1, <3>2 DEF FinishDispatch, StoreOK, Rows
    <3>4. /\ job'[c].pc = "stolen" /\ job'[c].action = a
          /\ \A d \in Callers : d # c => job'[d] = job[d]
      BY <1>22, <2>2, GotoFields DEF StealClaim, PCs
    <3>5. \A d \in Callers : d # c /\ job[d].action = a => job[d].pc \notin Sending
      BY <3>1 DEF DispatchInv, Caller
    <3>6. FirstUnsent(job[c].action)' /\ job'[c].pc \notin Owning
      BY <3>1, <3>3, <3>4 DEF FirstUnsent, Owning, Sending
    <3>7. Caller(job[c])'
      BY <3>4, <3>6 DEF Caller, Owning, Sending, Before, Carriers
    <3>8. QED
      BY <3>1, <3>2, <3>3, <3>4, <3>5, <3>6, <3>7, StatusChange
  <2>3. QED
    BY <2>1, <2>2
<1>23. CASE ListEvidence(c)
  <2>1. Frame
    BY <1>23, StillFrame DEF ListEvidence, store, world
  <2>2. PICK j : Become(c, j) /\ j = [job[c] EXCEPT
                   !.pc = IF @ = "list" THEN "observe" ELSE "reobserve", !.prior = Len(ledger[a])]
    BY <1>23 DEF ListEvidence
  <2>3. j.pc \in {"observe", "reobserve"}
    BY <1>0, <2>2 DEF Jobs
  <2>4. QED
    BY <2>1, <2>2, <2>3, BecomeFields, QuietCalm DEF Calm
<1>24. CASE Observe(c)
  <2>1. Frame
    BY <1>24, StillFrame DEF Observe, store, world
  <2>2. PICK e : e = Read(a, Prior(c), ProvenNotSent(Prior(c)))
    OBVIOUS
  <2>3. PICK j : j = [job[c] EXCEPT !.pc = IF @ = "observe" THEN "append" ELSE "reappend",
                                    !.report = e]
    OBVIOUS
  <2>4. /\ j.pc \in {"append", "reappend"} /\ j.report = e /\ e.fact # "not_sent"
    BY <1>0, <2>2, <2>3, ReadIsNews DEF Jobs
  <2>5. job'[c] = j /\ \A d \in Callers : d # c => job'[d] = job[d]
    <3>1. Become(c, j)
      BY <1>24, <2>2, <2>3 DEF Observe
    <3>2. QED
      BY <3>1, BecomeFields
  <2>6. Caller(job[c])' /\ job'[c].pc \notin Owning
    BY <2>4, <2>5 DEF Caller, Owning, Sending, Before, Carriers
  <2>7. QED
    BY <2>1, <2>5, <2>6, QuietCaller
<1>25. CASE ObserveFails(c)
  <2>1. Frame
    BY <1>25, StillFrame DEF ObserveFails, store, world
  <2>2. CASE Return(c)
    BY <2>1, <2>2, ReturnFields, QuietCalm
  <2>3. CASE ~Return(c)
    <3>1. PICK j, e : /\ Become(c, j) /\ e.fact # "not_sent"
                      /\ j = [job[c] EXCEPT !.pc = IF @ = "observe" THEN "append" ELSE "reappend",
                                            !.report = e]
      BY <1>25, <2>3, ReadIsNews DEF ObserveFails
    <3>2. j.pc \in {"append", "reappend"} /\ j.report = e
      BY <1>0, <3>1 DEF Jobs
    <3>3. job'[c] = j /\ \A d \in Callers : d # c => job'[d] = job[d]
      BY <3>1, BecomeFields
    <3>4. Caller(job[c])' /\ job'[c].pc \notin Owning
      BY <3>1, <3>2, <3>3 DEF Caller, Owning, Sending, Before, Carriers
    <3>5. QED
      BY <2>1, <3>3, <3>4, QuietCaller
  <2>4. QED
    BY <2>2, <2>3
<1>26. CASE AppendObservation(c)
  <2>1. Frame
    <3>1. job[c].report \in Entry /\ job[c].report.fact # "not_sent"
      BY <1>0, <1>26 DEF AppendObservation, At, JobsOK, Caller, Carriers
    <3>2. QED
      BY <1>0, <1>26, <3>1, AppendFrame DEF AppendObservation, At, world
  <2>2. PICK j : Become(c, j) /\ j = [job[c] EXCEPT
                   !.pc = IF @ = "append" THEN "derive" ELSE "recheck", !.prior = 0]
    BY <1>26 DEF AppendObservation
  <2>3. j.pc \in {"derive", "recheck"}
    BY <1>0, <2>2 DEF Jobs
  <2>4. QED
    BY <2>1, <2>2, <2>3, BecomeFields, QuietCalm DEF Calm
<1>27. CASE Derive(c)
  <2>1. Frame
    BY <1>27, StillFrame DEF Derive, store, world
  <2>2. PICK j : Become(c, j) /\ j = [job[c] EXCEPT
                   !.pc = "floor", !.outcome = Outcome(ledger[a]),
                   !.evidence = Len(ledger[a]), !.report = NoReport]
    BY <1>27 DEF Derive
  <2>3. j.pc \in {"floor"}
    BY <1>0, <2>2 DEF Jobs
  <2>4. QED
    BY <2>1, <2>2, <2>3, BecomeFields, QuietCalm DEF Calm
<1>28. CASE FloorBoundary(c)
  <2>1. Frame
    BY <1>28, StillFrame DEF FloorBoundary, store, world
  <2>2. PICK j : Become(c, j) /\ j = [job[c] EXCEPT
                   !.pc = "sequence",
                   !.outcome.decision = ApplyDispatchBoundaryFloor(@, row[a].status, Idempotent,
                                                                   row[a].attempts)]
    BY <1>28 DEF FloorBoundary
  <2>3. j.pc \in {"sequence"}
    BY <1>0, <2>2 DEF Jobs
  <2>4. QED
    BY <2>1, <2>2, <2>3, BecomeFields, QuietCalm DEF Calm
<1>29. CASE NextResolutionSequence(c)
  <2>1. Frame
    <3>1. PICK r : row' = [row EXCEPT ![a] = r] /\ r = [row[a] EXCEPT !.sequence = @ + 1]
      BY <1>29 DEF NextResolutionSequence
    <3>2. r.attempts = row[a].attempts /\ r.token = row[a].token /\ r.status = row[a].status
      BY <1>0, <1>29, <3>1 DEF NextResolutionSequence, At, Rows
    <3>3. QED
      BY <1>0, <1>29, <3>1, <3>2, RowFrame DEF NextResolutionSequence, At, world
  <2>2. PICK j : Become(c, j) /\ j = [job[c] EXCEPT
                   !.pc = "save", !.sequence = row[a].sequence + 1]
    BY <1>29 DEF NextResolutionSequence
  <2>3. j.pc \in {"save"}
    BY <1>0, <2>2 DEF Jobs
  <2>4. QED
    BY <2>1, <2>2, <2>3, BecomeFields, QuietCalm DEF Calm
<1>30. CASE SaveResolution(c)
  <2>1. Frame
    BY <1>30, StillFrame DEF SaveResolution, world
  <2>2. QED
    BY <1>30, <2>1, ReturnFields, QuietCalm DEF SaveResolution
<1>31. CASE RequireCurrent(c)
  <2>1. Frame
    BY <1>31, StillFrame DEF RequireCurrent, store, world
  <2>2. CASE Return(c)
    BY <2>1, <2>2, ReturnFields, QuietCalm
  <2>3. CASE ~Return(c)
    <3>1. PICK j : /\ Become(c, j)
                   /\ j = [job[c] EXCEPT !.pc = "relist", !.sequence = saved[a].sequence,
                             !.evidence = saved[a].evidence, !.outcome = saved[a].outcome]
      BY <1>31, <2>3 DEF RequireCurrent
    <3>2. j.pc = "relist"
      BY <1>0, <3>1 DEF Jobs
    <3>3. QED
      BY <2>1, <3>1, <3>2, BecomeFields, QuietCalm DEF Calm
  <2>4. QED
    BY <2>2, <2>3
<1>32. CASE CheckRetry(c)
  <2>1. Frame
    BY <1>32, StillFrame DEF CheckRetry, store, world
  <2>2. CASE Become(c, [Reconciling(a) EXCEPT !.pc = "derive"])
    <3>1. [Reconciling(a) EXCEPT !.pc = "derive"].pc = "derive"
      BY <1>0, <1>32, ReconcilingType DEF CheckRetry, At, Jobs
    <3>2. QED
      BY <2>1, <2>2, <3>1, BecomeFields, QuietCalm DEF Calm
  <2>3. CASE Goto(c, "proof") \/ Return(c)
    BY <2>1, <2>3, GotoFields, ReturnFields, QuietCalm DEF Calm, PCs
  <2>4. QED
    BY <1>0, <1>32, <2>2, <2>3 DEF CheckRetry
<1>33. CASE CheckNotSent(c)
  <2>1. Frame
    BY <1>33, StillFrame DEF CheckNotSent, store, world
  <2>2. CASE Return(c)
    BY <2>1, <2>2, ReturnFields, QuietCalm
  <2>3. CASE row[a].status = "definitely_not_sent" /\ Goto(c, "claim")
    <3>1. job'[c].pc = "claim" /\ job'[c].op = job[c].op /\ job'[c].action = a
          /\ \A d \in Callers : d # c => job'[d] = job[d]
      BY <2>3, GotoFields DEF PCs
    <3>2. FirstUnsent(a) /\ Planned(a) /\ UNCHANGED <<row, lifecycle>>
      BY <1>0, <1>33, <2>3 DEF CheckNotSent, At, Row, FirstUnsent, Rows, store
    <3>4. Caller(job[c])' /\ job'[c].pc \notin Owning
      BY <3>1, <3>2 DEF FirstUnsent, Planned, Caller, Owning, Sending, Before, Carriers
    <3>5. QED
      BY <2>1, <3>1, <3>4, QuietCaller
  <2>4. QED
    BY <1>33, <2>2, <2>3 DEF CheckNotSent
<1>34. CASE ClaimCompensation(c)
  <2>1. Frame
    <3>1. CASE UNCHANGED row
      BY <1>34, <3>1, StillFrame DEF ClaimCompensation, world
    <3>2. CASE row' = [row EXCEPT ![a].compensation = "claimed"]
      <4>1. PICK r : row' = [row EXCEPT ![a] = r] /\ r = [row[a] EXCEPT !.compensation = "claimed"]
        BY <3>2
      <4>2. r.attempts = row[a].attempts /\ r.token = row[a].token /\ r.status = row[a].status
        BY <1>0, <1>34, <4>1 DEF ClaimCompensation, At, Rows
      <4>3. QED
        BY <1>0, <1>34, <4>1, <4>2, RowFrame DEF ClaimCompensation, At, world
    <3>3. QED
      BY <1>34, <3>1, <3>2 DEF ClaimCompensation
  <2>2. QED
    BY <1>34, <2>1, GotoFields, ReturnFields, QuietCalm DEF Calm, ClaimCompensation, PCs
<1>35. CASE Compensate(c)
  <2>1. Frame
    BY <1>35, StillFrame DEF Compensate, store
  <2>2. QED
    BY <1>35, <2>1, GotoFields, ReturnFields, QuietCalm DEF Calm, Compensate, PCs
<1>36. CASE AppendUndone(c)
  <2>1. Plain("undone") \in Entry /\ Plain("undone").fact # "not_sent" /\ a \in Actions
    BY <1>0, <1>36, PlainType DEF AppendUndone, At, Facts, Plain, Report
  <2>2. Frame
    BY <1>36, <2>1, AppendFrame DEF AppendUndone, world
  <2>3. QED
    BY <1>36, <2>2, GotoFields, QuietCalm DEF Calm, AppendUndone, PCs
<1>37. CASE FinishCompensation(c)
  <2>1. Frame
    <3>1. PICK r : row' = [row EXCEPT ![a] = r] /\ r = [row[a] EXCEPT !.compensation = "finished"]
      BY <1>37 DEF FinishCompensation
    <3>2. r.attempts = row[a].attempts /\ r.token = row[a].token /\ r.status = row[a].status
      BY <1>0, <1>37, <3>1 DEF FinishCompensation, At, Rows
    <3>3. QED
      BY <1>0, <1>37, <3>1, <3>2, RowFrame DEF FinishCompensation, At, world
  <2>2. QED
    BY <1>37, <2>1, ReconcileFields, QuietCalm DEF FinishCompensation, At
<1>38. QED
  BY <1>1, <1>2, <1>3, <1>4, <1>5, <1>6, <1>7, <1>8, <1>9, <1>10, <1>10a, <1>11,
     <1>12, <1>13, <1>14, <1>15, <1>16, <1>17, <1>18, <1>19, <1>20, <1>21, <1>22,
     <1>23, <1>24, <1>25, <1>26, <1>27, <1>28, <1>29, <1>30, <1>31, <1>32, <1>33,
     <1>34, <1>35, <1>36, <1>37 DEF Step

(* So does a request that arrives,                                         *)
LEMMA DispatchCall ==
    ASSUME TypeInv, TypeInv', DispatchInv, NEW c \in Callers, NEW op \in Operations,
           NEW a \in Actions, Call(c, op, a)
    PROVE  DispatchInv'
<1>1. Frame
  BY StillFrame DEF Call, store, world
<1>2. PICK j : /\ Become(c, j)
               /\ \E want : j = [Idle EXCEPT !.op = op, !.action = a,
                      !.pc = CASE op = "commit"     -> "intent"
                               [] op = "recover"    -> "initialize"
                               [] op = "reconcile"  -> "normalize"
                               [] op = "retry"      -> "current"
                               [] op = "compensate" -> "claim_undo",
                      !.want = want]
  BY DEF Call
<1>3. /\ j.op = op /\ j.action = a
      /\ \/ op = "commit" /\ j.pc = "intent"
         \/ op = "recover" /\ j.pc = "initialize"
         \/ j.pc \in Calm
  BY <1>2, IdleType DEF Jobs, Operations, Calm
<1>4. job'[c] = j /\ \A d \in Callers : d # c => job'[d] = job[d]
  BY <1>2, BecomeFields
<1>5. op = "recover" => lifecycle'[a] # "absent"
  BY DEF Call, store
<1>6. Caller(job[c])' /\ job'[c].pc \notin Owning
  BY <1>3, <1>4, <1>5, CalmCaller DEF Caller, Owning, Sending, Before, Carriers
<1>7. QED
  BY <1>1, <1>4, <1>6, QuietCaller

(* ... and whatever processes and the provider do.                         *)
LEMMA DispatchEnvironment ==
    ASSUME TypeInv, TypeInv', DispatchInv, Environment
    PROVE  DispatchInv'
<1>1. ASSUME NEW h \in Hosts, Crash(h)
      PROVE  DispatchInv'
  <2>1. Frame
    BY <1>1, StillFrame DEF Crash, store, world
  <2>2. \A d \in Callers : job'[d] = job[d] \/ job'[d].pc \in Calm
    BY <1>1, IdleType DEF Crash, Calm
  <2>3. QED
    BY <2>1, <2>2, Quiet
<1>2. ASSUME NEW a \in Actions, NEW n \in Attempts, Land(a, n) \/ Drop(a, n)
      PROVE  DispatchInv'
  <2>1. PICK v \in {"landed", "dropped"} : request' = [request EXCEPT ![a][n] = v]
    BY <1>2 DEF Land, Drop
  <2>2. request[a][n] = "flying" /\ UNCHANGED <<lifecycle, ledger, row, job>>
    BY <1>2 DEF Land, Drop, store, process
  <2>3. \A b \in Actions : Sent(b)' = Sent(b)
    BY <2>1, <2>2 DEF Sent, TypeInv, WorldOK
  <2>4. \A b \in Actions : Row(b)'
    BY <2>2, <2>3 DEF DispatchInv, Row, FirstUnsent, Planned
  <2>5. ASSUME NEW d \in Callers
        PROVE  Caller(job[d])'
    <3>1. Caller(job[d]) /\ (job[d].pc # "idle" => job[d].action \in Actions)
      BY DEF DispatchInv, TypeInv, JobsOK
    <3>2. CASE job[d].pc = "idle"
      BY <2>2, <3>2 DEF Caller, Owning, Sending, Before, Carriers
    <3>3. CASE job[d].pc # "idle"
      BY <2>2, <2>3, <3>1, <3>3 DEF Caller, FirstUnsent, Planned
    <3>4. QED
      BY <3>2, <3>3
  <2>6. QED
    BY <2>2, <2>4, <2>5 DEF DispatchInv, DistinctClaims
<1>3. ASSUME NEW a \in Actions, WindowElapses(a) \/ ExternalChange(a)
      PROVE  DispatchInv'
  <2>1. Frame /\ UNCHANGED job
    BY <1>3, StillFrame DEF WindowElapses, ExternalChange, store, process
  <2>2. QED
    BY <2>1, Quiet
<1>4. QED
  BY <1>1, <1>2, <1>3 DEF Environment

(* Nothing is claimed or sent in the initial state.                        *)
LEMMA DispatchInit == Init => DispatchInv
<1>. SUFFICES ASSUME Init PROVE DispatchInv
  OBVIOUS
<1>1. \A a \in Actions : Row(a)
  BY DEF Init, Row, Sent, NoRow, HasNotSent
<1>2. \A c \in Callers : job[c].pc \in Calm
  BY IdleType DEF Init, Calm
<1>3. QED
  BY <1>1, <1>2, CalmCaller DEF DispatchInv, DistinctClaims

(* The invariant is inductive, over the typing invariant.                  *)
LEMMA DispatchNext ==
    ASSUME GitHubReadable, TypeInv, TypeInv', DispatchInv, [Next]_vars
    PROVE  DispatchInv'
<1>1. CASE Next
  BY <1>1, DispatchStep, DispatchCall, DispatchEnvironment DEF Next
<1>2. CASE UNCHANGED vars
  <2>1. Frame /\ UNCHANGED job
    BY <1>2, StillFrame DEF vars
  <2>2. QED
    BY <2>1, Quiet
<1>3. QED
  BY <1>1, <1>2

(* Every reachable state satisfies the invariant.                          *)
LEMMA DispatchInvariant ==
    ASSUME GitHubReadable
    PROVE  Spec => [](TypeInv /\ DispatchInv)
<1>1. Init => TypeInv /\ DispatchInv
  BY TypeInit, DispatchInit
<1>2. (TypeInv /\ DispatchInv) /\ [Next]_vars => (TypeInv /\ DispatchInv)'
  BY TypeNext, DispatchNext
<1>3. QED
  BY <1>1, <1>2, PTL DEF Spec

-----------------------------------------------------------------------------
(* "definitely_not_sent" is never a lie: no attempt of an action whose row *)
(* says it ever left the process, however many processes dispatched,       *)
(* recovered, stole and retried it.                                        *)
THEOREM NotSentTheorem ==
    ASSUME GitHubReadable
    PROVE  Spec => []NotSentIsTrue
<1>1. TypeInv /\ DispatchInv => NotSentIsTrue
  BY DEF DispatchInv, Row, NotSentIsTrue
<1>2. QED
  BY <1>1, DispatchInvariant, PTL

(* A mutation without an idempotency key leaves at most once per action.   *)
THEOREM AtMostOnceTheorem ==
    ASSUME GitHubReadable
    PROVE  Spec => []AtMostOneMutation
<1>1. TypeInv /\ DispatchInv => AtMostOneMutation
  BY DEF DispatchInv, Row, AtMostOneMutation
<1>2. QED
  BY <1>1, DispatchInvariant, PTL

(* The not-sent record of the ledger is true of the first attempt.         *)
THEOREM NotSentRecordTheorem ==
    ASSUME GitHubReadable
    PROVE  Spec => []NotSentRecordIsTrue
<1>1. TypeInv /\ DispatchInv => NotSentRecordIsTrue
  <2>. SUFFICES ASSUME DispatchInv, NEW a \in Actions, HasNotSent(ledger[a]), 1 \in Sent(a)
                PROVE  FALSE
    BY DEF NotSentRecordIsTrue, HasNotSent
  <2>1. Row(a) /\ FirstUnsent(a)
    BY DEF DispatchInv, Row
  <2>2. QED
    BY <2>1 DEF Row, FirstUnsent
<1>2. QED
  BY <1>1, DispatchInvariant, PTL

(* An action is dispatched by one caller at a time, whose row says so.     *)
THEOREM OneDispatcherTheorem ==
    ASSUME GitHubReadable
    PROVE  Spec => []OneDispatcher
<1>1. TypeInv /\ DispatchInv => OneDispatcher
  BY DEF DispatchInv, Caller, DistinctClaims, OneDispatcher, Owning
<1>2. QED
  BY <1>1, DispatchInvariant, PTL

-----------------------------------------------------------------------------
(* The runtime implements the abstract consequence protocol.  Under the    *)
(* mapping of NystRuntime a step either shows nothing of any action        *)
(* (Unseen) or is one step of the protocol on one action; DispatchInv      *)
(* gives the guards of that step.                                          *)

(* What the abstract protocol sees of an action does not change.           *)
Unseen(a) ==
    /\ Boundary(a)' = Boundary(a)
    /\ row'[a].attempts = row[a].attempts
    /\ Sent(a)' = Sent(a)

(* A step that shows nothing of any action is a stutter of the protocol.   *)
LEMMA Stutter ==
    ASSUME \A a \in Actions : Unseen(a)
    PROVE  UNCHANGED Abstract!vars
BY DEF Unseen, Abstract!vars

(* Persisting the dispatch plan is the Plan step of the protocol.          *)
LEMMA PlanStep ==
    ASSUME NEW a \in Actions,
           \A b \in Actions : b # a => Unseen(b),
           Boundary(a) = "unplanned",
           Boundary(a)' = "closed", row'[a].attempts = row[a].attempts, Sent(a)' = Sent(a)
    PROVE  Abstract!Plan(a)
BY DEF Unseen, Abstract!Plan

(* Taking a dispatch claim is its Open step.                               *)
LEMMA OpenStep ==
    ASSUME NEW a \in Actions,
           \A b \in Actions : b # a => Unseen(b),
           Boundary(a) \in {"closed", "unsent"}, row[a].attempts < AttemptBudget,
           Boundary(a)' = "open", row'[a].attempts = row[a].attempts + 1, Sent(a)' = Sent(a)
    PROVE  Abstract!Open(a)
BY DEF Unseen, Abstract!Open

(* Issuing the mutation is its Cross step.                                 *)
LEMMA CrossStep ==
    ASSUME NEW a \in Actions,
           \A b \in Actions : b # a => Unseen(b),
           Boundary(a) = "open", Sent(a) = {},
           Boundary(a)' = "open", row'[a].attempts = row[a].attempts,
           Sent(a)' = {row[a].attempts}
    PROVE  Abstract!Cross(a)
BY DEF Unseen, Abstract!Cross

(* Recording "definitely_not_sent" is its ProveUnsent step.                *)
LEMMA UnsentStep ==
    ASSUME NEW a \in Actions,
           \A b \in Actions : b # a => Unseen(b),
           Boundary(a) = "open", Sent(a) = {},
           Boundary(a)' = "unsent", row'[a].attempts = row[a].attempts, Sent(a)' = Sent(a)
    PROVE  Abstract!ProveUnsent(a)
BY DEF Unseen, Abstract!ProveUnsent

(* A step that keeps the boundary of every row and sends nothing.          *)
LEMMA StillUnseen ==
    UNCHANGED <<lifecycle, row, request>> => \A a \in Actions : Unseen(a)
BY DEF Unseen, Boundary, Planned, Sent

(* Writing a row without leaving its boundary shows nothing.               *)
LEMMA RowUnseen ==
    ASSUME TypeInv, DispatchInv, NEW a \in Actions, NEW r, row' = [row EXCEPT ![a] = r],
           r.attempts = row[a].attempts,
           \/ r.status = row[a].status
           \/ {row[a].status, r.status} \subseteq {"absent", "not_started"}
           \/ {row[a].status, r.status} \subseteq {"claimed", "attempted"},
           UNCHANGED <<lifecycle, request>>
    PROVE  \A b \in Actions : Unseen(b)
BY DEF TypeInv, StoreOK, Unseen, Boundary, Planned, Sent

(* Neither does moving a lifecycle on the same side of the plan.           *)
LEMMA LifecycleUnseen ==
    ASSUME TypeInv, NEW a \in Actions, NEW l, lifecycle' = [lifecycle EXCEPT ![a] = l],
           Planned(a) <=> l \notin {"absent", "intent_recorded"},
           UNCHANGED <<row, request>>
    PROVE  \A b \in Actions : Unseen(b)
BY DEF TypeInv, StoreOK, Unseen, Boundary, Planned, Sent

(* Writing the row of one action shows nothing of the others.              *)
LEMMA UnsentOthers ==
    ASSUME TypeInv, NEW a \in Actions, NEW r, row' = [row EXCEPT ![a] = r],
           UNCHANGED <<lifecycle, request>>
    PROVE  row'[a] = r /\ \A b \in Actions : b # a => Unseen(b)
BY DEF TypeInv, StoreOK, Unseen, Boundary, Planned, Sent

(* Every step of a caller is a step of the protocol, or a stutter.         *)
LEMMA ConsequenceStep ==
    ASSUME GitHubReadable, TypeInv, DispatchInv, NEW c \in Callers, Step(c)
    PROVE  Abstract!Next \/ \A a \in Actions : Unseen(a)
<1>0. PICK a : a = job[c].action
  OBVIOUS
<1>. DEFINE j == job[c]
<1>00. /\ StoreOK /\ j \in Jobs /\ Caller(j) /\ ~Idempotent
       /\ ~At(c, "idle") => a \in Actions /\ Row(a) /\ row[a] \in Rows
                            /\ row[a].attempts \in Nat
  BY <1>0 DEF TypeInv, JobsOK, StoreOK, DispatchInv, At, Rows, AttemptBudget, Idempotent,
              GitHubReadable
<1>1. CASE RecordIntent(c)
  BY <1>0, <1>00, <1>1, LifecycleUnseen, StillUnseen
     DEF RecordIntent, At, Planned, world
<1>2. CASE Initialize(c)
  <2>1. PICK r : row' = [row EXCEPT ![a] = r] /\ r = [row[a] EXCEPT !.status = IF @ = "absent" THEN "not_started" ELSE @]
    BY <1>0, <1>2 DEF Initialize
  <2>2. r.attempts = row[a].attempts
        /\ \/ r.status = row[a].status
           \/ {row[a].status, r.status} \subseteq {"absent", "not_started"}
    BY <1>0, <1>00, <1>2, <2>1 DEF Initialize, At, Rows
  <2>3. QED
    BY <1>0, <1>00, <1>2, <2>1, <2>2, RowUnseen DEF Initialize, At, world
<1>3. CASE EnsureDispatchPlan(c)
  <2>1. CASE lifecycle[a] # "intent_recorded"
    BY <1>0, <1>00, <1>3, <2>1, LifecycleUnseen DEF EnsureDispatchPlan, At, Planned, world
  <2>2. CASE lifecycle[a] = "intent_recorded"
    <3>1. /\ a \in Actions /\ lifecycle' = [lifecycle EXCEPT ![a] = "prepared"]
          /\ UNCHANGED <<row, request>>
      BY <1>0, <1>00, <1>3, <2>2 DEF EnsureDispatchPlan, At, world
    <3>2. \A b \in Actions : b # a => Unseen(b)
      BY <1>00, <3>1 DEF StoreOK, Unseen, Boundary, Planned, Sent
    <3>3. row[a].status \in {"absent", "not_started"}
      BY <1>0, <1>00, <1>3, <2>2 DEF EnsureDispatchPlan, At, Row, Planned
    <3>4. /\ Boundary(a) = "unplanned" /\ Boundary(a)' = "closed"
          /\ row'[a].attempts = row[a].attempts /\ Sent(a)' = Sent(a)
      BY <1>00, <2>2, <3>1, <3>3 DEF StoreOK, Boundary, Planned, Sent
    <3>5. QED
      BY <3>1, <3>2, <3>4, PlanStep DEF Abstract!Next
  <2>3. QED
    BY <2>1, <2>2
<1>4. CASE Route(c)
  BY <1>4, StillUnseen DEF Route, store, world
<1>5. CASE CheckSource(c)
  BY <1>5, StillUnseen DEF CheckSource, store, world
<1>6. CASE ClaimDispatch(c)
  <2>1. CASE ~Claimable(c)
    BY <1>6, <2>1, StillUnseen DEF ClaimDispatch, world
  <2>2. CASE Claimable(c)
    <3>1. /\ a \in Actions /\ row[a].attempts < AttemptBudget
          /\ row[a].status \in Allowed(job[c].op)
      BY <1>0, <1>00, <1>6, <2>2 DEF ClaimDispatch, At, Claimable
    <3>2. Boundary(a) \in {"closed", "unsent"}
      <4>1. CASE job[c].op = "retry"
        <5>1. FirstUnsent(a) /\ row[a].attempts = 1
          BY <1>0, <1>00, <1>6, <3>1, <4>1 DEF ClaimDispatch, At, Caller, FirstUnsent, AttemptBudget
        <5>2. QED
          BY <1>0, <1>00, <1>6, <5>1 DEF ClaimDispatch, At, FirstUnsent, Row, Boundary
      <4>2. CASE job[c].op # "retry"
        BY <1>0, <1>00, <1>6, <3>1, <4>2 DEF ClaimDispatch, At, Caller, Allowed, Boundary
      <4>3. QED
        BY <4>1, <4>2
    <3>3. PICK r : /\ row' = [row EXCEPT ![a] = r]
                   /\ r = [row[a] EXCEPT !.status = "claimed", !.attempts = row[a].attempts + 1,
                                        !.token = row[a].attempts + 1]
      BY <1>0, <1>6, <2>2 DEF ClaimDispatch
    <3>4. r.status = "claimed" /\ r.attempts = row[a].attempts + 1
      BY <1>0, <1>00, <1>6, <3>3 DEF ClaimDispatch, At, Rows
    <3>5. UNCHANGED <<lifecycle, request>>
      BY <1>6 DEF ClaimDispatch, world
    <3>6. row'[a] = r /\ \A b \in Actions : b # a => Unseen(b)
      BY <3>1, <3>3, <3>5, UnsentOthers
    <3>7. Boundary(a)' = "open" /\ Sent(a)' = Sent(a)
      BY <3>2, <3>4, <3>5, <3>6 DEF Boundary, Planned, Sent
    <3>8. QED
      BY <3>1, <3>2, <3>4, <3>6, <3>7, OpenStep DEF Abstract!Next
  <2>3. QED
    BY <2>1, <2>2
<1>7. CASE Register(c)
  BY <1>7, StillUnseen DEF Register, store, world
<1>8. CASE CrossBoundary(c)
  <2>1. CASE ~HoldsClaim(a, job[c].attempt)
    BY <1>0, <1>8, <2>1, StillUnseen DEF CrossBoundary, world
  <2>2. CASE HoldsClaim(a, job[c].attempt)
    <3>1. PICK r : /\ row' = [row EXCEPT ![a] = r]
                   /\ r = [row[a] EXCEPT !.status = "attempted", !.token = 0]
      BY <1>0, <1>8, <2>2 DEF CrossBoundary, FinishDispatch
    <3>2. r.attempts = row[a].attempts /\ r.status = "attempted" /\ row[a].status = "claimed"
      BY <1>0, <1>00, <1>8, <2>2, <3>1 DEF CrossBoundary, At, Rows, HoldsClaim
    <3>3. QED
      BY <1>0, <1>00, <1>8, <3>1, <3>2, RowUnseen DEF CrossBoundary, At, world
  <2>3. QED
    BY <2>1, <2>2
<1>9. CASE EnterDispatching(c)
  BY <1>0, <1>00, <1>9, LifecycleUnseen, StillUnseen
     DEF EnterDispatching, At, Planned, world
<1>10. CASE SendNothingToDo(c)
  BY <1>10, StillUnseen DEF SendNothingToDo, store, world
<1>10a. CASE Revalidate(c)
  BY <1>10a, StillUnseen DEF Revalidate, store, world
<1>11. CASE SendStopped(c)
  BY <1>11, StillUnseen DEF SendStopped, store, world
<1>12. CASE Send(c)
  <2>. DEFINE n == row[a].attempts
  <2>1. /\ a \in Actions /\ row[a].status = "attempted" /\ Planned(a) /\ Sent(a) = {}
        /\ n = job[c].attempt /\ n \in Attempts
    BY <1>0, <1>00, <1>12
       DEF Send, At, Row, Caller, Owning, Before, Sending, Jobs, Attempts, Rows, AttemptBudget
  <2>2. request' = [request EXCEPT ![a][n] = "flying"] /\ UNCHANGED <<lifecycle, row>>
    BY <1>0, <1>12, <2>1 DEF Send, store
  <2>3. \A b \in Actions : b # a => Unseen(b)
    BY <2>2 DEF Unseen, Boundary, Planned, Sent, TypeInv, WorldOK
  <2>4. Boundary(a) = "open" /\ Boundary(a)' = "open" /\ row'[a].attempts = row[a].attempts
    BY <2>1, <2>2 DEF Boundary, Planned
  <2>5. Sent(a)' = {n}
    BY <2>1, <2>2 DEF Sent, TypeInv, WorldOK
  <2>6. QED
    BY <2>1, <2>3, <2>4, <2>5, CrossStep DEF Abstract!Next
<1>13. CASE Respond(c)
  BY <1>13, StillUnseen DEF Respond, store, world
<1>14. CASE SendTimesOut(c)
  BY <1>14, StillUnseen DEF SendTimesOut, store, world
<1>15. CASE AnswerUnreadable(c)
  BY <1>15, StillUnseen DEF AnswerUnreadable, store, world
<1>16. CASE AppendReport(c)
  BY <1>16, StillUnseen DEF AppendReport, store, world
<1>17. CASE SetNotSent(c)
  <2>1. /\ a \in Actions /\ row[a].status = "attempted" /\ Planned(a) /\ Sent(a) = {}
    BY <1>0, <1>00, <1>17 DEF SetNotSent, At, Row, Caller, Owning, Sending
  <2>2. PICK r : /\ row' = [row EXCEPT ![a] = r]
                 /\ r = [row[a] EXCEPT !.status = "definitely_not_sent"]
    BY <1>0, <1>17, <2>1 DEF SetNotSent
  <2>3. r.attempts = row[a].attempts /\ r.status = "definitely_not_sent"
    BY <1>0, <1>00, <1>17, <2>2 DEF SetNotSent, At, Rows
  <2>4. UNCHANGED <<lifecycle, request>>
    BY <1>17 DEF SetNotSent, world
  <2>5. row'[a] = r /\ \A b \in Actions : b # a => Unseen(b)
    BY <2>1, <2>2, <2>4, UnsentOthers
  <2>6. Boundary(a) = "open" /\ Boundary(a)' = "unsent" /\ Sent(a)' = Sent(a)
    BY <2>1, <2>3, <2>4, <2>5 DEF Boundary, Planned, Sent
  <2>7. QED
    BY <2>1, <2>3, <2>5, <2>6, UnsentStep DEF Abstract!Next
<1>18. CASE RecordNotSent(c)
  BY <1>18, StillUnseen DEF RecordNotSent, store, world
<1>19. CASE RecordCaught(c)
  BY <1>19, StillUnseen DEF RecordCaught, store, world
<1>20. CASE Normalize(c)
  <2>1. CASE UNCHANGED lifecycle
    BY <1>20, <2>1, StillUnseen DEF Normalize, world
  <2>2. CASE lifecycle[a] \in {"prepared", "dispatching"}
    BY <1>0, <1>00, <1>20, <2>2, LifecycleUnseen DEF Normalize, At, Planned, world
  <2>3. QED
    BY <1>0, <1>20, <2>1, <2>2 DEF Normalize
<1>21. CASE Release(c)
  BY <1>21, StillUnseen DEF Release, store, world
<1>22. CASE StealClaim(c)
  <2>1. CASE ~HoldsClaim(a, job[c].attempt)
    BY <1>0, <1>22, <2>1, StillUnseen DEF StealClaim, world
  <2>2. CASE HoldsClaim(a, job[c].attempt)
    <3>1. PICK r : /\ row' = [row EXCEPT ![a] = r]
                   /\ r = [row[a] EXCEPT !.status = "definitely_not_sent", !.token = 0]
      BY <1>0, <1>22, <2>2 DEF StealClaim, FinishDispatch
    <3>2. r.attempts = row[a].attempts /\ r.status = "definitely_not_sent"
      BY <1>0, <1>00, <1>22, <3>1 DEF StealClaim, At, Rows
    <3>3. /\ a \in Actions /\ row[a].status = "claimed" /\ Planned(a) /\ Sent(a) = {}
      BY <1>0, <1>00, <1>22, <2>2 DEF StealClaim, At, HoldsClaim, Row
    <3>4. UNCHANGED <<lifecycle, request>>
      BY <1>22 DEF StealClaim, world
    <3>5. row'[a] = r /\ \A b \in Actions : b # a => Unseen(b)
      BY <3>1, <3>3, <3>4, UnsentOthers
    <3>6. Boundary(a) = "open" /\ Boundary(a)' = "unsent" /\ Sent(a)' = Sent(a)
      BY <3>2, <3>3, <3>4, <3>5 DEF Boundary, Planned, Sent
    <3>7. QED
      BY <3>2, <3>3, <3>5, <3>6, UnsentStep DEF Abstract!Next
  <2>3. QED
    BY <2>1, <2>2
<1>23. CASE ListEvidence(c)
  BY <1>23, StillUnseen DEF ListEvidence, store, world
<1>24. CASE Observe(c)
  BY <1>24, StillUnseen DEF Observe, store, world
<1>25. CASE ObserveFails(c)
  BY <1>25, StillUnseen DEF ObserveFails, store, world
<1>26. CASE AppendObservation(c)
  BY <1>26, StillUnseen DEF AppendObservation, store, world
<1>27. CASE Derive(c)
  BY <1>27, StillUnseen DEF Derive, store, world
<1>28. CASE FloorBoundary(c)
  BY <1>28, StillUnseen DEF FloorBoundary, store, world
<1>29. CASE NextResolutionSequence(c)
  <2>1. PICK r : row' = [row EXCEPT ![a] = r] /\ r = [row[a] EXCEPT !.sequence = @ + 1]
    BY <1>0, <1>29 DEF NextResolutionSequence
  <2>2. r.attempts = row[a].attempts
        /\ \/ r.status = row[a].status
           \/ {row[a].status, r.status} \subseteq {"absent", "not_started"}
    BY <1>0, <1>00, <1>29, <2>1 DEF NextResolutionSequence, At, Rows
  <2>3. QED
    BY <1>0, <1>00, <1>29, <2>1, <2>2, RowUnseen DEF NextResolutionSequence, At, world
<1>30. CASE SaveResolution(c)
  BY <1>30, StillUnseen DEF SaveResolution, store, world
<1>31. CASE RequireCurrent(c)
  BY <1>31, StillUnseen DEF RequireCurrent, store, world
<1>32. CASE CheckRetry(c)
  BY <1>32, StillUnseen DEF CheckRetry, store, world
<1>33. CASE CheckNotSent(c)
  BY <1>33, StillUnseen DEF CheckNotSent, store, world
<1>34. CASE ClaimCompensation(c)
  <2>1. CASE UNCHANGED row
    BY <1>34, <2>1, StillUnseen DEF ClaimCompensation, world
  <2>2. CASE ~UNCHANGED row
    <3>1. PICK r : row' = [row EXCEPT ![a] = r] /\ r = [row[a] EXCEPT !.compensation = "claimed"]
      BY <1>0, <1>34, <2>2 DEF ClaimCompensation
    <3>2. r.attempts = row[a].attempts /\ r.status = row[a].status
      BY <1>0, <1>00, <1>34, <3>1 DEF ClaimCompensation, At, Rows
    <3>3. QED
      BY <1>0, <1>00, <1>34, <3>1, <3>2, RowUnseen DEF ClaimCompensation, At, world
  <2>3. QED
    BY <2>1, <2>2
<1>35. CASE Compensate(c)
  BY <1>35, StillUnseen DEF Compensate, store, world
<1>36. CASE AppendUndone(c)
  BY <1>36, StillUnseen DEF AppendUndone, store, world
<1>37. CASE FinishCompensation(c)
  <2>1. PICK r : row' = [row EXCEPT ![a] = r] /\ r = [row[a] EXCEPT !.compensation = "finished"]
    BY <1>0, <1>37 DEF FinishCompensation
  <2>2. r.attempts = row[a].attempts
        /\ \/ r.status = row[a].status
           \/ {row[a].status, r.status} \subseteq {"absent", "not_started"}
    BY <1>0, <1>00, <1>37, <2>1 DEF FinishCompensation, At, Rows
  <2>3. QED
    BY <1>0, <1>00, <1>37, <2>1, <2>2, RowUnseen DEF FinishCompensation, At, world
<1>38. QED
  BY <1>1, <1>2, <1>3, <1>4, <1>5, <1>6, <1>7, <1>8, <1>9, <1>10, <1>10a, <1>11,
     <1>12, <1>13, <1>14, <1>15, <1>16, <1>17, <1>18, <1>19, <1>20, <1>21, <1>22,
     <1>23, <1>24, <1>25, <1>26, <1>27, <1>28, <1>29, <1>30, <1>31, <1>32, <1>33,
     <1>34, <1>35, <1>36, <1>37 DEF Step

(* Calls, crashes and the provider are invisible to the protocol.          *)
LEMMA ConsequenceNext ==
    ASSUME GitHubReadable, TypeInv, DispatchInv, [Next]_vars
    PROVE  [Abstract!Next]_(Abstract!vars)
<1>1. ASSUME NEW c \in Callers, NEW op \in Operations, NEW a \in Actions, Call(c, op, a)
      PROVE  \A b \in Actions : Unseen(b)
  BY <1>1, StillUnseen DEF Call, store, world
<1>2. ASSUME NEW a \in Actions, NEW n \in Attempts, Land(a, n) \/ Drop(a, n)
      PROVE  \A b \in Actions : Unseen(b)
  <2>1. PICK v \in {"landed", "dropped"} : request' = [request EXCEPT ![a][n] = v]
    BY <1>2 DEF Land, Drop
  <2>2. request[a][n] = "flying" /\ UNCHANGED <<lifecycle, row>>
    BY <1>2 DEF Land, Drop, store
  <2>3. \A b \in Actions : Sent(b)' = Sent(b)
    BY <2>1, <2>2 DEF Sent, TypeInv, WorldOK
  <2>4. QED
    BY <2>2, <2>3 DEF Unseen, Boundary, Planned
<1>3. ASSUME NEW h \in Hosts, Crash(h)
      PROVE  \A b \in Actions : Unseen(b)
  BY <1>3, StillUnseen DEF Crash, store, world
<1>4. ASSUME NEW a \in Actions, WindowElapses(a) \/ ExternalChange(a)
      PROVE  \A b \in Actions : Unseen(b)
  BY <1>4, StillUnseen DEF WindowElapses, ExternalChange, store
<1>5. CASE UNCHANGED vars
  BY <1>5, StillUnseen, Stutter DEF vars
<1>6. Next => Abstract!Next \/ \A b \in Actions : Unseen(b)
  BY <1>1, <1>2, <1>3, <1>4, ConsequenceStep DEF Next, Environment
<1>7. QED
  BY <1>5, <1>6, Stutter

(* The runtime starts where the protocol starts.                           *)
LEMMA ConsequenceInit == Init => Abstract!Init
BY DEF Init, Abstract!Init, Boundary, Planned, Sent, NoRow

(* Whatever the callers, processes and calls, crashes and lost requests,   *)
(* the runtime implements the abstract protocol: an action is planned      *)
(* before it is attempted, crosses the boundary at most once, and is       *)
(* attempted again only after the attempt before is truly known not to     *)
(* have crossed (commit, recover, retry and their stores).                 *)
THEOREM ConsequenceTheorem ==
    ASSUME GitHubReadable
    PROVE  Spec => ImplementsConsequence
<1>1. Init => Abstract!Init
  BY ConsequenceInit
<1>2. TypeInv /\ DispatchInv /\ [Next]_vars => [Abstract!Next]_(Abstract!vars)
  BY ConsequenceNext
<1>3. QED
  BY <1>1, <1>2, DispatchInvariant, PTL DEF Spec, ImplementsConsequence, Abstract!Spec

-----------------------------------------------------------------------------
(***************************************************************************)
(* Decisions are used while they are current.  A caller that claims a      *)
(* dispatch relies on a resolution it read awaits ago; the claim compares  *)
(* sequence numbers.  The invariant CurrencyInv is why comparing numbers   *)
(* is enough: a saved resolution is replaced only by one with a higher     *)
(* number, numbers are drawn before they are saved, and what a caller      *)
(* recalls under a number is what is saved under it (Recalls).             *)
(***************************************************************************)

(* What a caller remembers of the resolution of an action.                 *)
Recalls(j, a) ==
    /\ j.sequence <= saved[a].sequence
    /\ j.sequence = saved[a].sequence => j.evidence = saved[a].evidence

RecallsOutcome(j) ==
    /\ Recalls(j, j.action)
    /\ j.sequence = saved[j.action].sequence => j.outcome = saved[j.action].outcome

Stages == {"absent", "intent_recorded", "prepared", "dispatching", "observing"}

Underway == {"dispatching", "observing"}

Retrying == {"relist", "reobserve", "reappend", "recheck", "proof"}

Books(a) ==
    /\ lifecycle[a] \in Stages
    /\ saved[a].sequence <= row[a].sequence
    /\ saved[a].sequence > 0 => saved[a].outcome \in Outcomes
    /\ row[a].attempts = 0 <=> row[a].status \in {"absent", "not_started"}
    /\ row[a].attempts > 0 => Planned(a)

Entering(j) ==
    /\ j.pc = "intent" => j.op = "commit"
    /\ j.pc \in {"initialize", "plan", "route"} => j.op \in {"commit", "recover"}
    /\ j.pc \in {"initialize", "plan"} => lifecycle[j.action] # "absent"
    /\ j.pc \in {"route", "source"} => Planned(j.action)
    /\ j.pc = "source" => j.op = "commit"
    /\ j.pc \in {"intent", "initialize", "plan", "route", "source"} /\ j.op = "commit"
         /\ Source[j.action] # NoAction => j.want > 0
    /\ j.pc \in {"initialize", "plan", "route", "claim"} /\ j.op = "recover" =>
         <<"recover", j.action>> \in Commands

Claiming(j) ==
    j.pc = "claim" =>
      /\ j.op \in {"commit", "recover", "retry"}
      /\ j.op # "retry" => Planned(j.action)
      /\ j.op = "commit" /\ Source[j.action] # NoAction =>
           Recalls(j, Source[j.action]) /\ j.sequence > 0
      /\ j.op = "retry" =>
           /\ RecallsOutcome(j)
           /\ AuthorizesRetry(j.outcome)
           /\ ~Idempotent => FirstUnsent(j.action)

Holds(j) ==
    /\ Entering(j)
    /\ Claiming(j)
    /\ j.pc = "current" => j.op = "retry"
    /\ j.pc \in Retrying => j.op = "retry" /\ RecallsOutcome(j)
    /\ j.pc = "proof" => AuthorizesRetry(j.outcome)
    /\ j.pc \in {"sequence", "save"} => j.outcome \in Outcomes
    /\ j.pc = "save" => 0 < j.sequence /\ j.sequence <= row[j.action].sequence
    /\ j.pc \in {"register", "boundary", "dispatching"} => row[j.action].attempts > 0
    /\ j.pc \in {"send", "write"} => lifecycle[j.action] \in Underway

CurrencyInv ==
    /\ \A a \in Actions : Books(a)
    /\ \A c \in Callers : Holds(job[c])

-----------------------------------------------------------------------------
(* What no step ever takes back.                                           *)
Onward ==
    \A a \in Actions :
        /\ saved'[a] = saved[a] \/ saved'[a].sequence > saved[a].sequence
        /\ row'[a].sequence >= row[a].sequence
        /\ row'[a].attempts >= row[a].attempts
        /\ lifecycle[a] # "absent" => lifecycle'[a] # "absent"
        /\ Planned(a) => Planned(a)'
        /\ lifecycle[a] \in Underway => lifecycle'[a] \in Underway
        /\ FirstUnsent(a) => FirstUnsent(a)'

(* A step that writes no lifecycle, row or resolution goes nowhere back.   *)
LEMMA StillOnward ==
    ASSUME TypeInv, \A a \in Actions : Books(a), UNCHANGED <<lifecycle, row, saved>>
    PROVE  Onward /\ \A a \in Actions : Books(a)'
<1>1. \A a \in Actions : row[a].sequence \in Nat /\ row[a].attempts \in Nat
  BY DEF TypeInv, StoreOK, Rows
<1>2. Onward
  BY <1>1 DEF Onward, Planned, FirstUnsent
<1>3. QED
  BY <1>2 DEF Books, Planned

(* Nor does one that writes a row, as the stores write rows,               *)
LEMMA RowOnward ==
    ASSUME TypeInv, \A a \in Actions : Books(a),
           NEW a \in Actions, NEW r \in Rows, row' = [row EXCEPT ![a] = r],
           UNCHANGED <<lifecycle, saved>>,
           r.sequence >= row[a].sequence,
           r.attempts >= row[a].attempts,
           r.attempts = 0 <=> r.status \in {"absent", "not_started"},
           r.attempts > 0 => Planned(a),
           row[a].attempts = r.attempts /\ row[a].status = "definitely_not_sent" =>
             r.status = "definitely_not_sent"
    PROVE  Onward /\ \A b \in Actions : Books(b)'
<1>1. \A b \in Actions : /\ row[b].sequence \in Nat /\ row[b].attempts \in Nat
                         /\ saved[b].sequence \in Nat
  BY DEF TypeInv, StoreOK, Rows
<1>2. r.sequence \in Nat /\ r.attempts \in Nat
  BY DEF Rows
<1>3. row'[a] = r /\ \A b \in Actions : b # a => row'[b] = row[b]
  BY DEF TypeInv, StoreOK
<1>4. ASSUME NEW b \in Actions, FirstUnsent(b)
      PROVE  FirstUnsent(b)'
  BY <1>1, <1>2, <1>3, <1>4 DEF FirstUnsent
<1>5. Onward
  BY <1>1, <1>2, <1>3, <1>4 DEF Onward, Planned
<1>6. ASSUME NEW b \in Actions
      PROVE  Books(b)'
  BY <1>1, <1>2, <1>3 DEF Books, Planned
<1>7. QED
  BY <1>5, <1>6

(* ... or one that moves a lifecycle to a later stage.                     *)
LEMMA LifecycleOnward ==
    ASSUME TypeInv, \A a \in Actions : Books(a),
           NEW a \in Actions, NEW l \in Stages \ {"absent"},
           lifecycle' = [lifecycle EXCEPT ![a] = l],
           UNCHANGED <<row, saved>>,
           Planned(a) => l # "intent_recorded",
           lifecycle[a] \in Underway => l \in Underway
    PROVE  Onward /\ \A b \in Actions : Books(b)'
<1>1. \A b \in Actions : row[b].sequence \in Nat /\ row[b].attempts \in Nat
  BY DEF TypeInv, StoreOK, Rows
<1>2. lifecycle'[a] = l /\ \A b \in Actions : b # a => lifecycle'[b] = lifecycle[b]
  BY DEF TypeInv, StoreOK
<1>3. Onward
  BY <1>1, <1>2 DEF Onward, Planned, FirstUnsent
<1>4. \A b \in Actions : Books(b)'
  BY <1>2 DEF Books, Planned
<1>5. QED
  BY <1>3, <1>4

(* Finishing a dispatch is such a write.                                   *)
LEMMA FinishOnward ==
    ASSUME TypeInv, \A a \in Actions : Books(a),
           NEW a \in Actions, NEW status \in {"attempted", "definitely_not_sent"},
           FinishDispatch(a, status), row[a].status \in {"claimed", "attempted"},
           UNCHANGED <<lifecycle, saved>>
    PROVE  Onward /\ \A b \in Actions : Books(b)'
<1>. DEFINE r == [row[a] EXCEPT !.status = status, !.token = 0]
<1>1. row[a] \in Rows /\ 0 \in 0..AttemptBudget /\ status \in DispatchStatuses
  BY DEF TypeInv, StoreOK, AttemptBudget, DispatchStatuses
<1>2. /\ r \in Rows /\ r.sequence = row[a].sequence /\ r.attempts = row[a].attempts
      /\ r.status = status
  BY <1>1 DEF Rows
<1>3. row' = [row EXCEPT ![a] = r]
  BY DEF FinishDispatch
<1>4. row[a].sequence \in Nat /\ row[a].attempts \in Nat /\ Books(a)
  BY <1>1 DEF Rows
<1>. HIDE DEF r
<1>5. /\ r.attempts = 0 <=> r.status \in {"absent", "not_started"}
      /\ r.attempts > 0 => Planned(a)
      /\ r.sequence >= row[a].sequence /\ r.attempts >= row[a].attempts
  BY <1>2, <1>3, <1>4 DEF Books
<1>6. QED
  BY <1>2, <1>3, <1>4, <1>5, RowOnward

-----------------------------------------------------------------------------
(* Every step of a caller goes onward.                                     *)
LEMMA StepOnward ==
    ASSUME TypeInv, CurrencyInv, NEW c \in Callers, Step(c)
    PROVE  Onward /\ \A b \in Actions : Books(b)'
<1>. DEFINE a == job[c].action
<1>0. /\ job[c] \in Jobs /\ Holds(job[c])
      /\ \A b \in Actions : Books(b)
      /\ ~At(c, "idle") => /\ a \in Actions /\ row[a] \in Rows /\ Books(a)
                           /\ row[a].sequence \in Nat /\ row[a].attempts \in 0..AttemptBudget
                           /\ saved[a].sequence \in Nat
  BY DEF TypeInv, JobsOK, StoreOK, CurrencyInv, At, Rows
<1>1. CASE UNCHANGED <<lifecycle, row, saved>>
  BY <1>0, <1>1, StillOnward
<1>2. CASE RecordIntent(c)
  <2>. DEFINE l == IF lifecycle[a] = "absent" THEN "intent_recorded" ELSE lifecycle[a]
  <2>1. a \in Actions /\ l \in Stages \ {"absent"} /\ (Planned(a) => l # "intent_recorded")
        /\ (lifecycle[a] \in Underway => l \in Underway)
    BY <1>0, <1>2 DEF RecordIntent, At, Books, Stages, Planned, Underway
  <2>2. lifecycle' = [lifecycle EXCEPT ![a] = l] /\ UNCHANGED <<row, saved>>
    BY <1>2 DEF RecordIntent
  <2>. HIDE DEF l
  <2>3. QED
    BY <1>0, <2>1, <2>2, LifecycleOnward
<1>3. CASE Initialize(c)
  <2>. DEFINE r == [row[a] EXCEPT !.status = IF @ = "absent" THEN "not_started" ELSE @]
  <2>1. /\ a \in Actions /\ r \in Rows
        /\ r.attempts = row[a].attempts /\ r.sequence = row[a].sequence
        /\ r.status = IF row[a].status = "absent" THEN "not_started" ELSE row[a].status
    BY <1>0, <1>3 DEF Initialize, At, Rows, DispatchStatuses
  <2>2. row' = [row EXCEPT ![a] = r] /\ UNCHANGED <<lifecycle, saved>>
    BY <1>3 DEF Initialize
  <2>3. Books(a) /\ row[a].sequence \in Nat /\ row[a].attempts \in Nat
    BY <1>0, <1>3 DEF Initialize, At
  <2>. HIDE DEF r
  <2>4. /\ r.attempts = 0 <=> r.status \in {"absent", "not_started"}
        /\ r.attempts > 0 => Planned(a)
        /\ r.sequence >= row[a].sequence /\ r.attempts >= row[a].attempts
    BY <1>0, <2>1, <2>2, <2>3 DEF Books
  <2>5. QED
    BY <1>0, <2>1, <2>2, <2>3, <2>4, RowOnward
<1>4. CASE EnsureDispatchPlan(c)
  <2>. DEFINE l == IF lifecycle[a] = "intent_recorded" THEN "prepared" ELSE lifecycle[a]
  <2>1. a \in Actions /\ l \in Stages \ {"absent"} /\ (Planned(a) => l # "intent_recorded")
        /\ (lifecycle[a] \in Underway => l \in Underway)
    BY <1>0, <1>4 DEF EnsureDispatchPlan, At, Books, Stages, Planned, Underway, Holds, Entering
  <2>2. lifecycle' = [lifecycle EXCEPT ![a] = l] /\ UNCHANGED <<row, saved>>
    BY <1>4 DEF EnsureDispatchPlan
  <2>. HIDE DEF l
  <2>3. QED
    BY <1>0, <2>1, <2>2, LifecycleOnward
<1>5. CASE ClaimDispatch(c) /\ Claimable(c)
  <2>. DEFINE n == row[a].attempts + 1
              r == [row[a] EXCEPT !.status = "claimed", !.attempts = n, !.token = n]
  <2>1. a \in Actions /\ Books(a) /\ row[a].attempts \in Nat /\ row[a].sequence \in Nat
    BY <1>0, <1>5 DEF ClaimDispatch, At
  <2>2. n \in 0..AttemptBudget
    BY <1>5, <2>1 DEF Claimable, AttemptBudget
  <2>3. /\ r \in Rows /\ r.attempts = n /\ r.sequence = row[a].sequence /\ r.status = "claimed"
    BY <1>0, <1>5, <2>2 DEF ClaimDispatch, At, Rows, DispatchStatuses
  <2>4. row' = [row EXCEPT ![a] = r] /\ UNCHANGED <<lifecycle, saved>>
    BY <1>5 DEF ClaimDispatch
  <2>5. Planned(a)
    <3>1. CASE job[c].op = "retry"
      BY <1>0, <1>5, <2>1, <3>1 DEF Claimable, Allowed, Books
    <3>2. CASE job[c].op # "retry"
      BY <1>0, <1>5, <3>2 DEF ClaimDispatch, At, Holds, Claiming
    <3>3. QED
      BY <3>1, <3>2
  <2>. HIDE DEF r
  <2>6. /\ r.attempts = 0 <=> r.status \in {"absent", "not_started"}
        /\ r.sequence >= row[a].sequence /\ r.attempts >= row[a].attempts
        /\ r.attempts # row[a].attempts
    BY <2>1, <2>3
  <2>7. QED
    BY <1>0, <2>1, <2>3, <2>4, <2>5, <2>6, RowOnward
<1>6. CASE CrossBoundary(c) /\ HoldsClaim(a, job[c].attempt)
  <2>1. /\ a \in Actions /\ row[a].status = "claimed"
        /\ FinishDispatch(a, "attempted") /\ UNCHANGED <<lifecycle, saved>>
    BY <1>0, <1>6 DEF CrossBoundary, At, HoldsClaim
  <2>2. QED
    BY <1>0, <2>1, FinishOnward
<1>7. CASE EnterDispatching(c)
  <2>. DEFINE l == IF lifecycle[a] = "prepared" THEN "dispatching" ELSE lifecycle[a]
  <2>1. a \in Actions /\ l \in Stages \ {"absent"} /\ (Planned(a) => l # "intent_recorded")
        /\ (lifecycle[a] \in Underway => l \in Underway)
    BY <1>0, <1>7 DEF EnterDispatching, At, Books, Stages, Planned, Underway, Holds
  <2>2. lifecycle' = [lifecycle EXCEPT ![a] = l] /\ UNCHANGED <<row, saved>>
    BY <1>7 DEF EnterDispatching
  <2>. HIDE DEF l
  <2>3. QED
    BY <1>0, <2>1, <2>2, LifecycleOnward
<1>8. CASE SetNotSent(c) /\ row[a].status = "attempted"
  <2>. DEFINE r == [row[a] EXCEPT !.status = "definitely_not_sent"]
  <2>1. a \in Actions /\ Books(a) /\ row[a].attempts \in Nat /\ row[a].sequence \in Nat
    BY <1>0, <1>8 DEF SetNotSent, At
  <2>2. /\ r \in Rows /\ r.attempts = row[a].attempts /\ r.sequence = row[a].sequence
        /\ r.status = "definitely_not_sent"
    BY <1>0, <1>8 DEF SetNotSent, At, Rows, DispatchStatuses
  <2>3. row' = [row EXCEPT ![a] = r] /\ UNCHANGED <<lifecycle, saved>>
    BY <1>8 DEF SetNotSent
  <2>. HIDE DEF r
  <2>4. /\ r.attempts = 0 <=> r.status \in {"absent", "not_started"}
        /\ r.attempts > 0 => Planned(a)
        /\ r.sequence >= row[a].sequence /\ r.attempts >= row[a].attempts
    BY <1>0, <1>8, <2>1, <2>2, <2>3 DEF Books
  <2>5. QED
    BY <1>0, <1>8, <2>1, <2>2, <2>3, <2>4, RowOnward
<1>9. CASE Normalize(c) /\ lifecycle[a] \in {"prepared", "dispatching"}
  <2>. DEFINE l == IF lifecycle[a] = "prepared" THEN "dispatching" ELSE "observing"
  <2>1. a \in Actions /\ l \in Stages \ {"absent"} /\ (Planned(a) => l # "intent_recorded")
        /\ (lifecycle[a] \in Underway => l \in Underway)
    BY <1>0, <1>9 DEF Normalize, At, Stages, Underway
  <2>2. lifecycle' = [lifecycle EXCEPT ![a] = l] /\ UNCHANGED <<row, saved>>
    BY <1>9 DEF Normalize
  <2>. HIDE DEF l
  <2>3. QED
    BY <1>0, <2>1, <2>2, LifecycleOnward
<1>10. CASE StealClaim(c) /\ HoldsClaim(a, job[c].attempt)
  <2>1. /\ a \in Actions /\ row[a].status = "claimed"
        /\ FinishDispatch(a, "definitely_not_sent") /\ UNCHANGED <<lifecycle, saved>>
    BY <1>0, <1>10 DEF StealClaim, At, HoldsClaim
  <2>2. QED
    BY <1>0, <2>1, FinishOnward
<1>11. CASE NextResolutionSequence(c)
  <2>. DEFINE r == [row[a] EXCEPT !.sequence = @ + 1]
  <2>1. a \in Actions /\ Books(a) /\ row[a].attempts \in Nat /\ row[a].sequence \in Nat
    BY <1>0, <1>11 DEF NextResolutionSequence, At
  <2>2. /\ r \in Rows /\ r.attempts = row[a].attempts /\ r.sequence = row[a].sequence + 1
        /\ r.status = row[a].status
    BY <1>0, <1>11 DEF NextResolutionSequence, At, Rows
  <2>3. row' = [row EXCEPT ![a] = r] /\ UNCHANGED <<lifecycle, saved>>
    BY <1>11 DEF NextResolutionSequence
  <2>. HIDE DEF r
  <2>4. /\ r.attempts = 0 <=> r.status \in {"absent", "not_started"}
        /\ r.attempts > 0 => Planned(a)
        /\ r.sequence >= row[a].sequence /\ r.attempts >= row[a].attempts
    BY <1>0, <2>1, <2>2, <2>3 DEF Books
  <2>5. QED
    BY <1>0, <2>1, <2>2, <2>3, <2>4, RowOnward
<1>12. CASE SaveResolution(c) /\ job[c].sequence > saved[a].sequence
  <2>. DEFINE s == [sequence |-> job[c].sequence, evidence |-> job[c].evidence,
                    outcome |-> job[c].outcome]
  <2>1. /\ a \in Actions /\ Books(a) /\ UNCHANGED <<lifecycle, row>>
        /\ saved' = [saved EXCEPT ![a] = s]
    BY <1>0, <1>12 DEF SaveResolution, At
  <2>2. saved'[a] = s /\ \A b \in Actions : b # a => saved'[b] = saved[b]
    BY <2>1 DEF TypeInv, StoreOK
  <2>3. /\ s.sequence = job[c].sequence /\ s.outcome = job[c].outcome
        /\ job[c].outcome \in Outcomes /\ job[c].sequence <= row[a].sequence
    BY <1>0, <1>12 DEF SaveResolution, At, Holds
  <2>. HIDE DEF s
  <2>4. \A b \in Actions : row[b].sequence \in Nat /\ row[b].attempts \in Nat
    BY DEF TypeInv, StoreOK, Rows
  <2>5. Onward
    BY <1>12, <2>1, <2>2, <2>3, <2>4 DEF Onward, Planned, FirstUnsent
  <2>6. \A b \in Actions : Books(b)'
    BY <1>0, <2>1, <2>2, <2>3 DEF Books, Planned
  <2>7. QED
    BY <2>5, <2>6
<1>13. CASE \E compensation \in {"claimed", "finished"} :
              /\ row' = [row EXCEPT ![a].compensation = compensation]
              /\ a \in Actions /\ UNCHANGED <<lifecycle, saved>>
  <2>1. PICK compensation \in {"claimed", "finished"} :
              /\ row' = [row EXCEPT ![a].compensation = compensation]
              /\ a \in Actions /\ UNCHANGED <<lifecycle, saved>>
    BY <1>13
  <2>. DEFINE r == [row[a] EXCEPT !.compensation = compensation]
  <2>2. Books(a) /\ row[a] \in Rows /\ row[a].attempts \in Nat /\ row[a].sequence \in Nat
    BY <1>0, <2>1 DEF TypeInv, StoreOK, Rows
  <2>3. /\ r \in Rows /\ r.attempts = row[a].attempts /\ r.sequence = row[a].sequence
        /\ r.status = row[a].status
    BY <2>2 DEF Rows
  <2>4. row' = [row EXCEPT ![a] = r]
    BY <2>1
  <2>. HIDE DEF r
  <2>5. /\ r.attempts = 0 <=> r.status \in {"absent", "not_started"}
        /\ r.attempts > 0 => Planned(a)
        /\ r.sequence >= row[a].sequence /\ r.attempts >= row[a].attempts
    BY <1>0, <2>1, <2>2, <2>3, <2>4 DEF Books
  <2>6. QED
    BY <1>0, <2>1, <2>2, <2>3, <2>4, <2>5, RowOnward
<1>14. ClaimCompensation(c) \/ FinishCompensation(c) =>
         \/ UNCHANGED <<lifecycle, row, saved>>
         \/ \E compensation \in {"claimed", "finished"} :
              /\ row' = [row EXCEPT ![a].compensation = compensation]
              /\ a \in Actions /\ UNCHANGED <<lifecycle, saved>>
  BY <1>0 DEF ClaimCompensation, FinishCompensation, At
<1>15. \/ RecordIntent(c) \/ Initialize(c) \/ EnsureDispatchPlan(c)
       \/ ClaimDispatch(c) /\ Claimable(c)
       \/ CrossBoundary(c) /\ HoldsClaim(a, job[c].attempt)
       \/ EnterDispatching(c)
       \/ SetNotSent(c) /\ row[a].status = "attempted"
       \/ Normalize(c) /\ lifecycle[a] \in {"prepared", "dispatching"}
       \/ StealClaim(c) /\ HoldsClaim(a, job[c].attempt)
       \/ NextResolutionSequence(c)
       \/ SaveResolution(c) /\ job[c].sequence > saved[a].sequence
       \/ ClaimCompensation(c) \/ FinishCompensation(c)
       \/ UNCHANGED <<lifecycle, row, saved>>
  BY DEF Step, Route, CheckSource, ClaimDispatch, Register, CrossBoundary, SendNothingToDo,
     Revalidate, SendStopped, Send, Respond, SendTimesOut, AnswerUnreadable, AppendReport,
     SetNotSent, RecordNotSent, RecordCaught, Normalize, Release, StealClaim, ListEvidence,
     Observe, ObserveFails, AppendObservation, Derive, FloorBoundary, SaveResolution,
     RequireCurrent, CheckRetry, CheckNotSent, Compensate, AppendUndone, store
<1>16. QED
  BY <1>1, <1>2, <1>3, <1>4, <1>5, <1>6, <1>7, <1>8, <1>9, <1>10, <1>11, <1>12, <1>13,
     <1>14, <1>15

-----------------------------------------------------------------------------
(* Where nothing is claimed of a caller.                                   *)
Loose == {"idle", "await", "rejected", "inflight", "report", "unsend", "unsent", "caught",
          "settle", "settled", "steal", "stolen", "normalize", "list", "observe", "append",
          "derive", "floor", "claim_undo", "undo", "report_undone", "finish_undo"}

(* Nothing is.                                                             *)
LEMMA LooseHolds ==
    ASSUME NEW j, j.pc \in Loose
    PROVE  Holds(j) /\ Holds(j)'
BY DEF Loose, Holds, Entering, Claiming, Retrying

(* What a caller recalls stays true of the store.                          *)
LEMMA RecallsStays ==
    ASSUME TypeInv, TypeInv', Onward, NEW j \in Jobs, NEW a \in Actions, Recalls(j, a)
    PROVE  /\ Recalls(j, a)'
           /\ j.sequence = saved'[a].sequence => saved'[a] = saved[a]
<1>1. j.sequence \in Nat /\ saved[a].sequence \in Nat /\ saved'[a].sequence \in Nat
  BY DEF Jobs, TypeInv, StoreOK
<1>2. QED
  BY <1>1 DEF Onward, Recalls

(* What is claimed of a caller stays true while others move.               *)
LEMMA Stays ==
    ASSUME TypeInv, TypeInv', Onward, NEW j \in Jobs, j.pc # "idle" => j.action \in Actions,
           Holds(j)
    PROVE  Holds(j)'
<1>1. CASE j.pc = "idle"
  BY <1>1, LooseHolds DEF Loose
<1>2. CASE j.pc # "idle"
  <2>. DEFINE a == j.action
  <2>1. /\ a \in Actions /\ row[a].sequence \in Nat /\ row'[a].sequence \in Nat
        /\ row[a].attempts \in Nat /\ row'[a].attempts \in Nat /\ j.sequence \in Nat
    BY <1>2 DEF TypeInv, StoreOK, Rows, Jobs
  <2>2. Entering(j)'
    BY <2>1 DEF Holds, Entering, Onward
  <2>3. RecallsOutcome(j) => RecallsOutcome(j)'
    BY <2>1, RecallsStays DEF RecallsOutcome
  <2>4. Claiming(j)'
    <3>1. ASSUME Source[a] # NoAction, Recalls(j, Source[a])
          PROVE  Recalls(j, Source[a])'
      BY <2>1, <3>1, SourceAssumption, RecallsStays
    <3>2. QED
      BY <2>1, <2>3, <3>1 DEF Holds, Claiming, Onward
  <2>5. QED
    BY <2>1, <2>2, <2>3, <2>4 DEF Holds, Onward
<1>3. QED
  BY <1>1, <1>2

(* So it is enough to look at the caller that moves,                       *)
LEMMA OneMoves ==
    ASSUME TypeInv, TypeInv', CurrencyInv, Onward, NEW c \in Callers,
           \A d \in Callers : d # c => job'[d] = job[d],
           Holds(job[c])'
    PROVE  \A d \in Callers : Holds(job[d])'
<1>. SUFFICES ASSUME NEW d \in Callers, d # c PROVE Holds(job[d])'
  OBVIOUS
<1>1. PICK j : j = job[d]
  OBVIOUS
<1>2. j \in Jobs /\ (j.pc # "idle" => j.action \in Actions) /\ Holds(j)
  BY <1>1 DEF TypeInv, JobsOK, CurrencyInv
<1>3. Holds(j)'
  BY <1>2, Stays
<1>4. QED
  BY <1>1, <1>3 DEF Holds, Entering, Claiming, RecallsOutcome, Recalls

(* ... or, when several do, that they move where nothing is claimed.       *)
LEMMA LooselyMoves ==
    ASSUME TypeInv, TypeInv', CurrencyInv, Onward,
           \A d \in Callers : job'[d] = job[d] \/ job'[d].pc \in Loose
    PROVE  \A d \in Callers : Holds(job[d])'
<1>. SUFFICES ASSUME NEW d \in Callers PROVE Holds(job[d])'
  OBVIOUS
<1>1. CASE job'[d] = job[d]
  <2>1. PICK j : j = job[d]
    OBVIOUS
  <2>2. j \in Jobs /\ (j.pc # "idle" => j.action \in Actions) /\ Holds(j)
    BY <2>1 DEF TypeInv, JobsOK, CurrencyInv
  <2>3. Holds(j)'
    BY <2>2, Stays
  <2>4. QED
    BY <1>1, <2>1, <2>3 DEF Holds, Entering, Claiming, RecallsOutcome, Recalls
<1>2. QED
  BY <1>1, LooseHolds

(* A caller that only goes on knows what it knew.                          *)
LEMMA GotoKeeps ==
    ASSUME TypeInv, NEW c \in Callers, NEW pc \in PCs, Goto(c, pc)
    PROVE  /\ job'[c].pc = pc
           /\ job'[c].op = job[c].op
           /\ job'[c].action = job[c].action
           /\ job'[c].want = job[c].want
           /\ job'[c].sequence = job[c].sequence
           /\ job'[c].evidence = job[c].evidence
           /\ job'[c].outcome = job[c].outcome
           /\ \A d \in Callers : d # c => job'[d] = job[d]
<1>1. job[c] \in Jobs /\ job'[c] = [job[c] EXCEPT !.pc = pc]
  BY BecomeFields DEF Goto, TypeInv, JobsOK
<1>2. QED
  BY <1>1, BecomeFields DEF Goto, Jobs

(* Returning, reconciling and reporting lead where nothing is claimed.     *)
LEMMA Leaves ==
    ASSUME TypeInv, NEW c \in Callers, ~At(c, "idle"),
           \/ Return(c) \/ Reconcile(c)
           \/ \E e, unsent : Reported(c, e, unsent)
           \/ \E pc \in Loose : Goto(c, pc)
    PROVE  /\ job'[c].pc \in Loose
           /\ \A d \in Callers : d # c => job'[d] = job[d]
<1>1. CASE Return(c)
  BY <1>1, IdleType, BecomeFields DEF Return, Loose
<1>2. CASE Reconcile(c)
  BY <1>2, ReconcilingType, BecomeFields DEF Reconcile, Loose, TypeInv, JobsOK, At
<1>3. CASE \E e, unsent : Reported(c, e, unsent)
  BY <1>3, ReportFields DEF Loose
<1>4. CASE \E pc \in Loose : Goto(c, pc)
  BY <1>4, GotoKeeps DEF Loose, PCs
<1>5. QED
  BY <1>1, <1>2, <1>3, <1>4

(* A retry that learns something keeps what it recalls.                    *)
LEMMA RetryKeeps ==
    ASSUME TypeInv, TypeInv', CurrencyInv, Onward, NEW c \in Callers,
           job[c].pc \in Retrying, job'[c].pc \in Retrying \ {"proof"},
           job'[c].op = job[c].op, job'[c].action = job[c].action,
           job'[c].sequence = job[c].sequence, job'[c].evidence = job[c].evidence,
           job'[c].outcome = job[c].outcome,
           \A d \in Callers : d # c => job'[d] = job[d]
    PROVE  \A d \in Callers : Holds(job[d])'
<1>1. PICK j : j = job[c]
  OBVIOUS
<1>2. j \in Jobs /\ j.action \in Actions /\ Holds(j)
  BY <1>1 DEF TypeInv, JobsOK, CurrencyInv, Retrying
<1>3. Holds(j)'
  BY <1>2, Stays
<1>4. Holds(job[c])'
  BY <1>1, <1>3 DEF Holds, Entering, Claiming, Retrying, RecallsOutcome, Recalls
<1>5. QED
  BY <1>4, OneMoves

(* What is claimed of callers survives the steps into the runtime and up   *)
(* to the claim.                                                           *)
LEMMA EntryHolds ==
    ASSUME TypeInv, TypeInv', CurrencyInv, Onward, NEW c \in Callers,
           \/ RecordIntent(c) \/ Initialize(c) \/ EnsureDispatchPlan(c)
           \/ Route(c) \/ CheckSource(c)
    PROVE  \A d \in Callers : Holds(job[d])'
<1>. DEFINE a == job[c].action
<1>0. /\ job[c] \in Jobs /\ Holds(job[c]) /\ ~At(c, "idle")
      /\ a \in Actions /\ lifecycle \in [Actions -> InternalStates]
      /\ row[a] \in Rows
  BY DEF TypeInv, JobsOK, StoreOK, CurrencyInv, At, RecordIntent, Initialize,
         EnsureDispatchPlan, Route, CheckSource
<1>1. CASE RecordIntent(c)
  <2>1. /\ job'[c].pc = "initialize" /\ job'[c].op = "commit" /\ job'[c].action = a
        /\ job'[c].want = job[c].want
        /\ \A d \in Callers : d # c => job'[d] = job[d]
    BY <1>0, <1>1, GotoKeeps DEF RecordIntent, PCs, At, Holds, Entering
  <2>2. lifecycle'[a] # "absent"
    BY <1>0, <1>1 DEF RecordIntent
  <2>3. Holds(job[c])'
    BY <1>0, <1>1, <2>1, <2>2 DEF RecordIntent, At, Holds, Entering, Claiming, Retrying
  <2>4. QED
    BY <2>1, <2>3, OneMoves
<1>2. CASE Initialize(c)
  <2>1. /\ job'[c].pc = "plan" /\ job'[c].op = job[c].op /\ job'[c].action = a
        /\ job'[c].want = job[c].want
        /\ \A d \in Callers : d # c => job'[d] = job[d]
    BY <1>2, GotoKeeps DEF Initialize, PCs
  <2>2. Holds(job[c])'
    BY <1>0, <1>2, <2>1 DEF Initialize, At, Holds, Entering, Claiming, Retrying
  <2>3. QED
    BY <2>1, <2>2, OneMoves
<1>3. CASE EnsureDispatchPlan(c)
  <2>1. /\ job'[c].pc = "route" /\ job'[c].op = job[c].op /\ job'[c].action = a
        /\ job'[c].want = job[c].want
        /\ \A d \in Callers : d # c => job'[d] = job[d]
    BY <1>3, GotoKeeps DEF EnsureDispatchPlan, PCs
  <2>2. lifecycle'[a] \notin {"absent", "intent_recorded"}
    BY <1>0, <1>3 DEF EnsureDispatchPlan, At, Holds, Entering
  <2>3. Holds(job[c])'
    BY <1>0, <1>3, <2>1, <2>2 DEF EnsureDispatchPlan, At, Holds, Entering, Claiming, Retrying, Planned
  <2>4. QED
    BY <2>1, <2>3, OneMoves
<1>4. CASE Route(c)
  <2>0. lifecycle'[a] \notin {"absent", "intent_recorded"}
    BY <1>0, <1>4 DEF Route, At, Holds, Entering, Planned, store
  <2>1. ASSUME NEW pc \in {"source", "claim"}, Goto(c, pc),
               pc = "source" => Guarded(c), pc = "claim" => ~Guarded(c)
        PROVE  \A d \in Callers : Holds(job[d])'
    <3>1. /\ job'[c].pc = pc /\ job'[c].op = job[c].op /\ job'[c].action = a
          /\ job'[c].want = job[c].want
          /\ \A d \in Callers : d # c => job'[d] = job[d]
      BY <2>1, GotoKeeps DEF PCs
    <3>2. Holds(job[c])'
      BY <1>0, <1>4, <2>0, <2>1, <3>1
         DEF Route, At, Holds, Entering, Claiming, Retrying, Guarded, Planned
    <3>3. QED
      BY <3>1, <3>2, OneMoves
  <2>2. ASSUME NEW pc \in {"await", "steal"}, NEW n,
               Become(c, [job[c] EXCEPT !.pc = pc, !.attempt = n])
        PROVE  \A d \in Callers : Holds(job[d])'
    <3>1. [job[c] EXCEPT !.pc = pc, !.attempt = n].pc = pc
      BY <1>0 DEF Jobs
    <3>2. job'[c].pc \in Loose /\ \A d \in Callers : d # c => job'[d] = job[d]
      BY <2>2, <3>1, BecomeFields DEF Loose
    <3>3. QED
      BY <3>2, LooselyMoves
  <2>3. CASE Reconcile(c)
    BY <1>0, <2>3, Leaves, LooselyMoves
  <2>4. QED
    BY <1>4, <2>1, <2>2, <2>3 DEF Route
<1>5. CASE CheckSource(c)
  <2>. DEFINE s == Source[a]
  <2>1. CASE Return(c)
    BY <1>0, <2>1, Leaves, LooselyMoves
  <2>2. CASE ~Return(c)
    <3>1. PICK j : /\ Become(c, j)
                   /\ j = [job[c] EXCEPT !.pc = "claim", !.sequence = saved[s].sequence,
                                         !.evidence = saved[s].evidence]
      BY <1>5, <2>2 DEF CheckSource
    <3>2. /\ j.pc = "claim" /\ j.op = "commit" /\ j.action = a
          /\ j.sequence = saved[s].sequence /\ j.evidence = saved[s].evidence
      BY <1>0, <1>5, <3>1 DEF CheckSource, At, Jobs, Holds, Entering
    <3>3. /\ s \in Actions /\ saved' = saved /\ saved[s].sequence = job[c].want
          /\ lifecycle'[a] \notin {"absent", "intent_recorded"}
      BY <1>0, <1>5, <2>2 DEF CheckSource, At, TypeInv, JobsOK, store, Holds, Entering, Planned
    <3>4. saved[s].sequence \in Nat /\ job[c].want > 0
      BY <1>0, <1>5, <3>3, NoActionAssumption
         DEF CheckSource, At, TypeInv, StoreOK, Holds, Entering
    <3>5. job'[c] = j /\ \A d \in Callers : d # c => job'[d] = job[d]
      BY <3>1, BecomeFields
    <3>6. Holds(job[c])'
      <4>1. /\ job'[c].pc = "claim" /\ job'[c].op = "commit" /\ job'[c].action = a
            /\ job'[c].sequence = saved'[s].sequence /\ job'[c].evidence = saved'[s].evidence
        BY <3>2, <3>3, <3>5
      <4>2. Recalls(job[c], s)' /\ job'[c].sequence > 0
        BY <3>3, <3>4, <4>1 DEF Recalls
      <4>3. Claiming(job[c])' /\ Entering(job[c])'
        BY <3>3, <4>1, <4>2 DEF Claiming, Entering, Planned
      <4>4. QED
        BY <4>1, <4>3 DEF Holds, Retrying
    <3>7. QED
      BY <3>5, <3>6, OneMoves
  <2>3. QED
    BY <2>1, <2>2
<1>6. QED
  BY <1>1, <1>2, <1>3, <1>4, <1>5

(* ... the claim and the dispatch,                                         *)
LEMMA OwnerHolds ==
    ASSUME TypeInv, TypeInv', CurrencyInv, Onward, \A a \in Actions : Books(a)',
           NEW c \in Callers,
           \/ ClaimDispatch(c) \/ Register(c) \/ CrossBoundary(c)
           \/ EnterDispatching(c) \/ Revalidate(c)
    PROVE  \A d \in Callers : Holds(job[d])'
<1>. DEFINE a == job[c].action
<1>0. /\ job[c] \in Jobs /\ Holds(job[c]) /\ ~At(c, "idle")
      /\ a \in Actions /\ lifecycle \in [Actions -> InternalStates] /\ Books(a)
      /\ row \in [Actions -> Rows]
  BY DEF TypeInv, JobsOK, StoreOK, CurrencyInv, At, ClaimDispatch, Register, CrossBoundary,
         EnterDispatching, Revalidate
<1>a. row[a].attempts \in Nat /\ row'[a].attempts \in Nat
  BY <1>0 DEF TypeInv, StoreOK, Rows
<1>1. CASE ClaimDispatch(c)
  <2>1. CASE Claimable(c)
    <3>1. PICK j : /\ Become(c, j)
                   /\ j = [Idle EXCEPT !.pc = "register", !.op = job[c].op, !.action = a,
                                       !.attempt = row[a].attempts + 1]
      BY <1>1, <2>1 DEF ClaimDispatch
    <3>2. j.pc = "register" /\ j.action = a
      BY <3>1, IdleType DEF Jobs
    <3>3. row'[a].attempts = row[a].attempts + 1
      <4>1. row' = [row EXCEPT ![a] = [@ EXCEPT !.status = "claimed",
                      !.attempts = row[a].attempts + 1, !.token = row[a].attempts + 1]]
        BY <1>1, <2>1 DEF ClaimDispatch
      <4>2. QED
        BY <1>0, <4>1 DEF Rows
    <3>4. job'[c] = j /\ \A d \in Callers : d # c => job'[d] = job[d]
      BY <3>1, BecomeFields
    <3>5. job'[c].pc = "register" /\ row'[job'[c].action].attempts > 0
      BY <1>0, <1>a, <3>2, <3>3, <3>4
    <3>6. Holds(job[c])'
      BY <3>5 DEF Holds, Entering, Claiming, Retrying
    <3>7. QED
      BY <3>4, <3>6, OneMoves
  <2>2. ASSUME NEW n, Become(c, [job[c] EXCEPT !.pc = "await", !.attempt = n])
        PROVE  \A d \in Callers : Holds(job[d])'
    <3>1. [job[c] EXCEPT !.pc = "await", !.attempt = n].pc = "await"
      BY <1>0 DEF Jobs
    <3>2. job'[c].pc \in Loose /\ \A d \in Callers : d # c => job'[d] = job[d]
      BY <2>2, <3>1, BecomeFields DEF Loose
    <3>3. QED
      BY <3>2, LooselyMoves
  <2>3. CASE Become(c, AfterLostClaim(c))
    BY <1>0, <2>3, Leaves, LooselyMoves DEF AfterLostClaim, Return, Reconcile
  <2>4. QED
    BY <1>1, <2>1, <2>2, <2>3 DEF ClaimDispatch
<1>2. CASE Register(c)
  <2>1. /\ job'[c].pc = "boundary" /\ job'[c].action = a
        /\ \A d \in Callers : d # c => job'[d] = job[d]
    BY <1>2, GotoKeeps DEF Register, PCs
  <2>2. row'[a].attempts > 0
    BY <1>0, <1>2 DEF Register, store, At, Holds
  <2>3. Holds(job[c])'
    BY <2>1, <2>2 DEF Holds, Entering, Claiming, Retrying
  <2>4. QED
    BY <2>1, <2>3, OneMoves
<1>3. CASE CrossBoundary(c)
  <2>1. CASE Goto(c, "rejected")
    BY <1>0, <2>1, Leaves, LooselyMoves DEF Loose
  <2>2. CASE Goto(c, "dispatching")
    <3>1. /\ job'[c].pc = "dispatching" /\ job'[c].action = a
          /\ \A d \in Callers : d # c => job'[d] = job[d]
      BY <2>2, GotoKeeps DEF PCs
    <3>2. row'[a].attempts > 0
      BY <1>0, <1>a, <1>3 DEF CrossBoundary, At, Holds, Onward
    <3>3. Holds(job[c])'
      BY <3>1, <3>2 DEF Holds, Entering, Claiming, Retrying
    <3>4. QED
      BY <3>1, <3>3, OneMoves
  <2>3. QED
    BY <1>3, <2>1, <2>2 DEF CrossBoundary
<1>4. CASE EnterDispatching(c)
  <2>1. /\ job'[c].pc = "send" /\ job'[c].action = a
        /\ \A d \in Callers : d # c => job'[d] = job[d]
    BY <1>4, GotoKeeps DEF EnterDispatching, PCs
  <2>2. lifecycle'[a] \in Underway
    BY <1>0, <1>4 DEF EnterDispatching, At, Holds, Books, Planned, Stages, Underway
  <2>3. Holds(job[c])'
    BY <2>1, <2>2 DEF Holds, Entering, Claiming, Retrying
  <2>4. QED
    BY <2>1, <2>3, OneMoves
<1>5. CASE Revalidate(c)
  <2>1. /\ job'[c].pc = "write" /\ job'[c].action = a
        /\ \A d \in Callers : d # c => job'[d] = job[d]
    BY <1>5, GotoKeeps DEF Revalidate, PCs
  <2>2. lifecycle'[a] \in Underway
    BY <1>0, <1>5 DEF Revalidate, At, Holds, store
  <2>3. Holds(job[c])'
    BY <2>1, <2>2 DEF Holds, Entering, Claiming, Retrying
  <2>4. QED
    BY <2>1, <2>3, OneMoves
<1>6. QED
  BY <1>1, <1>2, <1>3, <1>4, <1>5

(* ... what a retry does before the claim,                                 *)
LEMMA RetryHolds ==
    ASSUME TypeInv, TypeInv', CurrencyInv, Onward, NEW c \in Callers,
           \/ ListEvidence(c) \/ Observe(c) \/ ObserveFails(c) \/ AppendObservation(c)
           \/ RequireCurrent(c) \/ CheckRetry(c) \/ CheckNotSent(c)
    PROVE  \A d \in Callers : Holds(job[d])'
<1>. DEFINE a == job[c].action
<1>0. job[c] \in Jobs /\ Holds(job[c]) /\ ~At(c, "idle") /\ a \in Actions
  BY DEF TypeInv, JobsOK, CurrencyInv, At, ListEvidence, Observe, ObserveFails,
         AppendObservation, RequireCurrent, CheckRetry, CheckNotSent
<1>1. ASSUME NEW pc \in Loose \union (Retrying \ {"proof"}), NEW prior, NEW report,
             pc \in Loose \/ job[c].pc \in Retrying,
             Become(c, [job[c] EXCEPT !.pc = pc, !.prior = prior, !.report = report])
      PROVE  \A d \in Callers : Holds(job[d])'
  <2>1. PICK j : Become(c, j) /\ j = [job[c] EXCEPT !.pc = pc, !.prior = prior, !.report = report]
    BY <1>1
  <2>2. /\ j.pc = pc /\ j.op = job[c].op /\ j.action = a /\ j.sequence = job[c].sequence
        /\ j.evidence = job[c].evidence /\ j.outcome = job[c].outcome
    BY <1>0, <2>1 DEF Jobs
  <2>3. job'[c] = j /\ \A d \in Callers : d # c => job'[d] = job[d]
    BY <2>1, BecomeFields
  <2>4. CASE pc \in Loose
    BY <2>2, <2>3, <2>4, LooselyMoves
  <2>5. CASE pc \notin Loose
    BY <1>1, <2>2, <2>3, <2>5, RetryKeeps
  <2>6. QED
    BY <2>4, <2>5
<1>3. CASE ListEvidence(c)
  <2>. DEFINE pc == IF At(c, "list") THEN "observe" ELSE "reobserve"
  <2>1. Become(c, [job[c] EXCEPT !.pc = pc, !.prior = Len(ledger[a])])
    BY <1>3 DEF ListEvidence, At
  <2>2. [job[c] EXCEPT !.pc = pc, !.prior = Len(ledger[a])]
          = [job[c] EXCEPT !.pc = pc, !.prior = Len(ledger[a]), !.report = job[c].report]
    BY <1>0 DEF Jobs
  <2>3. pc \in Loose \union (Retrying \ {"proof"}) /\ (pc \in Loose \/ job[c].pc \in Retrying)
    BY <1>3 DEF ListEvidence, At, Loose, Retrying
  <2>. HIDE DEF pc
  <2>4. QED
    BY <1>1, <2>1, <2>2, <2>3
<1>4. ASSUME At(c, "observe") \/ At(c, "reobserve"), NEW report,
             Become(c, [job[c] EXCEPT !.pc = IF @ = "observe" THEN "append" ELSE "reappend",
                                      !.report = report])
      PROVE  \A d \in Callers : Holds(job[d])'
  <2>. DEFINE pc == IF At(c, "observe") THEN "append" ELSE "reappend"
  <2>1. Become(c, [job[c] EXCEPT !.pc = pc, !.report = report])
    BY <1>4 DEF At
  <2>2. [job[c] EXCEPT !.pc = pc, !.report = report]
          = [job[c] EXCEPT !.pc = pc, !.prior = job[c].prior, !.report = report]
    BY <1>0 DEF Jobs
  <2>3. pc \in Loose \union (Retrying \ {"proof"}) /\ (pc \in Loose \/ job[c].pc \in Retrying)
    BY <1>4 DEF At, Loose, Retrying
  <2>. HIDE DEF pc
  <2>4. QED
    BY <1>1, <2>1, <2>2, <2>3
<1>5. CASE Observe(c)
  BY <1>4, <1>5 DEF Observe
<1>6. CASE ObserveFails(c)
  BY <1>0, <1>4, <1>6, Leaves, LooselyMoves DEF ObserveFails
<1>7. CASE AppendObservation(c)
  <2>. DEFINE pc == IF At(c, "append") THEN "derive" ELSE "recheck"
  <2>1. Become(c, [job[c] EXCEPT !.pc = pc, !.prior = 0])
    BY <1>7 DEF AppendObservation, At
  <2>2. [job[c] EXCEPT !.pc = pc, !.prior = 0]
          = [job[c] EXCEPT !.pc = pc, !.prior = 0, !.report = job[c].report]
    BY <1>0 DEF Jobs
  <2>3. pc \in Loose \union (Retrying \ {"proof"}) /\ (pc \in Loose \/ job[c].pc \in Retrying)
    BY <1>7 DEF AppendObservation, At, Loose, Retrying
  <2>. HIDE DEF pc
  <2>4. QED
    BY <1>1, <2>1, <2>2, <2>3
<1>8. CASE RequireCurrent(c)
  <2>1. CASE Return(c)
    BY <1>0, <2>1, Leaves, LooselyMoves
  <2>2. CASE ~Return(c)
    <3>1. PICK j : /\ Become(c, j)
                   /\ j = [job[c] EXCEPT !.pc = "relist", !.sequence = saved[a].sequence,
                                         !.evidence = saved[a].evidence,
                                         !.outcome = saved[a].outcome]
      BY <1>8, <2>2 DEF RequireCurrent
    <3>2. /\ j.pc = "relist" /\ j.op = "retry" /\ j.action = a
          /\ j.sequence = saved[a].sequence /\ j.evidence = saved[a].evidence
          /\ j.outcome = saved[a].outcome
      BY <1>0, <1>8, <3>1 DEF RequireCurrent, At, Jobs, Holds
    <3>3. saved' = saved /\ saved[a].sequence \in Nat
      BY <1>0, <1>8 DEF RequireCurrent, store, TypeInv, StoreOK
    <3>4. job'[c] = j /\ \A d \in Callers : d # c => job'[d] = job[d]
      BY <3>1, BecomeFields
    <3>5. Holds(job[c])'
      BY <3>2, <3>3, <3>4 DEF Holds, Entering, Claiming, Retrying, RecallsOutcome, Recalls
    <3>6. QED
      BY <3>4, <3>5, OneMoves
  <2>3. QED
    BY <2>1, <2>2
<1>9. PICK k : k = job[c]
  OBVIOUS
<1>10. Holds(k)'
  BY <1>0, <1>9, Stays
<1>11. CASE CheckRetry(c)
  <2>1. CASE Become(c, [Reconciling(a) EXCEPT !.pc = "derive"])
    <3>1. [Reconciling(a) EXCEPT !.pc = "derive"].pc = "derive"
      BY <1>0, ReconcilingType DEF Jobs
    <3>2. job'[c].pc \in Loose /\ \A d \in Callers : d # c => job'[d] = job[d]
      BY <2>1, <3>1, BecomeFields DEF Loose
    <3>3. QED
      BY <3>2, LooselyMoves
  <2>2. ASSUME NEW pc \in {"proof", "claim"}, Goto(c, pc), AuthorizesRetry(job[c].outcome),
               pc = "claim" => Idempotent
        PROVE  \A d \in Callers : Holds(job[d])'
    <3>1. /\ job'[c].pc = pc /\ job'[c].op = "retry" /\ job'[c].action = a
          /\ job'[c].sequence = job[c].sequence /\ job'[c].evidence = job[c].evidence
          /\ job'[c].outcome = job[c].outcome
          /\ \A d \in Callers : d # c => job'[d] = job[d]
      BY <1>0, <1>11, <2>2, GotoKeeps DEF PCs, CheckRetry, At, Holds, Retrying
    <3>2. RecallsOutcome(job[c])'
      BY <1>9, <1>10, <1>11, <3>1 DEF CheckRetry, At, Holds, Retrying, RecallsOutcome, Recalls
    <3>3. Holds(job[c])'
      BY <2>2, <3>1, <3>2 DEF Holds, Entering, Claiming, Retrying
    <3>4. QED
      BY <3>1, <3>3, OneMoves
  <2>3. CASE Return(c)
    BY <1>0, <2>3, Leaves, LooselyMoves
  <2>4. QED
    BY <1>11, <2>1, <2>2, <2>3 DEF CheckRetry
<1>12. CASE CheckNotSent(c)
  <2>1. CASE Return(c)
    BY <1>0, <2>1, Leaves, LooselyMoves
  <2>2. CASE ~Return(c)
    <3>1. /\ job'[c].pc = "claim" /\ job'[c].op = "retry" /\ job'[c].action = a
          /\ job'[c].sequence = job[c].sequence /\ job'[c].evidence = job[c].evidence
          /\ job'[c].outcome = job[c].outcome
          /\ \A d \in Callers : d # c => job'[d] = job[d]
      BY <1>0, <1>12, <2>2, GotoKeeps DEF PCs, CheckNotSent, At, Holds, Retrying
    <3>2. RecallsOutcome(job[c])' /\ AuthorizesRetry(job'[c].outcome)
      BY <1>9, <1>10, <1>12, <3>1
         DEF CheckNotSent, At, Holds, Retrying, RecallsOutcome, Recalls
    <3>3. row'[a] = row[a] /\ row[a].status = "definitely_not_sent" /\ row[a].attempts > 0
      <4>1. Books(a) /\ row[a].attempts \in Nat /\ row[a].status = "definitely_not_sent"
        BY <1>0, <1>12, <2>2 DEF CheckNotSent, CurrencyInv, TypeInv, StoreOK, Rows
      <4>2. row' = row
        BY <1>12 DEF CheckNotSent, store
      <4>3. QED
        BY <4>1, <4>2 DEF Books
    <3>4. Holds(job[c])'
      BY <3>1, <3>2, <3>3 DEF Holds, Entering, Claiming, Retrying, FirstUnsent
    <3>5. QED
      BY <3>1, <3>4, OneMoves
  <2>3. QED
    BY <2>1, <2>2
<1>13. QED
  BY <1>3, <1>5, <1>6, <1>7, <1>8, <1>11, <1>12

(* ... what a resolution is derived, numbered and saved by,                *)
LEMMA ResolveHolds ==
    ASSUME TypeInv, TypeInv', CurrencyInv, Onward, NEW c \in Callers,
           Derive(c) \/ FloorBoundary(c) \/ NextResolutionSequence(c) \/ SaveResolution(c)
    PROVE  \A d \in Callers : Holds(job[d])'
<1>. DEFINE a == job[c].action
<1>0. /\ job[c] \in Jobs /\ Holds(job[c]) /\ ~At(c, "idle")
      /\ a \in Actions /\ row \in [Actions -> Rows]
      /\ job[c].pc = "floor" => job[c].outcome \in Outcomes
  BY DEF TypeInv, JobsOK, StoreOK, CurrencyInv, At, Derive, FloorBoundary,
         NextResolutionSequence, SaveResolution
<1>1. CASE Derive(c)
  <2>1. PICK j : /\ Become(c, j)
                 /\ j = [job[c] EXCEPT !.pc = "floor", !.outcome = Outcome(ledger[a]),
                                       !.evidence = Len(ledger[a]), !.report = NoReport]
    BY <1>1 DEF Derive
  <2>2. j.pc = "floor"
    BY <1>0, <2>1 DEF Jobs
  <2>3. job'[c].pc \in Loose /\ \A d \in Callers : d # c => job'[d] = job[d]
    BY <2>1, <2>2, BecomeFields DEF Loose
  <2>4. QED
    BY <2>3, LooselyMoves
<1>2. CASE FloorBoundary(c)
  <2>. DEFINE d == ApplyDispatchBoundaryFloor(job[c].outcome.decision, row[a].status,
                                              Idempotent, row[a].attempts)
              floored == [job[c].outcome EXCEPT !.decision = d]
  <2>1. job[c].outcome \in Outcomes
    BY <1>0, <1>2 DEF FloorBoundary, At
  <2>2. d \in ControlDecision
    BY <2>1, BoundaryFloorType DEF Outcomes
  <2>. HIDE DEF d
  <2>3. floored \in Outcomes
    BY <2>1, <2>2 DEF Outcomes
  <2>4. Become(c, [job[c] EXCEPT !.pc = "sequence", !.outcome = floored])
    BY <1>0, <1>2 DEF FloorBoundary, d
  <2>. HIDE DEF floored
  <2>5. PICK j : Become(c, j) /\ j = [job[c] EXCEPT !.pc = "sequence", !.outcome = floored]
    BY <2>4
  <2>6. j.pc = "sequence" /\ j.outcome = floored
    BY <1>0, <2>5 DEF Jobs
  <2>7. job'[c] = j /\ \A e \in Callers : e # c => job'[e] = job[e]
    BY <2>5, BecomeFields
  <2>8. Holds(job[c])'
    BY <2>3, <2>6, <2>7 DEF Holds, Entering, Claiming, Retrying
  <2>9. QED
    BY <2>7, <2>8, OneMoves
<1>3. CASE NextResolutionSequence(c)
  <2>1. PICK j : /\ Become(c, j)
                 /\ j = [job[c] EXCEPT !.pc = "save", !.sequence = row[a].sequence + 1]
    BY <1>3 DEF NextResolutionSequence
  <2>2. /\ j.pc = "save" /\ j.action = a /\ j.outcome = job[c].outcome
        /\ j.sequence = row[a].sequence + 1
    BY <1>0, <2>1 DEF Jobs
  <2>3. row[a].sequence \in Nat /\ row'[a].sequence = row[a].sequence + 1
    <3>. DEFINE r == [row[a] EXCEPT !.sequence = @ + 1]
    <3>1. row[a].sequence \in Nat /\ r.sequence = row[a].sequence + 1
      BY <1>0 DEF Rows
    <3>2. row' = [row EXCEPT ![a] = r]
      BY <1>3 DEF NextResolutionSequence
    <3>. HIDE DEF r
    <3>3. QED
      BY <1>0, <3>1, <3>2
  <2>4. job[c].outcome \in Outcomes
    BY <1>0, <1>3 DEF NextResolutionSequence, At, Holds
  <2>5. job'[c] = j /\ \A d \in Callers : d # c => job'[d] = job[d]
    BY <2>1, BecomeFields
  <2>6. /\ 0 < job'[c].sequence /\ job'[c].sequence <= row'[job'[c].action].sequence
        /\ job'[c].pc = "save" /\ job'[c].outcome \in Outcomes
    BY <2>2, <2>3, <2>4, <2>5
  <2>7. Holds(job[c])'
    BY <2>6 DEF Holds, Entering, Claiming, Retrying
  <2>8. QED
    BY <2>5, <2>7, OneMoves
<1>4. CASE SaveResolution(c)
  BY <1>0, <1>4, Leaves, LooselyMoves DEF SaveResolution
<1>5. QED
  BY <1>1, <1>2, <1>3, <1>4

(* ... and every step into a place where nothing is claimed.               *)
LEMMA LooseStepHolds ==
    ASSUME TypeInv, TypeInv', CurrencyInv, Onward, NEW c \in Callers,
           \/ SendNothingToDo(c) \/ SendStopped(c) \/ Send(c)
           \/ Respond(c) \/ SendTimesOut(c) \/ AnswerUnreadable(c)
           \/ AppendReport(c) \/ SetNotSent(c) \/ RecordNotSent(c) \/ RecordCaught(c)
           \/ Normalize(c) \/ Release(c) \/ StealClaim(c)
           \/ ClaimCompensation(c) \/ Compensate(c) \/ AppendUndone(c)
           \/ FinishCompensation(c)
    PROVE  \A d \in Callers : Holds(job[d])'
<1>0. ~At(c, "idle") /\ job[c] \in Jobs
  BY DEF At, TypeInv, JobsOK, SendNothingToDo, SendStopped, Send, Respond, SendTimesOut,
         AnswerUnreadable, AppendReport, SetNotSent, RecordNotSent, RecordCaught, Normalize,
         Release, StealClaim, ClaimCompensation, Compensate, AppendUndone, FinishCompensation
<1>1. CASE \E e, unsent : Reported(c, e, unsent)
  BY <1>0, <1>1, Leaves, LooselyMoves
<1>2. CASE \/ SendNothingToDo(c) \/ SendStopped(c) \/ Respond(c)
           \/ SendTimesOut(c) \/ AnswerUnreadable(c)
  BY <1>1, <1>2 DEF SendNothingToDo, SendStopped, Respond, SendTimesOut, AnswerUnreadable
<1>3. CASE Return(c) \/ Reconcile(c) \/ \E pc \in Loose : Goto(c, pc)
  BY <1>0, <1>3, Leaves, LooselyMoves
<1>4. CASE Send(c) \/ SetNotSent(c) \/ RecordCaught(c) \/ AppendUndone(c)
  BY <1>3, <1>4 DEF Send, SetNotSent, RecordCaught, AppendUndone, Loose
<1>5. CASE \/ RecordNotSent(c) \/ StealClaim(c) \/ ClaimCompensation(c)
           \/ Compensate(c) \/ FinishCompensation(c)
  BY <1>3, <1>5
     DEF RecordNotSent, StealClaim, ClaimCompensation, Compensate, FinishCompensation, Loose
<1>6. CASE AppendReport(c)
  <2>. DEFINE pc == IF job[c].unsent THEN "unsend" ELSE "settle"
  <2>1. PICK j : Become(c, j) /\ j = [job[c] EXCEPT !.pc = pc, !.report = NoReport]
    BY <1>6 DEF AppendReport
  <2>2. j.pc = pc /\ pc \in Loose
    BY <1>0, <2>1 DEF Jobs, Loose
  <2>. HIDE DEF pc
  <2>3. job'[c].pc \in Loose /\ \A d \in Callers : d # c => job'[d] = job[d]
    BY <2>1, <2>2, BecomeFields
  <2>4. QED
    BY <2>3, LooselyMoves
<1>7. CASE Normalize(c)
  <2>1. CASE UNCHANGED job
    BY <2>1, LooselyMoves
  <2>2. QED
    BY <1>3, <1>7, <2>1 DEF Normalize, Loose
<1>8. CASE Release(c)
  <2>1. ASSUME NEW d \in Callers
        PROVE  \/ job'[d] = job[d] \/ job'[d] = Idle
               \/ job'[d] = Reconciling(job[d].action) /\ job[d].action \in Actions
    <3>1. job[d].pc # "idle" => job[d].action \in Actions
      BY DEF TypeInv, JobsOK
    <3>2. QED
      BY <1>8, <3>1 DEF Release, AfterLostClaim, Awaiting, At
  <2>2. \A d \in Callers : job'[d] = job[d] \/ job'[d].pc \in Loose
    BY <2>1, IdleType, ReconcilingType DEF Loose
  <2>3. QED
    BY <2>2, LooselyMoves
<1>9. QED
  BY <1>2, <1>4, <1>5, <1>6, <1>7, <1>8

-----------------------------------------------------------------------------
(* The invariant holds after every step of a caller,                       *)
LEMMA CurrencyStep ==
    ASSUME TypeInv, TypeInv', CurrencyInv, NEW c \in Callers, Step(c)
    PROVE  CurrencyInv'
<1>1. Onward /\ \A b \in Actions : Books(b)'
  BY StepOnward
<1>2. \A d \in Callers : Holds(job[d])'
  BY <1>1, EntryHolds, OwnerHolds, RetryHolds, ResolveHolds, LooseStepHolds DEF Step
<1>3. QED
  BY <1>1, <1>2 DEF CurrencyInv

(* ... after a call, which finds what it needs,                            *)
LEMMA CurrencyCall ==
    ASSUME TypeInv, TypeInv', CurrencyInv, NEW c \in Callers, NEW op \in Operations,
           NEW a \in Actions, Call(c, op, a)
    PROVE  CurrencyInv'
<1>1. Onward /\ \A b \in Actions : Books(b)'
  BY StillOnward DEF Call, store, CurrencyInv
<1>2. PICK j : /\ Become(c, j)
               /\ j = [Idle EXCEPT !.op = op, !.action = a,
                      !.pc = CASE op = "commit"     -> "intent"
                               [] op = "recover"    -> "initialize"
                               [] op = "reconcile"  -> "normalize"
                               [] op = "retry"      -> "current"
                               [] op = "compensate" -> "claim_undo",
                      !.want = IF op = "retry" THEN saved[a].sequence
                               ELSE IF op = "commit" /\ Source[a] # NoAction
                               THEN saved[Source[a]].sequence ELSE 0]
  BY DEF Call
<1>3. /\ j.op = op /\ j.action = a
      /\ op = "commit" /\ Source[a] # NoAction => j.want = saved[Source[a]].sequence
      /\ \/ op = "commit" /\ j.pc = "intent"
         \/ op = "recover" /\ j.pc = "initialize"
         \/ op = "retry" /\ j.pc = "current"
         \/ j.pc \in Loose
  BY <1>2, IdleType DEF Jobs, Operations, Loose
<1>4. /\ op = "recover" => lifecycle'[a] # "absent" /\ <<"recover", a>> \in Commands
      /\ op = "commit" /\ Source[a] # NoAction => saved[Source[a]].sequence > 0
  BY DEF Call, store
<1>5. job'[c] = j /\ \A d \in Callers : d # c => job'[d] = job[d]
  BY <1>2, BecomeFields
<1>6. CASE j.pc \in Loose
  BY <1>1, <1>5, <1>6, LooselyMoves DEF CurrencyInv
<1>7. CASE j.pc \notin Loose
  <2>1. Holds(job[c])'
    BY <1>3, <1>4, <1>5, <1>7 DEF Holds, Entering, Claiming, Retrying
  <2>2. QED
    BY <1>1, <1>5, <2>1, OneMoves DEF CurrencyInv
<1>8. QED
  BY <1>6, <1>7

(* ... and whatever processes and the provider do.                         *)
LEMMA CurrencyEnvironment ==
    ASSUME TypeInv, TypeInv', CurrencyInv, Environment
    PROVE  CurrencyInv'
<1>1. UNCHANGED <<lifecycle, row, saved>>
  BY DEF Environment, Crash, Land, Drop, WindowElapses, ExternalChange, store
<1>2. Onward /\ \A b \in Actions : Books(b)'
  BY <1>1, StillOnward DEF CurrencyInv
<1>3. \A d \in Callers : job'[d] = job[d] \/ job'[d].pc \in Loose
  BY IdleType DEF Environment, Crash, Land, Drop, WindowElapses, ExternalChange, process, Loose
<1>4. QED
  BY <1>2, <1>3, LooselyMoves DEF CurrencyInv

(* It holds at the start,                                                  *)
LEMMA CurrencyInit == Init => CurrencyInv
<1>. SUFFICES ASSUME Init PROVE CurrencyInv
  OBVIOUS
<1>1. \A a \in Actions : Books(a)
  BY DEF Init, Books, Stages, NoRow
<1>2. \A c \in Callers : Holds(job[c])
  BY IdleType, LooseHolds DEF Init, Loose
<1>3. QED
  BY <1>1, <1>2 DEF CurrencyInv

(* ... and after every step, so in every reachable state.                  *)
LEMMA CurrencyNext ==
    ASSUME TypeInv, TypeInv', CurrencyInv, [Next]_vars
    PROVE  CurrencyInv'
<1>1. CASE Next
  BY <1>1, CurrencyStep, CurrencyCall, CurrencyEnvironment DEF Next
<1>2. CASE UNCHANGED vars
  <2>1. UNCHANGED <<lifecycle, row, saved, job>>
    BY <1>2 DEF vars
  <2>2. Onward /\ \A b \in Actions : Books(b)'
    BY <2>1, StillOnward DEF CurrencyInv
  <2>3. QED
    BY <2>1, <2>2, LooselyMoves DEF CurrencyInv
<1>3. QED
  BY <1>1, <1>2

(* No assumption about the provider is needed.                             *)
LEMMA CurrencyInvariant == Spec => [](TypeInv /\ CurrencyInv)
<1>1. Init => TypeInv /\ CurrencyInv
  BY TypeInit, CurrencyInit
<1>2. (TypeInv /\ CurrencyInv) /\ [Next]_vars => (TypeInv /\ CurrencyInv)'
  BY TypeNext, CurrencyNext
<1>3. QED
  BY <1>1, <1>2, PTL DEF Spec

(* No await, crash or overtaken caller takes anything back: a resolution   *)
(* is replaced by one of a higher number alone, numbers and attempts never *)
(* decrease, what was planned stays planned and a lifecycle that reached   *)
(* dispatching or observing leaves them no more, and a first attempt known *)
(* unsent stays known (saveResolution and the conditional row writes of    *)
(* memoryStore.ts).  Either provider, no assumption.                       *)
THEOREM OnwardTheorem == Spec => [][Onward]_vars
<1>1. ASSUME TypeInv, CurrencyInv, [Next]_vars PROVE [Onward]_vars
  <2>1. ASSUME NEW c \in Callers, NEW op \in Operations, NEW a \in Actions, Call(c, op, a)
        PROVE  Onward
    BY <1>1, <2>1, StillOnward DEF Call, store, CurrencyInv
  <2>2. CASE Environment
    <3>1. UNCHANGED <<lifecycle, row, saved>>
      BY <2>2 DEF Environment, Crash, Land, Drop, WindowElapses, ExternalChange, store
    <3>2. QED
      BY <1>1, <3>1, StillOnward DEF CurrencyInv
  <2>3. QED
    BY <1>1, <2>1, <2>2, StepOnward DEF Next
<1>2. QED
  BY <1>1, CurrencyInvariant, PTL DEF Spec

-----------------------------------------------------------------------------
(* The number of attempts changes by a claim alone.                        *)
LEMMA OnlyClaimsClaim ==
    ASSUME TypeInv, Next, NEW a \in Actions, Claims(a)
    PROVE  \E c \in Callers : ClaimDispatch(c) /\ Claimable(c) /\ job[c].action = a
<1>1. row \in [Actions -> Rows] /\ row[a] \in Rows /\ row' # row
  BY DEF TypeInv, StoreOK, Claims
<1>2. PICK c \in Callers : Step(c)
  BY <1>1 DEF Next, Call, Environment, Crash, Land, Drop, WindowElapses, ExternalChange, store
<1>. DEFINE b == job[c].action
<1>3. CASE ClaimDispatch(c)
  <2>1. Claimable(c)
    BY <1>1, <1>3 DEF ClaimDispatch
  <2>2. b = a
    BY <1>1, <1>3, <2>1 DEF ClaimDispatch, Claims
  <2>3. QED
    BY <1>3, <2>1, <2>2
<1>4. CASE ~ClaimDispatch(c)
  <2>1. ASSUME NEW x, \/ row' = [row EXCEPT ![b].status = x]
                      \/ row' = [row EXCEPT ![b].status = x, ![b].token = 0]
                      \/ row' = [row EXCEPT ![b].compensation = x]
                      \/ row' = [row EXCEPT ![b].sequence = x]
        PROVE  FALSE
    BY <1>1, <2>1 DEF Claims, Rows
  <2>2. CASE \/ Initialize(c) \/ SetNotSent(c) \/ CrossBoundary(c) \/ StealClaim(c)
    BY <1>1, <2>1, <2>2 DEF Initialize, SetNotSent, CrossBoundary, StealClaim, FinishDispatch
  <2>3. CASE ClaimCompensation(c) \/ FinishCompensation(c) \/ NextResolutionSequence(c)
    BY <1>1, <2>1, <2>3 DEF ClaimCompensation, FinishCompensation, NextResolutionSequence
  <2>4. CASE UNCHANGED row
    BY <1>1, <2>4
  <2>5. QED
    BY <1>2, <1>4, <2>2, <2>3, <2>4
       DEF Step, RecordIntent, EnsureDispatchPlan, Route, CheckSource, Register,
           EnterDispatching, SendNothingToDo, Revalidate, SendStopped, Send, Respond,
           SendTimesOut, AnswerUnreadable, AppendReport, RecordNotSent, RecordCaught,
           Normalize, Release, ListEvidence, Observe, ObserveFails, AppendObservation,
           Derive, FloorBoundary, SaveResolution, RequireCurrent, CheckRetry, CheckNotSent,
           Compensate, AppendUndone, store
<1>5. QED
  BY <1>3, <1>4

(* A retry claims on a resolution that, at that instant, is the latest one *)
(* of its action, is drawn from the whole ledger and authorises it, and    *)
(* without idempotency on a boundary proven not crossed, although it read  *)
(* all of that in earlier awaits (memoryStore.ts 311-320).                 *)
THEOREM RetryCurrencyTheorem == Spec => RetryClaimIsCurrent
<1>1. ASSUME TypeInv, CurrencyInv, Next, NEW a \in Actions, Claims(a)
      PROVE  /\ Planned(a)
             /\ row[a].attempts > 0 =>
                  /\ saved[a].sequence = row[a].sequence
                  /\ saved[a].evidence = Len(ledger[a])
                  /\ AuthorizesRetry(saved[a].outcome)
                  /\ ~Idempotent => row[a].status = "definitely_not_sent"
  <2>1. PICK c \in Callers : /\ ClaimDispatch(c) /\ Claimable(c) /\ job[c].action = a
    BY <1>1, OnlyClaimsClaim
  <2>2. /\ Books(a) /\ Holds(job[c]) /\ job[c].pc = "claim" /\ row[a].attempts \in Nat
        /\ job[c].sequence \in Nat /\ saved[a].sequence \in Nat
        /\ row[a].sequence \in Nat
    BY <1>1, <2>1 DEF CurrencyInv, ClaimDispatch, At, TypeInv, StoreOK, JobsOK, Rows, Jobs
  <2>3. CASE job[c].op = "retry"
    <3>1. /\ RecallsOutcome(job[c]) /\ AuthorizesRetry(job[c].outcome)
          /\ ~Idempotent => FirstUnsent(a)
      BY <2>1, <2>2, <2>3 DEF Holds, Claiming
    <3>2. /\ row[a].status \in {"definitely_not_sent", "attempted"}
          /\ row[a].attempts < AttemptBudget
          /\ row[a].sequence = job[c].sequence /\ Len(ledger[a]) = job[c].evidence
      BY <2>1, <2>3 DEF Claimable, Allowed, RetryCurrent
    <3>3. saved[a].sequence = row[a].sequence
      BY <2>1, <2>2, <3>1, <3>2 DEF RecallsOutcome, Recalls, Books
    <3>4. saved[a].evidence = Len(ledger[a]) /\ AuthorizesRetry(saved[a].outcome)
      BY <2>1, <3>1, <3>2, <3>3 DEF RecallsOutcome, Recalls
    <3>5. row[a].attempts > 0 /\ Planned(a)
      BY <2>2, <3>2 DEF Books
    <3>6. ~Idempotent => row[a].status = "definitely_not_sent"
      BY <2>2, <3>1, <3>2, <3>5 DEF FirstUnsent, AttemptBudget
    <3>7. QED
      BY <3>3, <3>4, <3>5, <3>6
  <2>4. CASE job[c].op # "retry"
    <3>1. Planned(a) /\ row[a].status = "not_started"
      BY <2>1, <2>2, <2>4 DEF Holds, Claiming, Claimable, Allowed
    <3>2. row[a].attempts = 0
      BY <2>2, <3>1 DEF Books
    <3>3. QED
      BY <3>1, <3>2
  <2>5. QED
    BY <2>3, <2>4
<1>2. TypeInv /\ CurrencyInv /\ [Next]_vars =>
        [\A a \in Actions : Claims(a) =>
           /\ Planned(a)
           /\ row[a].attempts > 0 =>
                /\ saved[a].sequence = row[a].sequence
                /\ saved[a].evidence = Len(ledger[a])
                /\ AuthorizesRetry(saved[a].outcome)
                /\ ~Idempotent => row[a].status = "definitely_not_sent"]_vars
  BY <1>1
<1>3. QED
  BY <1>2, CurrencyInvariant, PTL DEF Spec, RetryClaimIsCurrent

(* A commit that depends on another action claims only while the           *)
(* resolution it was given for that action is the latest, is drawn from    *)
(* all the evidence of it and allows continuation.  Recovery claims for    *)
(* the commit it resumes without asking, so the theorem is about actions   *)
(* whose dependent commits nobody recovers (nystRuntime.ts 108-139, 152).  *)
THEOREM ContinuationTheorem ==
    ASSUME \A a \in Actions : Source[a] # NoAction => <<"recover", a>> \notin Commands
    PROVE  Spec => ContinuationIsCurrent
<1>1. ASSUME TypeInv, CurrencyInv, Next, NEW a \in Actions, Claims(a),
             row[a].attempts = 0, Source[a] # NoAction, NEW s, s = Source[a]
      PROVE  /\ saved[s].sequence = row[s].sequence
             /\ saved[s].evidence = Len(ledger[s])
             /\ saved[s].outcome.state # "none"
             /\ saved[s].outcome.decision.continuation = "allowed"
  <2>1. PICK c \in Callers : /\ ClaimDispatch(c) /\ Claimable(c) /\ job[c].action = a
    BY <1>1, OnlyClaimsClaim
  <2>2. /\ Books(a) /\ Holds(job[c]) /\ job[c].pc = "claim" /\ s \in Actions /\ Books(s)
        /\ job[c].sequence \in Nat
    BY <1>1, <2>1, SourceAssumption DEF CurrencyInv, ClaimDispatch, At, TypeInv, JobsOK, Jobs
  <2>3. row[a].status \in {"absent", "not_started"}
    BY <1>1, <2>2 DEF Books
  <2>4. job[c].op = "commit"
    BY <1>1, <2>1, <2>2, <2>3 DEF Holds, Claiming, Entering, Claimable, Allowed
  <2>5. Guarded(c) /\ Recalls(job[c], s) /\ job[c].sequence > 0
    BY <1>1, <2>1, <2>2, <2>4 DEF Guarded, Holds, Claiming
  <2>6. /\ saved[s].sequence = job[c].sequence
        /\ saved[s].outcome.decision.continuation = "allowed"
        /\ row[s].sequence = job[c].sequence
        /\ Len(ledger[s]) = job[c].evidence
    BY <1>1, <2>1, <2>5 DEF Claimable, ContinuationCurrent
  <2>7. saved[s].outcome \in Outcomes /\ saved[s].evidence = Len(ledger[s])
    BY <2>2, <2>5, <2>6 DEF Books, Recalls
  <2>8. saved[s].outcome.state # "none"
    BY <2>7 DEF Outcomes, EffectStates
  <2>9. QED
    BY <2>6, <2>7, <2>8
<1>2. TypeInv /\ CurrencyInv /\ [Next]_vars =>
        [\A a \in Actions : Claims(a) /\ row[a].attempts = 0 /\ Source[a] # NoAction =>
           LET s == Source[a] IN
           /\ saved[s].sequence = row[s].sequence
           /\ saved[s].evidence = Len(ledger[s])
           /\ saved[s].outcome.state # "none"
           /\ saved[s].outcome.decision.continuation = "allowed"]_vars
  BY <1>1
<1>3. QED
  BY <1>2, CurrencyInvariant, PTL DEF Spec, ContinuationIsCurrent

(* A mutation is issued by the one caller that crossed the boundary of     *)
(* that attempt, the action's last, and only once the lifecycle says that  *)
(* dispatching began: no observer, no overtaken owner, no recovery sends   *)
(* (githubProvider.ts 112-151).                                            *)
THEOREM OnlyOwnersTheorem ==
    ASSUME GitHubReadable
    PROVE  Spec => OnlyOwnersSend
<1>1. ASSUME TypeInv, CurrencyInv, DispatchInv, Next, NEW a \in Actions, NEW n \in Attempts,
             request[a][n] = "none", request'[a][n] # "none"
      PROVE  \E c \in Callers : /\ job[c].action = a /\ job[c].attempt = n
                               /\ row[a].attempts = n
                               /\ lifecycle[a] \in {"dispatching", "observing"}
  <2>1. request \in [Actions -> [Attempts -> {"none", "flying", "landed", "dropped"}]]
    BY <1>1 DEF TypeInv, WorldOK
  <2>2. ASSUME NEW b \in Actions, NEW m \in Attempts, Land(b, m) \/ Drop(b, m)
        PROVE  FALSE
    BY <1>1, <2>1, <2>2 DEF Land, Drop
  <2>3. request' # request
    BY <1>1
  <2>4. PICK c \in Callers : Step(c)
    BY <1>1, <2>2, <2>3 DEF Next, Call, Environment, Crash, WindowElapses, ExternalChange, world
  <2>5. Send(c)
    <3>1. CASE \/ RecordIntent(c) \/ Initialize(c) \/ EnsureDispatchPlan(c) \/ Route(c)
               \/ CheckSource(c) \/ ClaimDispatch(c) \/ Register(c) \/ CrossBoundary(c)
               \/ EnterDispatching(c) \/ SendNothingToDo(c) \/ Revalidate(c)
               \/ SendStopped(c) \/ Respond(c) \/ SendTimesOut(c) \/ AnswerUnreadable(c)
               \/ AppendReport(c) \/ SetNotSent(c) \/ RecordNotSent(c) \/ RecordCaught(c)
      BY <2>3, <3>1
         DEF RecordIntent, Initialize, EnsureDispatchPlan, Route, CheckSource, ClaimDispatch,
             Register, CrossBoundary, EnterDispatching, SendNothingToDo, Revalidate,
             SendStopped, Respond, SendTimesOut, AnswerUnreadable, AppendReport, SetNotSent,
             RecordNotSent, RecordCaught, world
    <3>2. CASE \/ Normalize(c) \/ Release(c) \/ StealClaim(c) \/ ListEvidence(c)
               \/ Observe(c) \/ ObserveFails(c) \/ AppendObservation(c) \/ Derive(c)
               \/ FloorBoundary(c) \/ NextResolutionSequence(c) \/ SaveResolution(c)
               \/ RequireCurrent(c) \/ CheckRetry(c) \/ CheckNotSent(c)
               \/ ClaimCompensation(c) \/ Compensate(c) \/ AppendUndone(c)
               \/ FinishCompensation(c)
      BY <2>3, <3>2
         DEF Normalize, Release, StealClaim, ListEvidence, Observe, ObserveFails,
             AppendObservation, Derive, FloorBoundary, NextResolutionSequence,
             SaveResolution, RequireCurrent, CheckRetry, CheckNotSent, ClaimCompensation,
             Compensate, AppendUndone, FinishCompensation, world
    <3>3. QED
      BY <2>4, <3>1, <3>2 DEF Step
  <2>6. job[c].action = a /\ job[c].attempt = n
    BY <1>1, <2>1, <2>5 DEF Send
  <2>7. job[c].pc = "write" /\ Holds(job[c]) /\ Caller(job[c])
    BY <1>1, <2>5 DEF Send, At, CurrencyInv, DispatchInv
  <2>8. row[a].attempts = n /\ lifecycle[a] \in {"dispatching", "observing"}
    BY <2>6, <2>7 DEF Caller, Sending, Holds, Underway
  <2>9. QED
    BY <2>6, <2>8
<1>2. TypeInv /\ CurrencyInv /\ DispatchInv /\ [Next]_vars =>
        [\A a \in Actions, n \in Attempts :
           request[a][n] = "none" /\ request'[a][n] # "none" =>
             \E c \in Callers : /\ job[c].action = a /\ job[c].attempt = n
                               /\ row[a].attempts = n
                               /\ lifecycle[a] \in {"dispatching", "observing"}]_vars
  BY <1>1
<1>3. QED
  BY <1>2, CurrencyInvariant, DispatchInvariant, PTL DEF Spec, OnlyOwnersSend
=============================================================================
