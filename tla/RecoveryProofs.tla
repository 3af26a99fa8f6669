--------------------------- MODULE RecoveryProofs ---------------------------
(***************************************************************************)
(* Recovery sends at most once, for any number of workers, resolutions,    *)
(* crashes and lost leases, and implements OneSend.  The journal of a row  *)
(* carries the argument, not the lease: a row that says "unsent" was never *)
(* sent and nobody is about to send it (RowOK, JobOK), so that the one     *)
(* worker that moves it is the one sender (OneSender).                     *)
(***************************************************************************)
EXTENDS Recovery, TLAPS

(* What the automatic statements ask for in SQL is never more than what    *)
(* the application permits: the two were written separately.               *)
THEOREM SqlImpliesApplication ==
    ASSUME NEW dec \in RuntimeAuthority, NEW p \in Policies,
           NEW operation \in RecoveryOperations, SqlPermits(operation, dec, p)
    PROVE  Permits(operation, dec, p)
BY DEF RuntimeAuthority, Policies, RecoveryOperations, SqlPermits, Permits,
       SqlContinuation, SqlCompensation, AutomaticContinuation, AutomaticCompensation,
       Effective, NarrowedContinuation, NarrowedRecovery, NarrowPrimary, ApprovalRequired,
       Primaries, Retries, Continuations, Recoveries

(* The policy only narrows: no disposition becomes wider than what the     *)
(* runtime decided.                                                        *)
THEOREM PolicyOnlyNarrows ==
    ASSUME NEW dec \in RuntimeAuthority, NEW p \in Policies
    PROVE  LET e == Effective(dec, p) IN
           /\ e.continuation = "allowed" => dec.continuation = "allowed"
           /\ e.recovery = "compensate" => dec.recovery = "compensate"
           /\ e.primary \in {"continue", "compensate"} => e.primary = dec.primary
           /\ e.primary # "retry" /\ e.retry = "forbidden"
BY DEF RuntimeAuthority, Policies,
       Effective, NarrowedContinuation, NarrowedRecovery, NarrowPrimary, ApprovalRequired,
       Primaries, Retries, Continuations, Recoveries

-----------------------------------------------------------------------------
(* Types.                                                                  *)
LEMMA LimitsDomain == DOMAIN Limits = {"changes", "crashes", "pauses"}
BY DEF Limits

LEMMA SpendType ==
    ASSUME TypeOK, NEW b \in DOMAIN Limits, Spend(b)
    PROVE  spent' \in [DOMAIN Limits -> Nat]
BY LimitsDomain DEF TypeOK, Spend

(* A row may become any row that says of its token and lease the same.     *)
LEMMA RowType ==
    ASSUME TypeOK, NEW r \in Resolutions, NEW new \in Rows,
           new.token = 0 <=> new.lease = "none", Update(r, new)
    PROVE  /\ row' \in [Resolutions -> Rows]
           /\ \A q \in Resolutions : row'[q].token = 0 <=> row'[q].lease = "none"
           /\ row'[r] = new /\ \A q \in Resolutions : q # r => row'[q] = row[q]
BY DEF TypeOK, Update

LEMMA JobType ==
    ASSUME TypeOK, NEW w \in Workers, NEW j \in Jobs, Become(w, j),
           j.pc # "idle" => j.row \in Resolutions
    PROVE  /\ worker' \in [Workers -> Jobs]
           /\ \A v \in Workers : ~At(v, "idle")' => worker'[v].row \in Resolutions
           /\ worker'[w] = j /\ \A v \in Workers : v # w => worker'[v] = worker[v]
BY DEF TypeOK, Become, At

LEMMA IdleType == Idle \in Jobs /\ Idle.pc = "idle"
BY DEF Idle, Jobs, PCs, DispatchStates

LEMMA GotoType ==
    ASSUME TypeOK, NEW w \in Workers, ~At(w, "idle"), NEW pc \in PCs \ {"idle"}, Goto(w, pc)
    PROVE  /\ worker' \in [Workers -> Jobs]
           /\ \A v \in Workers : ~At(v, "idle")' => worker'[v].row \in Resolutions
           /\ worker'[w] = [worker[w] EXCEPT !.pc = pc]
           /\ \A v \in Workers : v # w => worker'[v] = worker[v]
<1>. DEFINE j == [worker[w] EXCEPT !.pc = pc]
<1>1. j \in Jobs /\ j.row \in Resolutions
  BY DEF TypeOK, Jobs, At
<1>2. Become(w, j)
  BY DEF Goto
<1>. HIDE DEF j
<1>3. QED
  BY <1>1, <1>2, JobType DEF j

LEMMA GotoFields ==
    ASSUME TypeOK, NEW w \in Workers, ~At(w, "idle"), NEW pc \in PCs \ {"idle"}, Goto(w, pc)
    PROVE  /\ worker'[w].pc = pc /\ worker'[w].row = worker[w].row
           /\ worker'[w].token = worker[w].token /\ worker'[w].dispatch = worker[w].dispatch
           /\ worker'[w].saw = worker[w].saw
           /\ \A v \in Workers : v # w => worker'[v] = worker[v]
<1>1. worker[w] \in Jobs
  BY DEF TypeOK
<1>2. worker'[w] = [worker[w] EXCEPT !.pc = pc]
      /\ \A v \in Workers : v # w => worker'[v] = worker[v]
  BY GotoType
<1>3. QED
  BY <1>1, <1>2 DEF Jobs

LEMMA ReturnType ==
    ASSUME TypeOK, NEW w \in Workers, Return(w)
    PROVE  /\ worker' \in [Workers -> Jobs]
           /\ \A v \in Workers : ~At(v, "idle")' => worker'[v].row \in Resolutions
           /\ worker'[w] = Idle /\ \A v \in Workers : v # w => worker'[v] = worker[v]
BY IdleType, JobType DEF Return

(* The three writers of a claimed row keep it a row.                       *)
LEMMA RecordedType ==
    ASSUME TypeOK, NEW w \in Workers, ~At(w, "idle"), NEW d \in DispatchStates, Recorded(w, d)
    PROVE  /\ row' \in [Resolutions -> Rows]
           /\ \A q \in Resolutions : row'[q].token = 0 <=> row'[q].lease = "none"
<1>1. worker[w].row \in Resolutions
  BY DEF TypeOK, At
<1>2. CASE UNCHANGED row
  BY <1>2 DEF TypeOK
<1>3. CASE Update(worker[w].row, [Mine(w) EXCEPT !.dispatch = d])
  <2>. DEFINE new == [Mine(w) EXCEPT !.dispatch = d]
  <2>1. new \in Rows /\ (new.token = 0 <=> new.lease = "none")
    BY <1>1 DEF TypeOK, Rows, Mine
  <2>. HIDE DEF new
  <2>2. QED
    BY <1>1, <1>3, <2>1, RowType DEF new
<1>4. QED
  BY <1>2, <1>3 DEF Recorded

LEMMA ReleasedType ==
    ASSUME TypeOK, NEW w \in Workers, ~At(w, "idle"), NEW status \in Statuses
    PROVE  /\ Released(w, status) \in Rows
           /\ Released(w, status).token = 0 /\ Released(w, status).lease = "none"
           /\ Released(w, status).status = status
           /\ Released(w, status).dispatch = Mine(w).dispatch
<1>1. Mine(w) \in Rows
  BY DEF TypeOK, Mine, At
<1>2. QED
  BY <1>1 DEF Rows, Released

(* Every claimed row is in the domain.                                     *)
LEMMA MineType ==
    ASSUME TypeOK, NEW w \in Workers, ~At(w, "idle")
    PROVE  /\ worker[w] \in Jobs /\ worker[w].row \in Resolutions
           /\ Mine(w) \in Rows /\ worker[w].dispatch \in DispatchStates
BY DEF TypeOK, Mine, At, Jobs

LEMMA CompleteType ==
    ASSUME TypeOK, NEW w \in Workers, ~At(w, "idle"), Complete(w)
    PROVE  /\ row' \in [Resolutions -> Rows]
           /\ \A q \in Resolutions : row'[q].token = 0 <=> row'[q].lease = "none"
           /\ worker' \in [Workers -> Jobs]
           /\ \A v \in Workers : ~At(v, "idle")' => worker'[v].row \in Resolutions
<1>1. CASE Settleable(w)
  <2>. DEFINE new == [Released(w, "completed") EXCEPT !.dispatch = "completed"]
  <2>1. new \in Rows /\ (new.token = 0 <=> new.lease = "none")
    BY ReleasedType DEF Rows, Statuses, DispatchStates
  <2>2. Update(worker[w].row, new) /\ Goto(w, "completed")
    BY <1>1 DEF Complete
  <2>. HIDE DEF new
  <2>3. QED
    BY <2>1, <2>2, MineType, RowType, GotoType DEF PCs
<1>2. CASE ~Settleable(w)
  BY <1>2, ReturnType DEF Complete, TypeOK
<1>3. QED
  BY <1>1, <1>2

LEMMA ParkType ==
    ASSUME TypeOK, NEW w \in Workers, ~At(w, "idle"), Park(w)
    PROVE  /\ row' \in [Resolutions -> Rows]
           /\ \A q \in Resolutions : row'[q].token = 0 <=> row'[q].lease = "none"
           /\ worker' \in [Workers -> Jobs]
           /\ \A v \in Workers : ~At(v, "idle")' => worker'[v].row \in Resolutions
<1>1. CASE Settleable(w)
  <2>1. Update(worker[w].row, Released(w, "needs_review")) /\ Goto(w, "parked")
    BY <1>1 DEF Park
  <2>2. "needs_review" \in Statuses
    BY DEF Statuses
  <2>3. QED
    BY <2>1, <2>2, MineType, ReleasedType, RowType, GotoType DEF PCs
<1>2. CASE ~Settleable(w)
  BY <1>2, ReturnType DEF Park, TypeOK
<1>3. QED
  BY <1>1, <1>2

LEMMA CancelType ==
    ASSUME TypeOK, NEW w \in Workers, ~At(w, "idle"), Cancel(w)
    PROVE  /\ row' \in [Resolutions -> Rows]
           /\ \A q \in Resolutions : row'[q].token = 0 <=> row'[q].lease = "none"
           /\ worker' \in [Workers -> Jobs]
           /\ \A v \in Workers : ~At(v, "idle")' => worker'[v].row \in Resolutions
<1>1. "cancelled" \in Statuses
  BY DEF Statuses
<1>2. \/ Update(worker[w].row, Released(w, "cancelled"))
      \/ UNCHANGED row
  BY DEF Cancel
<1>3. Return(w)
  BY DEF Cancel
<1>4. QED
  BY <1>1, <1>2, <1>3, MineType, ReleasedType, RowType, ReturnType DEF TypeOK

(* Authorising writes a row of the current resolution.                     *)
LEMMA NewRowType ==
    ASSUME TypeOK, NEW operation \in RecoveryOperations
    PROVE  LET new == [NoRow EXCEPT !.status = "authorized", !.operation = operation,
                                    !.evidence = evidence]
           IN  new \in Rows /\ new.token = 0 /\ new.lease = "none"
               /\ new.dispatch = "definitely_not_sent" /\ new.status = "authorized"
BY DEF TypeOK, NoRow, Rows, Statuses, DispatchStates

(* A row that takes the next attempt's token.                              *)
LEMMA TakenType ==
    ASSUME NEW x \in Rows, NEW s \in {"executing", "observing", "completed"}
    PROVE  LET new == [x EXCEPT !.status = s, !.token = x.attempt + 1, !.lease = "live",
                                !.attempt = @ + 1]
           IN  /\ new \in Rows /\ new.token \in Nat \ {0} /\ new.lease = "live"
               /\ new.dispatch = x.dispatch /\ new.status = s
<1>1. x.attempt \in Nat /\ x.attempt + 1 \in Nat \ {0}
  BY DEF Rows
<1>2. QED
  BY <1>1 DEF Rows, Statuses

(* A claim takes the next attempt's token.                                 *)
LEMMA ClaimedType ==
    ASSUME TypeOK, NEW r \in Resolutions
    PROVE  LET new == [row[r] EXCEPT !.status = ClaimedStatus(row[r].dispatch),
                                     !.token = row[r].attempt + 1, !.lease = "live",
                                     !.attempt = @ + 1]
           IN  /\ new \in Rows /\ new.token \in Nat \ {0} /\ new.lease = "live"
               /\ new.dispatch = row[r].dispatch
               /\ new.status \in {"executing", "observing", "completed"}
               /\ new.status = "completed" => row[r].dispatch = "completed"
<1>1. row[r] \in Rows
  BY DEF TypeOK
<1>2. ClaimedStatus(row[r].dispatch) \in {"executing", "observing", "completed"}
      /\ (ClaimedStatus(row[r].dispatch) = "completed" => row[r].dispatch = "completed")
  BY DEF ClaimedStatus
<1>3. \A s \in {"executing", "observing", "completed"} :
         LET new == [row[r] EXCEPT !.status = s, !.token = row[r].attempt + 1,
                                   !.lease = "live", !.attempt = @ + 1]
         IN  /\ new \in Rows /\ new.token \in Nat \ {0} /\ new.lease = "live"
             /\ new.dispatch = row[r].dispatch /\ new.status = s
  BY <1>1, TakenType
<1>4. QED
  BY <1>2, <1>3

-----------------------------------------------------------------------------
(* What the steps of a worker do to the rows and to its job.               *)
StoredOK ==
    /\ row \in [Resolutions -> Rows]
    /\ \A r \in Resolutions : row[r].token = 0 <=> row[r].lease = "none"
    /\ worker \in [Workers -> Jobs]
    /\ \A w \in Workers : ~At(w, "idle") => worker[w].row \in Resolutions

LEMMA StoredType == TypeOK => StoredOK
BY DEF TypeOK, StoredOK

(* A step of a worker that only moves it, or ends its run.                 *)
LEMMA MovedType ==
    ASSUME TypeOK, NEW w \in Workers, ~At(w, "idle"), UNCHANGED row,
           Return(w) \/ \E pc \in PCs \ {"idle"} : Goto(w, pc)
    PROVE  StoredOK'
BY GotoType, ReturnType DEF TypeOK, StoredOK, At

LEMMA ClaimStored ==
    ASSUME TypeOK, NEW w \in Workers, Claim(w)
    PROVE  StoredOK'
<1>1. CASE ChooseCandidate(w)
  <2>1. PICK r \in Resolutions :
              Become(w, [Idle EXCEPT !.pc = "candidate", !.row = r, !.valid = AuthorityValid(r)])
    BY <1>1 DEF ChooseCandidate
  <2>. DEFINE j == [Idle EXCEPT !.pc = "candidate", !.row = r, !.valid = AuthorityValid(r)]
  <2>2. AuthorityValid(r) \in BOOLEAN
    BY ZenonT(30) DEF AuthorityValid, SqlPermits, SqlContinuation, SqlCompensation, TypeOK
  <2>3. j \in Jobs /\ j.row \in Resolutions
    BY <2>2 DEF Idle, Jobs, PCs, DispatchStates
  <2>4. Become(w, j)
    BY <2>1
  <2>. HIDE DEF j
  <2>5. UNCHANGED row
    BY <1>1 DEF ChooseCandidate, tables
  <2>6. QED
    BY <2>3, <2>4, <2>5, JobType DEF TypeOK, StoredOK, At
<1>2. CASE ClaimRecovery(w)
  <2>. DEFINE r == worker[w].row
              new == [row[r] EXCEPT !.status = ClaimedStatus(row[r].dispatch),
                                    !.token = row[r].attempt + 1, !.lease = "live",
                                    !.attempt = @ + 1]
              j == [worker[w] EXCEPT !.pc = "claimed", !.token = row[r].attempt + 1,
                                     !.dispatch = row[r].dispatch]
  <2>1. ~At(w, "idle") /\ r \in Resolutions
    BY <1>2, MineType DEF ClaimRecovery, At
  <2>2. CASE Unowned(r)
    <3>1. Update(r, new) /\ Become(w, j)
      BY <1>2, <2>2 DEF ClaimRecovery
    <3>2. new \in Rows /\ new.token # 0 /\ new.lease = "live"
      BY <2>1, ClaimedType
    <3>3. j \in Jobs /\ j.row \in Resolutions
      <4>1. row[r].attempt + 1 \in Nat /\ row[r].dispatch \in DispatchStates
        BY <2>1 DEF TypeOK, Rows
      <4>2. worker[w] \in Jobs
        BY DEF TypeOK
      <4>. HIDE DEF r
      <4>3. j \in Jobs /\ j.row = worker[w].row
        BY <4>1, <4>2 DEF Jobs, PCs
      <4>4. QED
        BY <2>1, <4>3 DEF r
    <3>. HIDE DEF new, j, r
    <3>4. QED
      BY <2>1, <3>1, <3>2, <3>3, RowType, JobType DEF StoredOK
  <2>3. CASE ~Unowned(r)
    BY <1>2, <2>1, <2>3, MovedType DEF ClaimRecovery
  <2>4. QED
    BY <2>2, <2>3
<1>3. QED
  BY <1>1, <1>2 DEF Claim

(* Recording the dispatch state and moving on.                             *)
LEMMA RecordedStored ==
    ASSUME TypeOK, NEW w \in Workers, ~At(w, "idle"), NEW d \in DispatchStates,
           NEW pc \in PCs \ {"idle"}, Recorded(w, d), Goto(w, pc)
    PROVE  StoredOK'
BY RecordedType, GotoType DEF StoredOK, At

LEMMA DispatchStored ==
    ASSUME TypeOK, NEW w \in Workers, Dispatch(w)
    PROVE  StoredOK'
<1>. {"may_have_been_sent", "completed", "ambiguous"} \subseteq DispatchStates
     /\ {"awaiting", "sent", "failed", "confirmed", "unsettled", "sending"} \subseteq PCs \ {"idle"}
  BY DEF DispatchStates, PCs
<1>. ~At(w, "idle")
  BY DEF Dispatch, FinishCompleted, CancelStale, BeginRecoveryDispatch, Execute, Succeeds,
         Throws, RecordSent, CompleteSent, TransitionThrows, RecordFailed, SettleAmbiguous, At
<1>1. CASE FinishCompleted(w) \/ CompleteSent(w)
  BY <1>1, CompleteType DEF FinishCompleted, CompleteSent, StoredOK
<1>2. CASE CancelStale(w)
  BY <1>2, CancelType DEF CancelStale, StoredOK
<1>3. CASE BeginRecoveryDispatch(w)
  <2>1. CASE MayDispatch(w)
    <3>. DEFINE new == [Mine(w) EXCEPT !.dispatch = "may_have_been_sent"]
    <3>1. Update(worker[w].row, new) /\ Goto(w, "sending")
      BY <1>3, <2>1 DEF BeginRecoveryDispatch
    <3>2. new \in Rows /\ (new.token = 0 <=> new.lease = "none")
      BY MineType DEF TypeOK, Rows, Mine
    <3>. HIDE DEF new
    <3>3. QED
      BY <3>1, <3>2, MineType, RowType, GotoType DEF StoredOK
  <2>2. CASE ~MayDispatch(w)
    BY <1>3, <2>2, MovedType DEF BeginRecoveryDispatch
  <2>3. QED
    BY <2>1, <2>2
<1>4. CASE Execute(w) \/ Succeeds(w) \/ Throws(w) \/ TransitionThrows(w)
  BY <1>4, MovedType DEF Execute, Succeeds, Throws, TransitionThrows, tables
<1>5. CASE RecordSent(w)
  BY <1>5, RecordedStored DEF RecordSent
<1>6. CASE RecordFailed(w)
  BY <1>6, RecordedStored DEF RecordFailed
<1>7. CASE SettleAmbiguous(w)
  BY <1>7, ParkType DEF SettleAmbiguous, StoredOK
<1>8. QED
  BY <1>1, <1>2, <1>3, <1>4, <1>5, <1>6, <1>7 DEF Dispatch

LEMMA LookStored ==
    ASSUME TypeOK, NEW w \in Workers, Look(w)
    PROVE  StoredOK'
<1>. {"may_have_been_sent", "completed", "ambiguous"} \subseteq DispatchStates
     /\ {"confirmed", "unsettled"} \subseteq PCs \ {"idle"}
  BY DEF DispatchStates, PCs
<1>. ~At(w, "idle")
  BY DEF Look, ParkUnobservable, Observe, ObserveThrows, RecordObserved, Ambiguous, At
<1>1. CASE ParkUnobservable(w)
  BY <1>1, ParkType DEF ParkUnobservable, StoredOK
<1>2. CASE Observe(w)
  <2>1. PICK outcome \in Observed(worker[w].row) :
              Become(w, [worker[w] EXCEPT !.pc = "observed", !.saw = outcome])
    BY <1>2 DEF Observe
  <2>. DEFINE j == [worker[w] EXCEPT !.pc = "observed", !.saw = outcome]
  <2>2. j \in Jobs /\ j.row \in Resolutions
    BY MineType DEF Jobs, PCs, Observed
  <2>3. Become(w, j)
    BY <2>1
  <2>. HIDE DEF j
  <2>4. UNCHANGED row
    BY <1>2 DEF Observe, tables
  <2>5. QED
    BY <2>2, <2>3, <2>4, JobType DEF TypeOK, StoredOK
<1>3. CASE ObserveThrows(w)
  BY <1>3, MovedType DEF ObserveThrows, tables
<1>4. CASE RecordObserved(w)
  BY <1>4, RecordedStored DEF RecordObserved
<1>5. QED
  BY <1>1, <1>2, <1>3, <1>4 DEF Look

LEMMA ReportStored ==
    ASSUME TypeOK, NEW w \in Workers, Report(w)
    PROVE  StoredOK'
<1>. ~At(w, "idle") /\ {"resolved", "escalated"} \subseteq PCs \ {"idle"}
  BY DEF Report, TellResolved, QueueWebhook, TellParked, OpenHumanReview, At, PCs
<1>1. UNCHANGED row /\ (Return(w) \/ \E pc \in PCs \ {"idle"} : Goto(w, pc))
  BY DEF Report, TellResolved, QueueWebhook, TellParked, OpenHumanReview, Tell
<1>2. QED
  BY <1>1, MovedType

LEMMA LapseStored ==
    ASSUME TypeOK, NEW r \in Resolutions, Lapse(r)
    PROVE  StoredOK'
<1>. DEFINE new == [row[r] EXCEPT !.lease = "lapsed"]
<1>1. Update(r, new) /\ UNCHANGED worker
  BY DEF Lapse
<1>2. new \in Rows /\ (new.token = 0 <=> new.lease = "none")
  BY DEF TypeOK, Rows, Lapse
<1>. HIDE DEF new
<1>3. QED
  BY <1>1, <1>2, RowType DEF TypeOK, StoredOK, At

(* TypeOK is inductive.                                                    *)
LEMMA TypeInit == Init => TypeOK
<1>. SUFFICES ASSUME Init PROVE TypeOK
  OBVIOUS
<1>1. NoRow \in Rows /\ NoRow.token = 0 /\ NoRow.lease = "none"
  BY DEF NoRow, Rows, Statuses, DispatchStates
<1>2. row \in [Resolutions -> Rows]
      /\ \A r \in Resolutions : row[r].token = 0 <=> row[r].lease = "none"
  BY <1>1 DEF Init
<1>3. worker \in [Workers -> Jobs] /\ \A w \in Workers : At(w, "idle")
  BY IdleType DEF Init, At
<1>4. policy \in Policies /\ decided \in [Resolutions -> RuntimeAuthority]
      /\ registered \subseteq {"executor", "observer"}
  BY PoliciesAssumption, DecisionsAssumption, RegistryAssumption DEF Init
<1>5. /\ effect \in [Resolutions -> {"none", "in_flight", "applied"}]
      /\ sends \in [Resolutions -> Nat] /\ spent \in [DOMAIN Limits -> Nat]
  BY DEF Init
<1>6. /\ sequence \in Nat \ {0} /\ evidence \in Nat
      /\ overdue \in BOOLEAN /\ review \in BOOLEAN /\ told = {}
  <2>1. sequence = 1 /\ evidence = 0
    BY DEF Init
  <2>2. overdue \in BOOLEAN /\ review \in BOOLEAN /\ told = {}
    BY DEF Init
  <2>3. QED
    BY <2>1, <2>2
<1>7. QED
  BY <1>2, <1>3, <1>4, <1>5, <1>6 DEF TypeOK

(* Everything but what workers store keeps its type.                       *)
RestOK ==
    /\ policy \in Policies
    /\ decided \in [Resolutions -> RuntimeAuthority]
    /\ sequence \in Nat \ {0} /\ evidence \in Nat /\ overdue \in BOOLEAN
    /\ told \subseteq {"auto_resolved", "recovery.completed", "recovery_needs_review"}
    /\ review \in BOOLEAN
    /\ registered \subseteq {"executor", "observer"}
    /\ effect \in [Resolutions -> {"none", "in_flight", "applied"}]
    /\ sends \in [Resolutions -> Nat]
    /\ spent \in [DOMAIN Limits -> Nat]

LEMMA TypeParts == TypeOK <=> StoredOK /\ RestOK
BY DEF TypeOK, StoredOK, RestOK

(* The steps that write nothing but rows and jobs, told and review.        *)
LEMMA QuietRest ==
    ASSUME RestOK, UNCHANGED <<runtime, world, spent>>,
           told' \subseteq {"auto_resolved", "recovery.completed", "recovery_needs_review"},
           review' \in BOOLEAN
    PROVE  RestOK'
BY DEF RestOK, runtime, world

LEMMA RunOneType ==
    ASSUME TypeOK, NEW w \in Workers, RunOne(w)
    PROVE  TypeOK'
<1>1. SUFFICES RestOK'
  BY ClaimStored, DispatchStored, LookStored, ReportStored
     DEF RunOne, TypeOK, StoredOK, RestOK
<1>. /\ RestOK /\ review \in BOOLEAN
     /\ told \subseteq {"auto_resolved", "recovery.completed", "recovery_needs_review"}
  BY TypeParts DEF TypeOK
<1>2. CASE Claim(w)
  BY <1>2, QuietRest DEF Claim, ChooseCandidate, ClaimRecovery, tables
<1>3. CASE Execute(w)
  <2>1. worker[w].row \in Resolutions
    BY <1>3, MineType DEF Execute, At
  <2>2. /\ effect' \in [Resolutions -> {"none", "in_flight", "applied"}]
        /\ sends' \in [Resolutions -> Nat]
    BY <1>3, <2>1 DEF Execute, RestOK
  <2>3. QED
    BY <1>3, <2>2 DEF Execute, RestOK, runtime, tables
<1>4. CASE Dispatch(w) /\ ~Execute(w)
  BY <1>4, QuietRest
     DEF Dispatch, FinishCompleted, CancelStale, BeginRecoveryDispatch, Succeeds, Throws,
         RecordSent, CompleteSent, TransitionThrows, RecordFailed, SettleAmbiguous, tables
<1>5. CASE Look(w)
  BY <1>5, QuietRest DEF Look, ParkUnobservable, Observe, ObserveThrows, RecordObserved, tables
<1>6. CASE Report(w)
  <2>1. UNCHANGED <<runtime, world, spent>>
    BY <1>6 DEF Report, TellResolved, QueueWebhook, TellParked, OpenHumanReview, Tell
  <2>2. told' \subseteq {"auto_resolved", "recovery.completed", "recovery_needs_review"}
        /\ review' \in BOOLEAN
    BY <1>6 DEF Report, TellResolved, QueueWebhook, TellParked, OpenHumanReview, Tell
  <2>3. QED
    BY <2>1, <2>2, QuietRest
<1>7. QED
  BY <1>2, <1>3, <1>4, <1>5, <1>6 DEF RunOne

LEMMA StepType == TypeOK /\ [Next]_vars => TypeOK'
<1>. SUFFICES ASSUME TypeOK, [Next]_vars PROVE StoredOK' /\ RestOK'
  BY DEF TypeOK, StoredOK, RestOK
<1>. StoredOK /\ RestOK
  BY TypeParts
<1>0. CASE UNCHANGED vars
  BY <1>0 DEF vars, StoredOK, RestOK, At
<1>1. ASSUME NEW operation \in RecoveryOperations, AuthorizeRecovery(operation)
      PROVE  StoredOK' /\ RestOK'
  <2>. DEFINE new == [NoRow EXCEPT !.status = "authorized", !.operation = operation,
                                   !.evidence = evidence]
  <2>1. new \in Rows /\ new.token = 0 /\ new.lease = "none"
    BY NewRowType
  <2>2. sequence \in Resolutions /\ Update(sequence, new)
    BY <1>1 DEF AuthorizeRecovery
  <2>3. UNCHANGED <<runtime, told, review, worker, world, spent>>
    BY <1>1 DEF AuthorizeRecovery
  <2>. HIDE DEF new
  <2>4. StoredOK'
    BY <2>1, <2>2, <2>3, RowType DEF StoredOK, At
  <2>5. RestOK'
    BY <2>3 DEF RestOK, runtime, world
  <2>6. QED
    BY <2>4, <2>5
<1>2. ASSUME NEW w \in Workers, RunOne(w) PROVE StoredOK' /\ RestOK'
  BY <1>2, RunOneType DEF TypeOK, StoredOK, RestOK
<1>3. ASSUME NEW w \in Workers, Crash(w) PROVE StoredOK' /\ RestOK'
  <2>1. spent' \in [DOMAIN Limits -> Nat]
    BY <1>3, SpendType, LimitsDomain DEF Crash
  <2>2. StoredOK'
    BY <1>3, ReturnType DEF Crash, StoredOK, tables
  <2>3. RestOK'
    BY <1>3, <2>1 DEF Crash, RestOK, runtime, tables, world
  <2>4. QED
    BY <2>2, <2>3
<1>4. CASE EvidenceArrives \/ Reresolve \/ DeadlinePasses
  <2>1. spent' \in [DOMAIN Limits -> Nat]
    BY <1>4, SpendType, LimitsDomain DEF EvidenceArrives, Reresolve, DeadlinePasses
  <2>2. sequence' \in Nat \ {0} /\ evidence' \in Nat /\ overdue' \in BOOLEAN
    <3>1. CASE EvidenceArrives
      BY <3>1 DEF EvidenceArrives, RestOK
    <3>2. CASE Reresolve
      BY <3>2 DEF Reresolve, RestOK
    <3>3. CASE DeadlinePasses
      BY <3>3 DEF DeadlinePasses, RestOK
    <3>4. QED
      BY <1>4, <3>1, <3>2, <3>3
  <2>3. UNCHANGED <<policy, decided, tables, worker, world>>
    BY <1>4 DEF EvidenceArrives, Reresolve, DeadlinePasses
  <2>4. StoredOK'
    BY <2>3 DEF StoredOK, tables, At
  <2>5. RestOK'
    BY <2>1, <2>2, <2>3 DEF RestOK, tables, world
  <2>6. QED
    BY <2>4, <2>5
<1>5. ASSUME NEW r \in Resolutions, LeaseLapses(r) \/ WorkerPauses(r)
      PROVE  StoredOK' /\ RestOK'
  <2>1. Lapse(r)
    BY <1>5 DEF LeaseLapses, WorkerPauses
  <2>2. spent' \in [DOMAIN Limits -> Nat]
    BY <1>5, SpendType, LimitsDomain DEF LeaseLapses, WorkerPauses, RestOK
  <2>3. RestOK'
    BY <2>1, <2>2 DEF Lapse, RestOK, runtime, world
  <2>4. QED
    BY <2>1, <2>3, LapseStored
<1>6. ASSUME NEW r \in Resolutions, Land(r) PROVE StoredOK' /\ RestOK'
  <2>1. effect' \in [Resolutions -> {"none", "in_flight", "applied"}]
    BY <1>6 DEF Land, RestOK
  <2>2. QED
    BY <1>6, <2>1 DEF Land, StoredOK, RestOK, runtime, tables, At
<1>7. QED
  BY <1>0, <1>1, <1>2, <1>3, <1>4, <1>5, <1>6 DEF Next

(* What is stored and carried is well typed, and a claim's token and lease *)
(* come and go together.                                                   *)
THEOREM RecoveryType == Spec => []TypeOK
<1>1. QED
  BY TypeInit, StepType, PTL DEF Spec

-----------------------------------------------------------------------------
(* The invariant.                                                          *)
Applied(r) == effect[r] = "applied"
Journalled(r) == row[r].dispatch # "definitely_not_sent"

RowOK(r) ==
    /\ row[r].status \in {"absent", "cancelled"} => ~Journalled(r) /\ row[r].token = 0
    /\ ~Journalled(r) => sends[r] = 0
    /\ row[r].dispatch = "completed" \/ row[r].status = "completed" => Applied(r)
    /\ sends[r] \in {0, 1}
    /\ sends[r] = 0 <=> effect[r] = "none"

(* Where a worker that is past the gate may stand.                         *)
Past == {"sending", "awaiting", "sent", "failed", "confirmed", "observed", "unsettled"}
Done == {"sent", "confirmed", "completed", "resolved"}

JobOK(j) ==
    j.pc # "idle" =>
        /\ row[j.row].status # "absent"
        /\ j.pc # "candidate" => j.token # 0
        /\ j.dispatch # "definitely_not_sent" \/ j.pc \in Past => Journalled(j.row)
        /\ j.dispatch = "completed" => Applied(j.row)
        /\ j.saw = "completed" \/ j.pc \in Done => Applied(j.row)
        /\ j.pc = "sending" => sends[j.row] = 0

OneSender ==
    \A v, w \in Workers :
        At(v, "sending") /\ At(w, "sending") /\ worker[v].row = worker[w].row => v = w

RecoveryInv ==
    /\ \A r \in Resolutions : RowOK(r)
    /\ \A w \in Workers : JobOK(worker[w])
    /\ OneSender
    /\ "recovery.completed" \in told => \E r \in Resolutions : Applied(r)

(* The invariant gives the promises of the runs.                           *)
LEMMA InvGives == RecoveryInv => SentAtMostOnce /\ CompletedIsTrue
BY DEF RecoveryInv, RowOK, Journalled, Applied, SentAtMostOnce, CompletedIsTrue

LEMMA InvInit == Init => RecoveryInv
<1>. SUFFICES ASSUME Init PROVE RecoveryInv
  OBVIOUS
<1>1. \A r \in Resolutions : RowOK(r)
  BY DEF Init, RowOK, Journalled, NoRow
<1>2. \A w \in Workers : worker[w].pc = "idle"
  BY DEF Init, Idle
<1>3. QED
  BY <1>1, <1>2 DEF RecoveryInv, JobOK, OneSender, At, Init

-----------------------------------------------------------------------------
(* What no step takes back: a row that exists, a journal that says "maybe",*)
(* an effect that was applied.                                             *)
Kept(r) ==
    /\ row[r].status # "absent" => row'[r].status # "absent"
    /\ Journalled(r) => Journalled(r)'
    /\ Applied(r) => Applied(r)'

(* What a job says stays true while its worker does nothing.               *)
LEMMA Others ==
    ASSUME TypeOK, RecoveryInv, \A r \in Resolutions : Kept(r), NEW v \in Workers,
           worker'[v] = worker[v],
           At(v, "sending") => sends'[worker[v].row] = sends[worker[v].row]
    PROVE  JobOK(worker[v])'
<1>1. worker[v].pc # "idle" => worker[v].row \in Resolutions
  BY DEF TypeOK, At
<1>2. QED
  BY <1>1 DEF RecoveryInv, JobOK, Kept, Journalled, Applied, At

(* One worker steps, and starts no send.                                   *)
LEMMA StepKeeps ==
    ASSUME TypeOK, TypeOK', RecoveryInv, NEW w \in Workers,
           \A r \in Resolutions : Kept(r) /\ RowOK(r)',
           \A v \in Workers : v # w => worker'[v] = worker[v],
           UNCHANGED sends, JobOK(worker[w])', ~At(w, "sending")',
           "recovery.completed" \in told' \ told => \E r \in Resolutions : Applied(r)
    PROVE  RecoveryInv'
<1>1. \A v \in Workers : JobOK(worker[v])'
  <2>. TAKE v \in Workers
  <2>1. CASE v = w
    BY <2>1
  <2>2. CASE v # w
    BY <2>2, Others
  <2>3. QED
    BY <2>1, <2>2
<1>2. OneSender'
  BY DEF RecoveryInv, OneSender, At
<1>3. ("recovery.completed" \in told => \E r \in Resolutions : Applied(r))'
  BY DEF RecoveryInv, Kept
<1>4. QED
  BY <1>1, <1>2, <1>3 DEF RecoveryInv

(* Nothing is taken back by a step that writes neither rows nor effects.   *)
LEMMA SameRows ==
    ASSUME RecoveryInv, UNCHANGED <<row, effect, sends>>
    PROVE  \A r \in Resolutions : Kept(r) /\ RowOK(r)'
BY DEF RecoveryInv, Kept, RowOK, Journalled, Applied

(* Neither by one that writes one row, along its journal.                  *)
LEMMA OneRow ==
    ASSUME TypeOK, RecoveryInv, UNCHANGED <<effect, sends>>,
           NEW r \in Resolutions, NEW new \in Rows, Update(r, new),
           row[r].status # "absent" => new.status # "absent",
           Journalled(r) => new.dispatch # "definitely_not_sent",
           new.status \in {"absent", "cancelled"} =>
               new.dispatch = "definitely_not_sent" /\ new.token = 0,
           new.dispatch = "completed" \/ new.status = "completed" => Applied(r)
    PROVE  \A q \in Resolutions : Kept(q) /\ RowOK(q)'
<1>1. row'[r] = new /\ \A q \in Resolutions : q # r => row'[q] = row[q]
  BY DEF TypeOK, Update
<1>2. Kept(r)
  BY <1>1 DEF Kept, Journalled, Applied
<1>3. RowOK(r)'
  BY <1>1 DEF RecoveryInv, RowOK, Journalled, Applied
<1>4. ASSUME NEW q \in Resolutions, q # r PROVE Kept(q) /\ RowOK(q)'
  BY <1>1, <1>4 DEF RecoveryInv, Kept, RowOK, Journalled, Applied
<1>5. QED
  BY <1>2, <1>3, <1>4

(* A claimed worker that moves on, to where the row lets it stand.         *)
Claimed(w) == ~At(w, "idle") /\ ~At(w, "candidate")

LEMMA MoveOK ==
    ASSUME TypeOK, RecoveryInv, NEW w \in Workers, Claimed(w),
           \A r \in Resolutions : Kept(r),
           NEW pc \in PCs \ {"idle", "candidate", "sending"}, Goto(w, pc),
           pc \in Past => Journalled(worker[w].row)',
           pc \in Done => Applied(worker[w].row)
    PROVE  /\ JobOK(worker[w])' /\ ~At(w, "sending")'
           /\ \A v \in Workers : v # w => worker'[v] = worker[v]
<1>1. worker[w].row \in Resolutions /\ worker[w] \in Jobs
  BY MineType DEF Claimed
<1>2. /\ worker'[w] = [worker[w] EXCEPT !.pc = pc]
      /\ \A v \in Workers : v # w => worker'[v] = worker[v]
  BY GotoType DEF Claimed
<1>3. worker'[w].pc = pc /\ worker'[w].row = worker[w].row /\ worker'[w].token = worker[w].token
      /\ worker'[w].dispatch = worker[w].dispatch /\ worker'[w].saw = worker[w].saw
  BY <1>1, <1>2 DEF Jobs
<1>4. JobOK(worker[w]) /\ Kept(worker[w].row)
  BY <1>1 DEF RecoveryInv
<1>5. JobOK(worker[w])'
  BY <1>3, <1>4 DEF JobOK, Kept, Journalled, Applied, Claimed, At
<1>6. QED
  BY <1>2, <1>3, <1>5 DEF At

LEMMA ReturnOK ==
    ASSUME TypeOK, NEW w \in Workers, Return(w)
    PROVE  /\ JobOK(worker[w])' /\ ~At(w, "sending")'
           /\ \A v \in Workers : v # w => worker'[v] = worker[v]
BY ReturnType DEF JobOK, At, Idle

(* What the invariant says of a claimed worker and its row.                *)
LEMMA ClaimedFacts ==
    ASSUME TypeOK, RecoveryInv, NEW w \in Workers, Claimed(w)
    PROVE  /\ worker[w].row \in Resolutions /\ Mine(w) = row[worker[w].row]
           /\ Mine(w) \in Rows /\ RowOK(worker[w].row) /\ JobOK(worker[w])
           /\ worker[w].token # 0
           /\ Owns(w) => Mine(w).status \notin {"absent", "cancelled"}
<1>1. worker[w].row \in Resolutions /\ Mine(w) = row[worker[w].row] /\ Mine(w) \in Rows
  BY MineType DEF Claimed, Mine
<1>2. RowOK(worker[w].row) /\ JobOK(worker[w])
  BY <1>1 DEF RecoveryInv
<1>3. worker[w].token # 0
  BY <1>2 DEF JobOK, Claimed, At
<1>4. Owns(w) => Mine(w).status \notin {"absent", "cancelled"}
  BY <1>1, <1>2, <1>3 DEF Owns, RowOK
<1>5. QED
  BY <1>1, <1>2, <1>3, <1>4

(* Recording more than "definitely_not_sent" keeps the rows true, if what  *)
(* it calls completed was applied.                                         *)
LEMMA RecordedKeeps ==
    ASSUME TypeOK, RecoveryInv, NEW w \in Workers, Claimed(w),
           NEW d \in DispatchStates \ {"definitely_not_sent"}, Recorded(w, d),
           d = "completed" => Applied(worker[w].row), UNCHANGED <<effect, sends>>
    PROVE  \A r \in Resolutions : Kept(r) /\ RowOK(r)'
<1>1. CASE UNCHANGED row
  BY <1>1, SameRows
<1>2. CASE Owns(w) /\ Update(worker[w].row, [Mine(w) EXCEPT !.dispatch = d])
  <2>. DEFINE new == [Mine(w) EXCEPT !.dispatch = d]
  <2>1. /\ new \in Rows /\ new.dispatch = d /\ new.status = Mine(w).status
        /\ new.token = Mine(w).token
    BY ClaimedFacts DEF Rows
  <2>2. Update(worker[w].row, new)
    BY <1>2
  <2>. HIDE DEF new
  <2>3. new.status = "completed" => Applied(worker[w].row)
    BY <2>1, ClaimedFacts DEF RowOK
  <2>4. new.status \notin {"absent", "cancelled"}
    BY <1>2, <2>1, ClaimedFacts
  <2>5. worker[w].row \in Resolutions
    BY ClaimedFacts
  <2>6. QED
    BY <2>1, <2>2, <2>3, <2>4, <2>5, OneRow
<1>3. QED
  BY <1>1, <1>2 DEF Recorded

(* So do a completion of what was applied, a parking and a cancellation.   *)
LEMMA CompleteKeeps ==
    ASSUME TypeOK, TypeOK', RecoveryInv, NEW w \in Workers, Claimed(w), Complete(w),
           Applied(worker[w].row), UNCHANGED <<effect, sends, told>>
    PROVE  RecoveryInv'
<1>1. CASE Settleable(w)
  <2>. DEFINE new == [Released(w, "completed") EXCEPT !.dispatch = "completed"]
  <2>1. new \in Rows /\ new.status = "completed" /\ new.dispatch = "completed"
    BY ReleasedType DEF Rows, Statuses, DispatchStates, Claimed
  <2>2. Update(worker[w].row, new) /\ Goto(w, "completed")
    BY <1>1 DEF Complete
  <2>. HIDE DEF new
  <2>3. worker[w].row \in Resolutions
    BY ClaimedFacts
  <2>4. \A r \in Resolutions : Kept(r) /\ RowOK(r)'
    BY <2>1, <2>2, <2>3, OneRow
  <2>5. /\ JobOK(worker[w])' /\ ~At(w, "sending")'
        /\ \A v \in Workers : v # w => worker'[v] = worker[v]
    BY <2>2, <2>4, MoveOK DEF PCs, Past, Done
  <2>6. QED
    BY <2>4, <2>5, StepKeeps
<1>2. CASE ~Settleable(w)
  BY <1>2, SameRows, ReturnOK, StepKeeps DEF Complete
<1>3. QED
  BY <1>1, <1>2

LEMMA ParkKeeps ==
    ASSUME TypeOK, TypeOK', RecoveryInv, NEW w \in Workers, Claimed(w), Park(w),
           UNCHANGED <<effect, sends, told>>
    PROVE  RecoveryInv'
<1>1. CASE Settleable(w)
  <2>. DEFINE new == Released(w, "needs_review")
  <2>1. new \in Rows /\ new.status = "needs_review" /\ new.dispatch = Mine(w).dispatch
    BY ReleasedType DEF Statuses, Claimed
  <2>2. Update(worker[w].row, new) /\ Goto(w, "parked")
    BY <1>1 DEF Park
  <2>. HIDE DEF new
  <2>3. /\ worker[w].row \in Resolutions /\ Mine(w) = row[worker[w].row]
        /\ RowOK(worker[w].row)
    BY ClaimedFacts
  <2>4. \A r \in Resolutions : Kept(r) /\ RowOK(r)'
    BY <2>1, <2>2, <2>3, OneRow DEF RowOK, Journalled
  <2>5. /\ JobOK(worker[w])' /\ ~At(w, "sending")'
        /\ \A v \in Workers : v # w => worker'[v] = worker[v]
    BY <2>2, <2>4, MoveOK DEF PCs, Past, Done
  <2>6. QED
    BY <2>4, <2>5, StepKeeps
<1>2. CASE ~Settleable(w)
  BY <1>2, SameRows, ReturnOK, StepKeeps DEF Park
<1>3. QED
  BY <1>1, <1>2

LEMMA CancelKeeps ==
    ASSUME TypeOK, TypeOK', RecoveryInv, NEW w \in Workers, Claimed(w), Cancel(w),
           UNCHANGED <<effect, sends, told>>
    PROVE  RecoveryInv'
<1>1. CASE Settleable(w) /\ Mine(w).dispatch = "definitely_not_sent"
  <2>. DEFINE new == Released(w, "cancelled")
  <2>1. /\ new \in Rows /\ new.status = "cancelled" /\ new.dispatch = Mine(w).dispatch
        /\ new.token = 0
    BY ReleasedType DEF Statuses, Claimed
  <2>2. Update(worker[w].row, new)
    BY <1>1 DEF Cancel
  <2>. HIDE DEF new
  <2>3. worker[w].row \in Resolutions /\ Mine(w) = row[worker[w].row]
    BY ClaimedFacts
  <2>4. \A r \in Resolutions : Kept(r) /\ RowOK(r)'
    BY <1>1, <2>1, <2>2, <2>3, OneRow DEF Journalled
  <2>5. QED
    BY <2>4, ReturnOK, StepKeeps DEF Cancel
<1>2. CASE ~(Settleable(w) /\ Mine(w).dispatch = "definitely_not_sent")
  BY <1>2, SameRows, ReturnOK, StepKeeps DEF Cancel
<1>3. QED
  BY <1>1, <1>2

-----------------------------------------------------------------------------
(* The steps of a worker, one by one.                                      *)
LEMMA ClaimKeeps ==
    ASSUME TypeOK, TypeOK', RecoveryInv, NEW w \in Workers, Claim(w)
    PROVE  RecoveryInv'
<1>1. CASE ChooseCandidate(w)
  <2>1. PICK r \in Resolutions :
           /\ Candidate(r)
           /\ Become(w, [Idle EXCEPT !.pc = "candidate", !.row = r, !.valid = AuthorityValid(r)])
    BY <1>1 DEF ChooseCandidate
  <2>2. UNCHANGED <<row, effect, sends, told>>
    BY <1>1 DEF ChooseCandidate, tables, world
  <2>3. row[r].status # "absent"
    BY <2>1 DEF Candidate, Claimable
  <2>. DEFINE j == [Idle EXCEPT !.pc = "candidate", !.row = r, !.valid = AuthorityValid(r)]
  <2>4. /\ j.pc = "candidate" /\ j.row = r /\ j.dispatch = "definitely_not_sent"
        /\ j.saw = "nothing"
    BY DEF Idle
  <2>5. worker'[w] = j /\ \A v \in Workers : v # w => worker'[v] = worker[v]
    BY <2>1 DEF Become, TypeOK
  <2>. HIDE DEF j
  <2>6. JobOK(worker[w])' /\ ~At(w, "sending")'
    BY <2>2, <2>3, <2>4, <2>5 DEF JobOK, At, Past, Done
  <2>7. QED
    BY <2>2, <2>5, <2>6, SameRows, StepKeeps
<1>2. CASE ClaimRecovery(w)
  <2>a. PICK r : r = worker[w].row
    OBVIOUS
  <2>b. PICK new : new = [row[r] EXCEPT !.status = ClaimedStatus(row[r].dispatch),
                                        !.token = row[r].attempt + 1, !.lease = "live",
                                        !.attempt = @ + 1]
    OBVIOUS
  <2>c. PICK j : j = [worker[w] EXCEPT !.pc = "claimed", !.token = row[r].attempt + 1,
                                       !.dispatch = row[r].dispatch]
    OBVIOUS
  <2>1. /\ r \in Resolutions /\ worker[w] \in Jobs /\ JobOK(worker[w]) /\ RowOK(r)
        /\ worker[w].pc = "candidate"
    BY <1>2, <2>a, MineType DEF ClaimRecovery, At, RecoveryInv
  <2>2. UNCHANGED <<effect, sends, told>>
    BY <1>2 DEF ClaimRecovery, world
  <2>3. CASE Unowned(r)
    <3>1. Update(r, new) /\ Become(w, j)
      BY <1>2, <2>3, <2>a, <2>b, <2>c DEF ClaimRecovery
    <3>2. /\ new \in Rows /\ new.token # 0 /\ new.dispatch = row[r].dispatch
          /\ new.status \in {"executing", "observing", "completed"}
          /\ new.status = "completed" => row[r].dispatch = "completed"
          /\ new.token = row[r].attempt + 1
      <4>1. /\ new \in Rows /\ new.token # 0 /\ new.dispatch = row[r].dispatch
            /\ new.status \in {"executing", "observing", "completed"}
            /\ new.status = "completed" => row[r].dispatch = "completed"
        BY <2>1, <2>b, ClaimedType
      <4>2. new.token = row[r].attempt + 1
        BY <2>1, <2>b DEF TypeOK, Rows
      <4>3. QED
        BY <4>1, <4>2
    <3>3. /\ j.pc = "claimed" /\ j.row = r /\ j.token = row[r].attempt + 1
          /\ j.dispatch = row[r].dispatch /\ j.saw = worker[w].saw
      BY <2>1, <2>a, <2>c DEF Jobs
    <3>4. worker'[w] = j /\ \A v \in Workers : v # w => worker'[v] = worker[v]
      BY <3>1 DEF Become, TypeOK
    <3>5. row'[r] = new
      BY <2>1, <3>1 DEF Update, TypeOK
    <3>6. \A q \in Resolutions : Kept(q) /\ RowOK(q)'
      <4>1. new.dispatch = "completed" \/ new.status = "completed" => Applied(r)
        BY <2>1, <3>2 DEF RowOK
      <4>2. Journalled(r) => new.dispatch # "definitely_not_sent"
        BY <3>2 DEF Journalled
      <4>3. new.status \notin {"absent", "cancelled"}
        BY <3>2
      <4>4. QED
        BY <2>1, <2>2, <3>1, <3>2, <4>1, <4>2, <4>3, OneRow
    <3>7. JobOK(j)'
      <4>1. (j.dispatch = "completed" => Applied(j.row)) /\ (j.saw = "completed" => Applied(j.row))
        BY <2>1, <2>a, <3>3 DEF JobOK, RowOK
      <4>2. QED
        BY <2>2, <3>2, <3>3, <3>4, <3>5, <4>1 DEF JobOK, Past, Done, Journalled, Applied
    <3>8. JobOK(worker[w])' /\ ~At(w, "sending")'
      BY <3>3, <3>4, <3>7 DEF JobOK, At, Journalled, Applied
    <3>9. QED
      BY <2>2, <3>4, <3>6, <3>8, StepKeeps
  <2>4. CASE ~Unowned(r)
    BY <1>2, <2>2, <2>4, <2>a, SameRows, ReturnOK, StepKeeps DEF ClaimRecovery
  <2>5. QED
    BY <2>3, <2>4
<1>3. QED
  BY <1>1, <1>2 DEF Claim

(* Moving the boundary makes its worker the one sender.                    *)
LEMMA BeginKeeps ==
    ASSUME TypeOK, TypeOK', RecoveryInv, NEW w \in Workers, BeginRecoveryDispatch(w)
    PROVE  RecoveryInv'
<1>1. Claimed(w) /\ UNCHANGED <<effect, sends, told>>
  BY DEF BeginRecoveryDispatch, Claimed, At, world
<1>2. CASE MayDispatch(w)
  <2>a. PICK r : r = worker[w].row
    OBVIOUS
  <2>b. PICK new : new = [Mine(w) EXCEPT !.dispatch = "may_have_been_sent"]
    OBVIOUS
  <2>1. /\ r \in Resolutions /\ Mine(w) = row[r] /\ Mine(w) \in Rows /\ RowOK(r)
        /\ JobOK(worker[w]) /\ worker[w].token # 0
    BY <1>1, <2>a, ClaimedFacts
  <2>2. Update(r, new) /\ Goto(w, "sending")
    BY <1>2, <2>a, <2>b DEF BeginRecoveryDispatch
  <2>3. /\ new \in Rows /\ new.dispatch = "may_have_been_sent" /\ new.status = "executing"
        /\ ~Journalled(r)
    BY <1>2, <2>1, <2>b DEF MayDispatch, Rows, DispatchStates, Journalled
  <2>4. row'[r] = new
    BY <2>1, <2>2 DEF Update, TypeOK
  <2>5. \A q \in Resolutions : Kept(q) /\ RowOK(q)'
    BY <1>1, <2>1, <2>2, <2>3, OneRow
  <2>6. /\ worker'[w].pc = "sending" /\ worker'[w].row = r /\ worker'[w].token = worker[w].token
        /\ worker'[w].dispatch = worker[w].dispatch /\ worker'[w].saw = worker[w].saw
        /\ \A v \in Workers : v # w => worker'[v] = worker[v]
    BY <1>1, <2>2, <2>a, GotoFields DEF Claimed, PCs
  <2>7. JobOK(worker[w])'
    BY <1>1, <2>1, <2>3, <2>4, <2>6, <2>a DEF JobOK, RowOK, Past, Done, Journalled, Applied, Claimed, At
  <2>8. \A v \in Workers : v # w => JobOK(worker[v])'
    BY <1>1, <2>5, <2>6, Others
  <2>9. OneSender'
    <3>1. \A v \in Workers : v # w => ~(At(v, "sending")' /\ worker'[v].row = r)
      BY <2>3, <2>6 DEF RecoveryInv, JobOK, At, Past, Journalled
    <3>2. QED
      BY <2>6, <3>1 DEF RecoveryInv, OneSender, At
  <2>10. QED
    BY <1>1, <2>5, <2>7, <2>8, <2>9 DEF RecoveryInv, Kept
<1>3. CASE ~MayDispatch(w)
  BY <1>1, <1>3, SameRows, ReturnOK, StepKeeps DEF BeginRecoveryDispatch
<1>4. QED
  BY <1>2, <1>3

(* The executor is called by the one sender of a row that was never sent.  *)
LEMMA ExecuteKeeps ==
    ASSUME TypeOK, TypeOK', RecoveryInv, NEW w \in Workers, Execute(w)
    PROVE  RecoveryInv'
<1>a. PICK r : r = worker[w].row
  OBVIOUS
<1>1. Claimed(w) /\ worker[w].pc = "sending"
  BY DEF Execute, Claimed, At
<1>2. r \in Resolutions /\ RowOK(r) /\ JobOK(worker[w])
  BY <1>1, <1>a, ClaimedFacts
<1>3. sends[r] = 0 /\ effect[r] = "none" /\ Journalled(r)
  BY <1>1, <1>2, <1>a DEF JobOK, RowOK, Past
<1>4. /\ sends'[r] = 1 /\ effect'[r] = "in_flight" /\ UNCHANGED <<row, told>>
      /\ \A q \in Resolutions : q # r => sends'[q] = sends[q] /\ effect'[q] = effect[q]
  BY <1>2, <1>3, <1>a DEF Execute, TypeOK, tables
<1>5. /\ worker'[w].pc = "awaiting" /\ worker'[w].row = r /\ worker'[w].token = worker[w].token
      /\ worker'[w].dispatch = worker[w].dispatch /\ worker'[w].saw = worker[w].saw
      /\ \A v \in Workers : v # w => worker'[v] = worker[v]
  BY <1>1, <1>a, GotoFields DEF Execute, Claimed, PCs
<1>6. \A q \in Resolutions : Kept(q) /\ RowOK(q)'
  <2>1. Kept(r) /\ RowOK(r)'
    BY <1>2, <1>3, <1>4 DEF Kept, RowOK, Journalled, Applied
  <2>2. \A q \in Resolutions : q # r => Kept(q) /\ RowOK(q)'
    BY <1>4 DEF RecoveryInv, Kept, RowOK, Journalled, Applied
  <2>3. QED
    BY <2>1, <2>2
<1>7. JobOK(worker[w])'
  BY <1>1, <1>2, <1>3, <1>4, <1>5, <1>a DEF JobOK, Past, Done, Journalled, Applied
<1>8. ASSUME NEW v \in Workers, v # w PROVE JobOK(worker[v])'
  <2>1. At(v, "sending") => worker[v].row # r /\ worker[v].row \in Resolutions
    BY <1>1, <1>8, <1>a DEF RecoveryInv, OneSender, At, TypeOK
  <2>2. QED
    BY <1>4, <1>5, <1>6, <1>8, <2>1, Others
<1>9. OneSender'
  BY <1>5 DEF RecoveryInv, OneSender, At
<1>10. QED
  BY <1>4, <1>6, <1>7, <1>8, <1>9 DEF RecoveryInv, Kept

LEMMA DispatchKeeps ==
    ASSUME TypeOK, TypeOK', RecoveryInv, NEW w \in Workers, Dispatch(w)
    PROVE  RecoveryInv'
<1>. {"may_have_been_sent", "completed", "ambiguous"}
         \subseteq DispatchStates \ {"definitely_not_sent"}
     /\ {"awaiting", "sent", "failed", "confirmed", "unsettled"}
           \subseteq PCs \ {"idle", "candidate", "sending"}
  BY DEF DispatchStates, PCs
<1>1. Claimed(w)
  BY DEF Dispatch, FinishCompleted, CancelStale, BeginRecoveryDispatch, Execute, Succeeds,
         Throws, RecordSent, CompleteSent, TransitionThrows, RecordFailed, SettleAmbiguous, At,
         Claimed
<1>2. worker[w].row \in Resolutions /\ RowOK(worker[w].row) /\ JobOK(worker[w])
  BY <1>1, ClaimedFacts
<1>3. CASE FinishCompleted(w) \/ CompleteSent(w)
  <2>1. Applied(worker[w].row)
    BY <1>1, <1>2, <1>3 DEF FinishCompleted, CompleteSent, JobOK, Done, At, Claimed
  <2>2. QED
    BY <1>1, <1>3, <2>1, CompleteKeeps DEF FinishCompleted, CompleteSent, world
<1>4. CASE CancelStale(w)
  BY <1>1, <1>4, CancelKeeps DEF CancelStale, world
<1>5. CASE BeginRecoveryDispatch(w)
  BY <1>5, BeginKeeps
<1>6. CASE Execute(w)
  BY <1>6, ExecuteKeeps
<1>7. CASE Succeeds(w) \/ Throws(w) \/ TransitionThrows(w)
  <2>1. UNCHANGED <<row, effect, sends, told>>
    BY <1>7 DEF Succeeds, Throws, TransitionThrows, tables, world
  <2>2. \A r \in Resolutions : Kept(r) /\ RowOK(r)'
    BY <2>1, SameRows
  <2>3. Journalled(worker[w].row)
    BY <1>1, <1>2, <1>7 DEF Succeeds, Throws, TransitionThrows, JobOK, Past, At, Claimed
  <2>4. \/ Goto(w, "failed")
        \/ Goto(w, "unsettled")
        \/ Goto(w, "sent") /\ Applied(worker[w].row)
    BY <1>7 DEF Succeeds, Throws, TransitionThrows, Applied
  <2>5. worker'[w].row = worker[w].row
    BY <1>1, <2>4, GotoFields DEF Claimed
  <2>6. JobOK(worker[w])' /\ ~At(w, "sending")'
        /\ \A v \in Workers : v # w => worker'[v] = worker[v]
    BY <1>1, <2>1, <2>2, <2>3, <2>4, <2>5, MoveOK DEF Past, Done, Journalled
  <2>7. QED
    BY <2>1, <2>2, <2>6, StepKeeps
<1>8. CASE RecordSent(w) \/ RecordFailed(w)
  <2>1. /\ UNCHANGED <<effect, sends, told>>
        /\ \/ Recorded(w, "completed") /\ Goto(w, "confirmed") /\ Applied(worker[w].row)
           \/ Recorded(w, "may_have_been_sent") /\ Goto(w, "unsettled")
    BY <1>1, <1>2, <1>8 DEF RecordSent, RecordFailed, JobOK, Done, At, Claimed, world
  <2>2. \A r \in Resolutions : Kept(r) /\ RowOK(r)'
    BY <1>1, <2>1, RecordedKeeps
  <2>3. Journalled(worker[w].row)
    BY <1>1, <1>2, <1>8 DEF RecordSent, RecordFailed, JobOK, Past, At, Claimed
  <2>4. worker'[w].row = worker[w].row
    BY <1>1, <2>1, GotoFields DEF Claimed
  <2>5. Journalled(worker[w].row)'
    BY <1>2, <2>2, <2>3, <2>4 DEF Kept, Journalled
  <2>6. JobOK(worker[w])' /\ ~At(w, "sending")'
        /\ \A v \in Workers : v # w => worker'[v] = worker[v]
    BY <1>1, <2>1, <2>2, <2>5, MoveOK DEF Past, Done
  <2>7. QED
    BY <2>1, <2>2, <2>6, StepKeeps
<1>9. CASE SettleAmbiguous(w)
  BY <1>1, <1>9, ParkKeeps DEF SettleAmbiguous, world
<1>10. QED
  BY <1>3, <1>4, <1>5, <1>6, <1>7, <1>8, <1>9 DEF Dispatch

LEMMA LookKeeps ==
    ASSUME TypeOK, TypeOK', RecoveryInv, NEW w \in Workers, Look(w)
    PROVE  RecoveryInv'
<1>. {"completed", "ambiguous"} \subseteq DispatchStates \ {"definitely_not_sent"}
     /\ {"confirmed", "unsettled"} \subseteq PCs \ {"idle", "candidate", "sending"}
  BY DEF DispatchStates, PCs
<1>1. Claimed(w)
  BY DEF Look, ParkUnobservable, Observe, ObserveThrows, RecordObserved, Ambiguous, At, Claimed
<1>2. worker[w].row \in Resolutions /\ RowOK(worker[w].row) /\ JobOK(worker[w])
  BY <1>1, ClaimedFacts
<1>3. CASE ParkUnobservable(w)
  BY <1>1, <1>3, ParkKeeps DEF ParkUnobservable, world
<1>4. CASE Observe(w)
  <2>1. PICK outcome \in Observed(worker[w].row) :
              Become(w, [worker[w] EXCEPT !.pc = "observed", !.saw = outcome])
    BY <1>4 DEF Observe
  <2>2. UNCHANGED <<row, effect, sends, told>>
    BY <1>4 DEF Observe, tables, world
  <2>3. Journalled(worker[w].row)
    BY <1>1, <1>2, <1>4 DEF Observe, Ambiguous, JobOK, At, Claimed
  <2>4. outcome = "completed" => Applied(worker[w].row)
    BY DEF Observed, Applied
  <2>5. /\ worker'[w].pc = "observed" /\ worker'[w].row = worker[w].row
        /\ worker'[w].token = worker[w].token /\ worker'[w].dispatch = worker[w].dispatch
        /\ worker'[w].saw = outcome
        /\ \A v \in Workers : v # w => worker'[v] = worker[v]
    BY <1>1, <2>1, MineType DEF Become, TypeOK, Jobs, Claimed
  <2>6. JobOK(worker[w])' /\ ~At(w, "sending")'
    BY <1>1, <1>2, <2>2, <2>3, <2>4, <2>5
       DEF JobOK, Past, Done, Journalled, Applied, At, Claimed
  <2>7. QED
    BY <2>2, <2>5, <2>6, SameRows, StepKeeps
<1>5. CASE ObserveThrows(w)
  <2>1. UNCHANGED <<row, effect, sends, told>> /\ Goto(w, "unsettled")
    BY <1>5 DEF ObserveThrows, tables, world
  <2>2. Journalled(worker[w].row)
    BY <1>1, <1>2, <1>5 DEF ObserveThrows, Ambiguous, JobOK, At, Claimed
  <2>3. worker'[w].row = worker[w].row
    BY <1>1, <2>1, GotoFields DEF Claimed
  <2>4. \A r \in Resolutions : Kept(r) /\ RowOK(r)'
    BY <2>1, SameRows
  <2>5. JobOK(worker[w])' /\ ~At(w, "sending")'
        /\ \A v \in Workers : v # w => worker'[v] = worker[v]
    BY <1>1, <2>1, <2>2, <2>3, <2>4, MoveOK DEF Past, Done, Journalled
  <2>6. QED
    BY <2>1, <2>4, <2>5, StepKeeps
<1>6. CASE RecordObserved(w)
  <2>1. /\ UNCHANGED <<effect, sends, told>>
        /\ \/ /\ Recorded(w, "completed") /\ Goto(w, "confirmed")
              /\ Applied(worker[w].row)
           \/ Recorded(w, "ambiguous") /\ Goto(w, "unsettled")
    BY <1>1, <1>2, <1>6 DEF RecordObserved, JobOK, At, Claimed, world
  <2>2. \A r \in Resolutions : Kept(r) /\ RowOK(r)'
    BY <1>1, <2>1, RecordedKeeps
  <2>3. Journalled(worker[w].row)
    BY <1>1, <1>2, <1>6 DEF RecordObserved, JobOK, Past, At, Claimed
  <2>4. worker'[w].row = worker[w].row
    BY <1>1, <2>1, GotoFields DEF Claimed
  <2>5. Journalled(worker[w].row)'
    BY <1>2, <2>2, <2>3, <2>4 DEF Kept, Journalled
  <2>6. JobOK(worker[w])' /\ ~At(w, "sending")'
        /\ \A v \in Workers : v # w => worker'[v] = worker[v]
    BY <1>1, <2>1, <2>2, <2>5, MoveOK DEF Past, Done
  <2>7. QED
    BY <2>1, <2>2, <2>6, StepKeeps
<1>7. QED
  BY <1>3, <1>4, <1>5, <1>6 DEF Look

(* What is told of a completed recovery is told by a worker that knows.    *)
LEMMA ReportKeeps ==
    ASSUME TypeOK, TypeOK', RecoveryInv, NEW w \in Workers, Report(w)
    PROVE  RecoveryInv'
<1>1. Claimed(w) /\ {"resolved", "escalated"} \subseteq PCs \ {"idle", "candidate", "sending"}
  BY DEF Report, TellResolved, QueueWebhook, TellParked, OpenHumanReview, At, PCs, Claimed
<1>2. worker[w].row \in Resolutions /\ JobOK(worker[w])
  BY <1>1, ClaimedFacts
<1>3. UNCHANGED <<row, effect, sends>>
  BY DEF Report, TellResolved, QueueWebhook, TellParked, OpenHumanReview, Tell, world
<1>4. \A r \in Resolutions : Kept(r) /\ RowOK(r)'
  BY <1>3, SameRows
<1>5. \/ Return(w)
      \/ Goto(w, "escalated")
      \/ Goto(w, "resolved") /\ Applied(worker[w].row)
  BY <1>1, <1>2
     DEF Report, TellResolved, QueueWebhook, TellParked, OpenHumanReview, Tell, JobOK, Done, At,
         Claimed
<1>6. JobOK(worker[w])' /\ ~At(w, "sending")'
      /\ \A v \in Workers : v # w => worker'[v] = worker[v]
  BY <1>1, <1>4, <1>5, MoveOK, ReturnOK DEF Past, Done
<1>7. "recovery.completed" \in told' \ told => At(w, "resolved")
  BY DEF Report, TellResolved, QueueWebhook, TellParked, OpenHumanReview, Tell
<1>8. At(w, "resolved") => Applied(worker[w].row)
  BY <1>1, <1>2 DEF JobOK, Done, At, Claimed
<1>9. QED
  BY <1>2, <1>3, <1>4, <1>6, <1>7, <1>8, StepKeeps

(* Nobody steps: neither do rows lose anything, nor a send begin.          *)
LEMMA WorldKeeps ==
    ASSUME TypeOK, RecoveryInv, UNCHANGED <<worker, sends, told>>,
           \A r \in Resolutions : Kept(r) /\ RowOK(r)'
    PROVE  RecoveryInv'
<1>1. \A v \in Workers : JobOK(worker[v])'
  BY Others
<1>2. OneSender'
  BY DEF RecoveryInv, OneSender, At
<1>3. QED
  BY <1>1, <1>2 DEF RecoveryInv, Kept

LEMMA InvStep == TypeOK /\ TypeOK' /\ RecoveryInv /\ [Next]_vars => RecoveryInv'
<1>. SUFFICES ASSUME TypeOK, TypeOK', RecoveryInv, [Next]_vars PROVE RecoveryInv'
  OBVIOUS
<1>0. CASE UNCHANGED vars
  BY <1>0, SameRows, WorldKeeps DEF vars
<1>1. ASSUME NEW operation \in RecoveryOperations, AuthorizeRecovery(operation)
      PROVE  RecoveryInv'
  <2>a. PICK new : new = [NoRow EXCEPT !.status = "authorized", !.operation = operation,
                                       !.evidence = evidence]
    OBVIOUS
  <2>1. /\ new \in Rows /\ new.dispatch = "definitely_not_sent" /\ new.status = "authorized"
    BY <2>a, NewRowType
  <2>2. /\ sequence \in Resolutions /\ Update(sequence, new) /\ row[sequence].status = "absent"
        /\ UNCHANGED <<worker, sends, effect, told>>
    BY <1>1, <2>a DEF AuthorizeRecovery, world
  <2>3. ~Journalled(sequence)
    BY <2>2 DEF RecoveryInv, RowOK
  <2>4. \A r \in Resolutions : Kept(r) /\ RowOK(r)'
    BY <2>1, <2>2, <2>3, OneRow
  <2>5. QED
    BY <2>2, <2>4, WorldKeeps
<1>2. ASSUME NEW w \in Workers, RunOne(w) PROVE RecoveryInv'
  BY <1>2, ClaimKeeps, DispatchKeeps, LookKeeps, ReportKeeps DEF RunOne
<1>3. ASSUME NEW w \in Workers, Crash(w) PROVE RecoveryInv'
  BY <1>3, SameRows, ReturnOK, StepKeeps DEF Crash, tables, world
<1>4. CASE EvidenceArrives \/ Reresolve \/ DeadlinePasses
  BY <1>4, SameRows, WorldKeeps DEF EvidenceArrives, Reresolve, DeadlinePasses, tables, world
<1>5. ASSUME NEW r \in Resolutions, LeaseLapses(r) \/ WorkerPauses(r)
      PROVE  RecoveryInv'
  <2>a. PICK new : new = [row[r] EXCEPT !.lease = "lapsed"]
    OBVIOUS
  <2>1. /\ Update(r, new) /\ row[r].lease = "live" /\ UNCHANGED <<worker, sends, effect, told>>
    BY <1>5, <2>a DEF LeaseLapses, WorkerPauses, Lapse, world
  <2>2. /\ new \in Rows /\ new.dispatch = row[r].dispatch /\ new.status = row[r].status
        /\ new.token = row[r].token
    <3>1. row[r] \in Rows
      BY DEF TypeOK
    <3>2. QED
      BY <2>a, <3>1 DEF Rows
  <2>3. RowOK(r)
    BY DEF RecoveryInv
  <2>4. \A q \in Resolutions : Kept(q) /\ RowOK(q)'
    BY <2>1, <2>2, <2>3, OneRow DEF RowOK, Journalled
  <2>5. QED
    BY <2>1, <2>4, WorldKeeps
<1>6. ASSUME NEW r \in Resolutions, Land(r) PROVE RecoveryInv'
  <2>1. /\ UNCHANGED <<row, worker, sends, told>> /\ effect[r] = "in_flight"
        /\ effect'[r] = "applied" /\ \A q \in Resolutions : q # r => effect'[q] = effect[q]
    BY <1>6 DEF Land, TypeOK, tables
  <2>2. Kept(r) /\ RowOK(r)'
    BY <2>1 DEF RecoveryInv, Kept, RowOK, Journalled, Applied
  <2>3. \A q \in Resolutions : q # r => Kept(q) /\ RowOK(q)'
    BY <2>1 DEF RecoveryInv, Kept, RowOK, Journalled, Applied
  <2>4. QED
    BY <2>1, <2>2, <2>3, WorldKeeps
<1>7. QED
  BY <1>0, <1>1, <1>2, <1>3, <1>4, <1>5, <1>6 DEF Next

LEMMA InvAlways == Spec => [](TypeOK /\ RecoveryInv)
<1>1. Init => TypeOK /\ RecoveryInv
  BY TypeInit, InvInit
<1>2. TypeOK /\ RecoveryInv /\ [Next]_vars => (TypeOK /\ RecoveryInv)'
  BY StepType, InvStep
<1>3. QED
  BY <1>1, <1>2, PTL DEF Spec

(* S1 for any number of workers, resolutions, crashes and lost leases: the *)
(* executor of a recovery is called at most once, and a row it was called  *)
(* for is neither unsent nor cancelled.                                    *)
THEOREM SentOnceTheorem == Spec => []SentAtMostOnce
BY InvAlways, InvGives, PTL

(* What is stored, or told, as a completed recovery took effect.           *)
THEOREM CompletedTheorem == Spec => []CompletedIsTrue
BY InvAlways, InvGives, PTL

-----------------------------------------------------------------------------
(* Only the holder of the current claim settles a row.                     *)
MaySettle(r) ==
    \/ \E w \in Workers : worker[w].row = r /\ worker[w].token = row[r].token
                          /\ worker[w].pc \notin {"idle", "candidate"}
    \/ row[r].dispatch = "completed" /\ row'[r].attempt > row[r].attempt

Settles(r) == row[r].status \notin Settled /\ row'[r].status \in Settled

(* A worker that writes the row of its current claim may settle it.        *)
LEMMA OwnerSettles ==
    ASSUME TypeOK, NEW w \in Workers, Claimed(w), Owns(w), NEW new, Update(worker[w].row, new)
    PROVE  \A r \in Resolutions : Settles(r) => MaySettle(r)
<1>1. \A r \in Resolutions : r # worker[w].row => row'[r] = row[r]
  BY DEF Update, TypeOK
<1>2. worker[w].row \in Resolutions => MaySettle(worker[w].row)
  BY DEF MaySettle, Claimed, At, Owns, Mine
<1>3. QED
  BY <1>1, <1>2 DEF Settles

(* A row that keeps its status settles nothing.                            *)
LEMMA SameStatus ==
    ASSUME TypeOK, NEW r \in Resolutions, NEW new, Update(r, new),
           new.status = row[r].status \/ new.status \notin Settled
    PROVE  \A q \in Resolutions : ~Settles(q)
BY DEF Settles, Update, TypeOK

LEMMA SettlesStep == TypeOK /\ [Next]_vars => \A r \in Resolutions : Settles(r) => MaySettle(r)
<1>. SUFFICES ASSUME TypeOK, [Next]_vars
              PROVE  \A r \in Resolutions : Settles(r) => MaySettle(r)
  OBVIOUS
<1>0. CASE UNCHANGED row
  BY <1>0 DEF Settles
<1>1. ASSUME NEW operation \in RecoveryOperations, AuthorizeRecovery(operation)
      PROVE  \A r \in Resolutions : Settles(r) => MaySettle(r)
  <2>a. PICK new : new = [NoRow EXCEPT !.status = "authorized", !.operation = operation,
                                       !.evidence = evidence]
    OBVIOUS
  <2>1. sequence \in Resolutions /\ Update(sequence, new)
    BY <1>1, <2>a DEF AuthorizeRecovery
  <2>2. new.status \notin Settled
    BY <2>a, NewRowType DEF Settled
  <2>3. QED
    BY <2>1, <2>2, SameStatus
<1>2. ASSUME NEW w \in Workers, ClaimRecovery(w)
      PROVE  \A r \in Resolutions : Settles(r) => MaySettle(r)
  <2>a. PICK r : r = worker[w].row
    OBVIOUS
  <2>b. PICK new : new = [row[r] EXCEPT !.status = ClaimedStatus(row[r].dispatch),
                                        !.token = row[r].attempt + 1, !.lease = "live",
                                        !.attempt = @ + 1]
    OBVIOUS
  <2>1. r \in Resolutions /\ row[r] \in Rows /\ (UNCHANGED row \/ Update(r, new))
    BY <1>2, <2>a, <2>b, MineType DEF ClaimRecovery, At, Mine
  <2>2. new.attempt = row[r].attempt + 1 /\ row[r].attempt \in Nat
    BY <2>1, <2>b DEF Rows
  <2>3. new.status \in {"executing", "observing", "completed"}
        /\ (new.status = "completed" => row[r].dispatch = "completed")
    BY <2>1, <2>b, ClaimedType
  <2>4. CASE new.status = "completed" /\ Update(r, new)
    <3>1. row'[r] = new /\ \A q \in Resolutions : q # r => row'[q] = row[q]
      BY <2>1, <2>4 DEF Update, TypeOK
    <3>2. MaySettle(r)
      BY <2>2, <2>3, <2>4, <3>1 DEF MaySettle
    <3>3. QED
      BY <3>1, <3>2 DEF Settles
  <2>5. CASE new.status # "completed" /\ Update(r, new)
    BY <2>1, <2>3, <2>5, SameStatus DEF Settled
  <2>6. CASE UNCHANGED row
    BY <2>6 DEF Settles
  <2>7. QED
    BY <2>1, <2>4, <2>5, <2>6
<1>3. ASSUME NEW w \in Workers, Dispatch(w) \/ Look(w)
      PROVE  \A r \in Resolutions : Settles(r) => MaySettle(r)
  <2>1. Claimed(w)
    BY <1>3
       DEF Dispatch, FinishCompleted, CancelStale, BeginRecoveryDispatch, Execute, Succeeds,
           Throws, RecordSent, CompleteSent, TransitionThrows, RecordFailed, SettleAmbiguous, At,
           Look, ParkUnobservable, Observe, ObserveThrows, RecordObserved, Ambiguous, Claimed
  <2>2. \/ UNCHANGED row
        \/ Owns(w) /\ \E new : Update(worker[w].row, new)
    BY <1>3
       DEF Dispatch, FinishCompleted, CancelStale, BeginRecoveryDispatch, Execute, Succeeds,
           Throws, RecordSent, CompleteSent, TransitionThrows, RecordFailed, SettleAmbiguous,
           Look, ParkUnobservable, Observe, ObserveThrows, RecordObserved, tables,
           Complete, Cancel, Park, Recorded, Settleable, MayDispatch
  <2>3. QED
    BY <2>1, <2>2, OwnerSettles DEF Settles
<1>4. ASSUME NEW r \in Resolutions, LeaseLapses(r) \/ WorkerPauses(r)
      PROVE  \A q \in Resolutions : Settles(q) => MaySettle(q)
  <2>a. PICK new : new = [row[r] EXCEPT !.lease = "lapsed"]
    OBVIOUS
  <2>1. Update(r, new) /\ row[r] \in Rows
    BY <1>4, <2>a DEF LeaseLapses, WorkerPauses, Lapse, TypeOK
  <2>2. new.status = row[r].status
    BY <2>1, <2>a DEF Rows
  <2>3. QED
    BY <2>1, <2>2, SameStatus
<1>5. QED
  BY <1>0, <1>1, <1>2, <1>3, <1>4
     DEF Next, vars, RunOne, Claim, ChooseCandidate, Report, TellResolved, QueueWebhook,
         TellParked, OpenHumanReview, Tell, Crash, EvidenceArrives, Reresolve, DeadlinePasses,
         Land, tables

(* A worker that wakes after its row was taken over settles nothing.       *)
THEOREM OwnersTheorem == Spec => OnlyOwnersSettle
<1>1. TypeOK /\ [Next]_vars =>
        [\A r \in Resolutions :
            row[r].status \notin Settled /\ row'[r].status \in Settled =>
               \/ \E w \in Workers : worker[w].row = r /\ worker[w].token = row[r].token
                                     /\ worker[w].pc \notin {"idle", "candidate"}
               \/ row[r].dispatch = "completed" /\ row'[r].attempt > row[r].attempt]_vars
  BY SettlesStep DEF Settles, MaySettle
<1>2. QED
  BY <1>1, TypeInit, StepType, PTL DEF Spec, OnlyOwnersSettle

-----------------------------------------------------------------------------
(* The refinement.                                                         *)
Unseen(r) ==
    /\ Journal(r)' = Journal(r)
    /\ r \in Permitted' <=> r \in Permitted
    /\ r \in Sent' <=> r \in Sent
    /\ r \in Landed' <=> r \in Landed

LEMMA Subsets == Permitted \subseteq Resolutions /\ Sent \subseteq Resolutions
                 /\ Landed \subseteq Resolutions
BY DEF Permitted, Sent, Landed

LEMMA SubsetsPrime == Permitted' \subseteq Resolutions /\ Sent' \subseteq Resolutions
                      /\ Landed' \subseteq Resolutions
BY DEF Permitted, Sent, Landed

LEMMA Stutter ==
    ASSUME \A r \in Resolutions : Unseen(r)
    PROVE  UNCHANGED Promise!vars
BY Subsets, SubsetsPrime DEF Unseen, Promise!vars

LEMMA JournalMoves ==
    ASSUME NEW r \in Resolutions, \A q \in Resolutions : q # r => Journal(q)' = Journal(q)
    PROVE  [q \in Resolutions |-> Journal(q)']
               = [[q \in Resolutions |-> Journal(q)] EXCEPT ![r] = Journal(r)']
OBVIOUS

LEMMA OpenStep ==
    ASSUME NEW r \in Resolutions, \A q \in Resolutions : q # r => Unseen(q),
           Journal(r) = "unsent", Journal(r)' = "possible", r \in Permitted',
           r \in Sent' <=> r \in Sent, r \in Landed' <=> r \in Landed
    PROVE  Promise!Open(r)
<1>1. [q \in Resolutions |-> Journal(q)']
          = [[q \in Resolutions |-> Journal(q)] EXCEPT ![r] = "possible"]
  BY JournalMoves DEF Unseen
<1>2. [q \in Resolutions |-> Journal(q)][r] = "unsent"
  OBVIOUS
<1>3. Permitted' = Permitted \union {r} /\ Sent' = Sent /\ Landed' = Landed
  BY Subsets, SubsetsPrime DEF Unseen
<1>4. QED
  BY <1>1, <1>2, <1>3 DEF Promise!Open

LEMMA SendStep ==
    ASSUME NEW r \in Resolutions, \A q \in Resolutions : q # r => Unseen(q),
           r \in Permitted, r \notin Sent, Journal(r)' = Journal(r), r \notin Permitted',
           r \in Sent', r \in Landed' <=> r \in Landed
    PROVE  Promise!Send(r)
BY Subsets, SubsetsPrime DEF Promise!Send, Unseen

LEMMA ForfeitStep ==
    ASSUME NEW r \in Resolutions, \A q \in Resolutions : q # r => Unseen(q),
           r \in Permitted, Journal(r)' = Journal(r), r \notin Permitted',
           r \in Sent' <=> r \in Sent, r \in Landed' <=> r \in Landed
    PROVE  Promise!Forfeit(r)
BY Subsets, SubsetsPrime DEF Promise!Forfeit, Unseen

LEMMA LandStep ==
    ASSUME NEW r \in Resolutions, \A q \in Resolutions : q # r => Unseen(q),
           r \in Sent, r \notin Landed, Journal(r)' = Journal(r),
           r \in Permitted' <=> r \in Permitted, r \in Sent' <=> r \in Sent, r \in Landed'
    PROVE  Promise!Land(r)
BY Subsets, SubsetsPrime DEF Promise!Land, Unseen

LEMMA CloseStep ==
    ASSUME NEW r \in Resolutions, \A q \in Resolutions : q # r => Unseen(q),
           Journal(r) = "possible", r \in Landed, Journal(r)' = "done",
           r \in Permitted' <=> r \in Permitted, r \in Sent' <=> r \in Sent,
           r \in Landed' <=> r \in Landed
    PROVE  Promise!Close(r)
<1>1. [q \in Resolutions |-> Journal(q)']
          = [[q \in Resolutions |-> Journal(q)] EXCEPT ![r] = "done"]
  BY JournalMoves DEF Unseen
<1>2. [q \in Resolutions |-> Journal(q)][r] = "possible"
  OBVIOUS
<1>3. Permitted' = Permitted /\ Sent' = Sent /\ Landed' = Landed
  BY Subsets, SubsetsPrime DEF Unseen
<1>4. QED
  BY <1>1, <1>2, <1>3 DEF Promise!Close

(* Who may send is the same when nobody starts or ends to.                 *)
LEMMA SamePermitted ==
    ASSUME NEW w \in Workers, ~At(w, "sending"), ~At(w, "sending")',
           \A v \in Workers : v # w => worker'[v] = worker[v]
    PROVE  Permitted' = Permitted
BY DEF Permitted, At

(* A step of a worker outside its send, that keeps every journal.          *)
LEMMA QuietUnseen ==
    ASSUME NEW w \in Workers, ~At(w, "sending"), ~At(w, "sending")',
           \A v \in Workers : v # w => worker'[v] = worker[v],
           UNCHANGED <<effect, sends>>,
           \A r \in Resolutions : row'[r].dispatch = row[r].dispatch
    PROVE  \A r \in Resolutions : Unseen(r)
BY SamePermitted DEF Unseen, Journal, Sent, Landed

(* A step of a worker outside its send that writes one row whose journal   *)
(* was open: it stays so, or closes on what was applied.                   *)
LEMMA JournalStep ==
    ASSUME TypeOK, NEW w \in Workers, ~At(w, "sending"), ~At(w, "sending")',
           \A v \in Workers : v # w => worker'[v] = worker[v],
           UNCHANGED <<effect, sends>>,
           NEW r \in Resolutions, NEW new, Update(r, new),
           Journalled(r), new.dispatch # "definitely_not_sent",
           row[r].dispatch = "completed" => new.dispatch = "completed",
           new.dispatch = "completed" => Applied(r)
    PROVE  Promise!Next \/ \A q \in Resolutions : Unseen(q)
<1>1. row'[r] = new /\ \A q \in Resolutions : q # r => row'[q] = row[q]
  BY DEF TypeOK, Update
<1>2. Permitted' = Permitted /\ Sent' = Sent /\ Landed' = Landed
  BY SamePermitted DEF Sent, Landed
<1>3. \A q \in Resolutions : q # r => Unseen(q)
  BY <1>1, <1>2 DEF Unseen, Journal
<1>4. CASE Journal(r)' = Journal(r)
  BY <1>2, <1>3, <1>4 DEF Unseen
<1>5. CASE Journal(r)' # Journal(r)
  <2>1. Journal(r) = "possible" /\ Journal(r)' = "done" /\ r \in Landed
    BY <1>1, <1>5 DEF Journal, Journalled, Landed, Applied
  <2>2. Promise!Close(r)
    BY <1>2, <1>3, <2>1, CloseStep
  <2>3. QED
    BY <2>2 DEF Promise!Next
<1>6. QED
  BY <1>4, <1>5

(* What a worker that moves on, or returns, does to the other workers.     *)
LEMMA OutsideSend ==
    ASSUME TypeOK, NEW w \in Workers, Claimed(w),
           Return(w) \/ \E pc \in PCs \ {"idle", "candidate", "sending"} : Goto(w, pc)
    PROVE  ~At(w, "sending")' /\ \A v \in Workers : v # w => worker'[v] = worker[v]
<1>1. CASE Return(w)
  BY <1>1, ReturnType, IdleType DEF At
<1>2. ASSUME NEW pc \in PCs \ {"idle", "candidate", "sending"}, Goto(w, pc)
      PROVE  ~At(w, "sending")' /\ \A v \in Workers : v # w => worker'[v] = worker[v]
  BY <1>2, GotoFields DEF At, Claimed
<1>3. QED
  BY <1>1, <1>2

(* A record of a worker that is past the gate.                             *)
LEMMA RecordedStep ==
    ASSUME TypeOK, RecoveryInv, NEW w \in Workers, Claimed(w), ~At(w, "sending"),
           NEW pc \in PCs \ {"idle", "candidate", "sending"}, Goto(w, pc),
           NEW d \in {"may_have_been_sent", "ambiguous", "completed"}, Recorded(w, d),
           Journalled(worker[w].row), d = "completed" => Applied(worker[w].row),
           UNCHANGED <<effect, sends>>
    PROVE  Promise!Next \/ \A q \in Resolutions : Unseen(q)
<1>1. ~At(w, "sending")' /\ \A v \in Workers : v # w => worker'[v] = worker[v]
  BY OutsideSend
<1>2. CASE UNCHANGED row
  BY <1>1, <1>2, QuietUnseen
<1>3. CASE /\ Boundary(d) >= Boundary(Mine(w).dispatch)
           /\ Update(worker[w].row, [Mine(w) EXCEPT !.dispatch = d])
  <2>a. PICK new : new = [Mine(w) EXCEPT !.dispatch = d]
    OBVIOUS
  <2>1. worker[w].row \in Resolutions /\ Mine(w) = row[worker[w].row] /\ Mine(w) \in Rows
    BY ClaimedFacts
  <2>2. new.dispatch = d /\ Update(worker[w].row, new)
    BY <1>3, <2>1, <2>a DEF Rows
  <2>3. Mine(w).dispatch = "completed" => d = "completed"
    BY <1>3 DEF Boundary
  <2>4. QED
    BY <1>1, <2>1, <2>2, <2>3, JournalStep
<1>4. QED
  BY <1>2, <1>3 DEF Recorded

LEMMA CompleteStep ==
    ASSUME TypeOK, RecoveryInv, NEW w \in Workers, Claimed(w), ~At(w, "sending"), Complete(w),
           Journalled(worker[w].row), Applied(worker[w].row), UNCHANGED <<effect, sends>>
    PROVE  Promise!Next \/ \A q \in Resolutions : Unseen(q)
<1>1. ~At(w, "sending")' /\ \A v \in Workers : v # w => worker'[v] = worker[v]
  BY OutsideSend DEF Complete, PCs
<1>2. CASE Settleable(w)
  <2>a. PICK new : new = [Released(w, "completed") EXCEPT !.dispatch = "completed"]
    OBVIOUS
  <2>1. new.dispatch = "completed"
    BY <2>a, ReleasedType DEF Rows, Statuses, Claimed
  <2>2. worker[w].row \in Resolutions /\ Update(worker[w].row, new)
    BY <1>2, <2>a, ClaimedFacts DEF Complete
  <2>3. QED
    BY <1>1, <2>1, <2>2, JournalStep
<1>3. CASE ~Settleable(w)
  BY <1>1, <1>3, QuietUnseen DEF Complete
<1>4. QED
  BY <1>2, <1>3

(* A row that is released keeps its journal.                               *)
LEMMA ReleaseStep ==
    ASSUME TypeOK, RecoveryInv, NEW w \in Workers, Claimed(w), ~At(w, "sending"),
           Park(w) \/ Cancel(w), UNCHANGED <<effect, sends>>
    PROVE  \A q \in Resolutions : Unseen(q)
<1>1. ~At(w, "sending")' /\ \A v \in Workers : v # w => worker'[v] = worker[v]
  BY OutsideSend DEF Park, Cancel, PCs
<1>2. \/ UNCHANGED row
      \/ \E status \in Statuses : Update(worker[w].row, Released(w, status))
  BY DEF Park, Cancel, Statuses
<1>3. ASSUME NEW status \in Statuses, Update(worker[w].row, Released(w, status))
      PROVE  \A r \in Resolutions : row'[r].dispatch = row[r].dispatch
  <2>1. Released(w, status).dispatch = Mine(w).dispatch
    BY ReleasedType DEF Claimed
  <2>2. worker[w].row \in Resolutions /\ Mine(w) = row[worker[w].row]
    BY ClaimedFacts
  <2>3. QED
    BY <1>3, <2>1, <2>2 DEF Update, TypeOK
<1>4. QED
  BY <1>1, <1>2, <1>3, QuietUnseen

LEMMA BeginStep ==
    ASSUME TypeOK, RecoveryInv, NEW w \in Workers, BeginRecoveryDispatch(w)
    PROVE  Promise!Next \/ \A q \in Resolutions : Unseen(q)
<1>a. PICK r : r = worker[w].row
  OBVIOUS
<1>1. Claimed(w) /\ ~At(w, "sending") /\ UNCHANGED <<effect, sends>>
  BY DEF BeginRecoveryDispatch, Claimed, At, world
<1>2. r \in Resolutions /\ Mine(w) = row[r] /\ Mine(w) \in Rows
  BY <1>1, <1>a, ClaimedFacts
<1>3. CASE MayDispatch(w)
  <2>1. Update(r, [Mine(w) EXCEPT !.dispatch = "may_have_been_sent"]) /\ Goto(w, "sending")
        /\ Mine(w).dispatch = "definitely_not_sent"
    BY <1>3, <1>a DEF BeginRecoveryDispatch, MayDispatch
  <2>2. row'[r].dispatch = "may_have_been_sent" /\ \A q \in Resolutions : q # r => row'[q] = row[q]
    BY <1>2, <2>1 DEF Update, TypeOK, Rows
  <2>3. /\ worker'[w].pc = "sending" /\ worker'[w].row = r
        /\ \A v \in Workers : v # w => worker'[v] = worker[v]
    BY <1>1, <1>a, <2>1, GotoFields DEF Claimed, PCs
  <2>4. Journal(r) = "unsent" /\ Journal(r)' = "possible"
    BY <1>2, <2>1, <2>2 DEF Journal
  <2>5. r \in Permitted' /\ \A q \in Resolutions : q # r => (q \in Permitted' <=> q \in Permitted)
    BY <1>1, <1>2, <2>3 DEF Permitted, At
  <2>6. Sent' = Sent /\ Landed' = Landed
    BY <1>1 DEF Sent, Landed
  <2>7. \A q \in Resolutions : q # r => Unseen(q)
    BY <2>2, <2>5, <2>6 DEF Unseen, Journal
  <2>8. Promise!Open(r)
    BY <1>2, <2>4, <2>5, <2>6, <2>7, OpenStep
  <2>9. QED
    BY <1>2, <2>8 DEF Promise!Next
<1>4. CASE ~MayDispatch(w)
  BY <1>1, <1>4, OutsideSend, QuietUnseen DEF BeginRecoveryDispatch
<1>5. QED
  BY <1>3, <1>4

(* The one sender stops to be one.                                         *)
LEMMA SenderLeaves ==
    ASSUME RecoveryInv, NEW w \in Workers, At(w, "sending"), ~At(w, "sending")',
           \A v \in Workers : v # w => worker'[v] = worker[v],
           NEW r \in Resolutions, r = worker[w].row
    PROVE  /\ r \in Permitted /\ r \notin Permitted'
           /\ \A q \in Resolutions : q # r => (q \in Permitted' <=> q \in Permitted)
BY DEF RecoveryInv, OneSender, Permitted, At

LEMMA ExecuteStep ==
    ASSUME TypeOK, RecoveryInv, NEW w \in Workers, Execute(w)
    PROVE  Promise!Next
<1>a. PICK r : r = worker[w].row
  OBVIOUS
<1>1. Claimed(w) /\ At(w, "sending") /\ UNCHANGED row
  BY DEF Execute, Claimed, At, tables
<1>2. r \in Resolutions /\ RowOK(r) /\ JobOK(worker[w])
  BY <1>1, <1>a, ClaimedFacts
<1>3. sends[r] = 0 /\ effect[r] = "none"
  BY <1>1, <1>2, <1>a DEF JobOK, RowOK, At
<1>4. /\ sends'[r] = 1 /\ effect'[r] = "in_flight"
      /\ \A q \in Resolutions : q # r => sends'[q] = sends[q] /\ effect'[q] = effect[q]
  BY <1>2, <1>3, <1>a DEF Execute, TypeOK
<1>5. ~At(w, "sending")' /\ \A v \in Workers : v # w => worker'[v] = worker[v]
  BY <1>1, OutsideSend DEF Execute, PCs
<1>6. /\ r \in Permitted /\ r \notin Permitted'
      /\ \A q \in Resolutions : q # r => (q \in Permitted' <=> q \in Permitted)
  BY <1>1, <1>2, <1>5, <1>a, SenderLeaves
<1>7. /\ r \notin Sent /\ r \in Sent' /\ r \notin Landed /\ r \notin Landed'
      /\ \A q \in Resolutions : q # r => (q \in Sent' <=> q \in Sent) /\ (q \in Landed' <=> q \in Landed)
  BY <1>2, <1>3, <1>4 DEF Sent, Landed
<1>8. \A q \in Resolutions : Journal(q)' = Journal(q)
  BY <1>1 DEF Journal
<1>9. \A q \in Resolutions : q # r => Unseen(q)
  BY <1>6, <1>7, <1>8 DEF Unseen
<1>10. Promise!Send(r)
  BY <1>2, <1>6, <1>7, <1>8, <1>9, SendStep
<1>11. QED
  BY <1>2, <1>10 DEF Promise!Next

LEMMA CrashStep ==
    ASSUME TypeOK, RecoveryInv, NEW w \in Workers, Crash(w)
    PROVE  Promise!Next \/ \A q \in Resolutions : Unseen(q)
<1>1. UNCHANGED <<row, effect, sends>>
  BY DEF Crash, tables, world
<1>2. ~At(w, "sending")' /\ \A v \in Workers : v # w => worker'[v] = worker[v]
  BY ReturnOK DEF Crash
<1>3. Sent' = Sent /\ Landed' = Landed /\ \A q \in Resolutions : Journal(q)' = Journal(q)
  BY <1>1 DEF Sent, Landed, Journal
<1>4. CASE At(w, "sending")
  <2>a. PICK r : r = worker[w].row
    OBVIOUS
  <2>1. r \in Resolutions
    BY <2>a, MineType DEF Crash
  <2>2. /\ r \in Permitted /\ r \notin Permitted'
        /\ \A q \in Resolutions : q # r => (q \in Permitted' <=> q \in Permitted)
    BY <1>2, <1>4, <2>1, <2>a, SenderLeaves
  <2>3. \A q \in Resolutions : q # r => Unseen(q)
    BY <1>3, <2>2 DEF Unseen
  <2>4. Promise!Forfeit(r)
    BY <1>3, <2>1, <2>2, <2>3, ForfeitStep
  <2>5. QED
    BY <2>1, <2>4 DEF Promise!Next
<1>5. CASE ~At(w, "sending")
  BY <1>1, <1>2, <1>5, QuietUnseen
<1>6. QED
  BY <1>4, <1>5

LEMMA RunOneStep ==
    ASSUME TypeOK, RecoveryInv, NEW w \in Workers, RunOne(w)
    PROVE  Promise!Next \/ \A q \in Resolutions : Unseen(q)
<1>. {"awaiting", "sent", "failed", "confirmed", "unsettled", "resolved", "escalated"}
         \subseteq PCs \ {"idle", "candidate", "sending"}
  BY DEF PCs
<1>1. CASE ChooseCandidate(w)
  <2>1. PICK j : Become(w, j) /\ j.pc = "candidate"
    <3>1. PICK r \in Resolutions :
             Become(w, [Idle EXCEPT !.pc = "candidate", !.row = r, !.valid = AuthorityValid(r)])
      BY <1>1 DEF ChooseCandidate
    <3>2. [Idle EXCEPT !.pc = "candidate", !.row = r, !.valid = AuthorityValid(r)].pc
              = "candidate"
      BY DEF Idle
    <3>3. QED
      BY <3>1, <3>2
  <2>2. UNCHANGED <<row, effect, sends>> /\ ~At(w, "sending")
    BY <1>1 DEF ChooseCandidate, At, tables, world
  <2>3. ~At(w, "sending")' /\ \A v \in Workers : v # w => worker'[v] = worker[v]
    BY <2>1 DEF Become, At, TypeOK
  <2>4. QED
    BY <2>2, <2>3, QuietUnseen
<1>2. CASE ClaimRecovery(w)
  <2>a. PICK r : r = worker[w].row
    OBVIOUS
  <2>b. PICK new : new = [row[r] EXCEPT !.status = ClaimedStatus(row[r].dispatch),
                                        !.token = row[r].attempt + 1, !.lease = "live",
                                        !.attempt = @ + 1]
    OBVIOUS
  <2>c. PICK j : j = [worker[w] EXCEPT !.pc = "claimed", !.token = row[r].attempt + 1,
                                       !.dispatch = row[r].dispatch]
    OBVIOUS
  <2>1. r \in Resolutions /\ worker[w] \in Jobs /\ ~At(w, "sending")
        /\ UNCHANGED <<effect, sends>>
    BY <1>2, <2>a, MineType DEF ClaimRecovery, At, world
  <2>2. \/ Update(r, new) /\ Become(w, j)
        \/ UNCHANGED row /\ Return(w)
    BY <1>2, <2>a, <2>b, <2>c DEF ClaimRecovery
  <2>3. new.dispatch = row[r].dispatch /\ j.pc = "claimed"
    <3>1. new.dispatch = row[r].dispatch
      BY <2>1, <2>b, ClaimedType
    <3>2. QED
      BY <2>1, <2>c, <3>1 DEF Jobs
  <2>4. \A q \in Resolutions : row'[q].dispatch = row[q].dispatch
    BY <2>1, <2>2, <2>3 DEF Update, TypeOK
  <2>5. ~At(w, "sending")' /\ \A v \in Workers : v # w => worker'[v] = worker[v]
    <3>1. CASE Become(w, j)
      BY <2>3, <3>1 DEF Become, At, TypeOK
    <3>2. CASE Return(w)
      BY <3>2, ReturnOK
    <3>3. QED
      BY <2>2, <3>1, <3>2
  <2>6. QED
    BY <2>1, <2>4, <2>5, QuietUnseen
<1>3. CASE BeginRecoveryDispatch(w)
  BY <1>3, BeginStep
<1>4. CASE Execute(w)
  BY <1>4, ExecuteStep
<1>5. CASE (Dispatch(w) /\ ~BeginRecoveryDispatch(w) /\ ~Execute(w)) \/ Look(w) \/ Report(w)
  <2>1. Claimed(w) /\ ~At(w, "sending")
    BY <1>5
       DEF Dispatch, FinishCompleted, CancelStale, Succeeds, Throws, RecordSent, CompleteSent,
           TransitionThrows, RecordFailed, SettleAmbiguous, Look, ParkUnobservable, Observe,
           ObserveThrows, RecordObserved, Ambiguous, Report, TellResolved, QueueWebhook,
           TellParked, OpenHumanReview, At, Claimed
  <2>2. /\ worker[w].row \in Resolutions /\ RowOK(worker[w].row) /\ JobOK(worker[w])
        /\ worker[w].pc \notin {"idle", "candidate", "sending"}
    BY <2>1, ClaimedFacts DEF Claimed, At
  <2>3. CASE FinishCompleted(w) \/ CompleteSent(w)
    <3>1. Journalled(worker[w].row) /\ Applied(worker[w].row)
      BY <2>2, <2>3 DEF FinishCompleted, CompleteSent, JobOK, Past, Done, At
    <3>2. QED
      BY <2>1, <2>3, <3>1, CompleteStep DEF FinishCompleted, CompleteSent, world
  <2>4. CASE CancelStale(w) \/ SettleAmbiguous(w) \/ ParkUnobservable(w)
    BY <2>1, <2>4, ReleaseStep DEF CancelStale, SettleAmbiguous, ParkUnobservable, world
  <2>5. CASE Succeeds(w) \/ Throws(w) \/ TransitionThrows(w) \/ ObserveThrows(w) \/ Report(w)
    <3>1. UNCHANGED <<row, effect, sends>>
          /\ (Return(w) \/ \E pc \in PCs \ {"idle", "candidate", "sending"} : Goto(w, pc))
      BY <2>5 DEF Succeeds, Throws, TransitionThrows, ObserveThrows, Report, TellResolved,
                  QueueWebhook, TellParked, OpenHumanReview, Tell, tables, world
    <3>2. QED
      BY <2>1, <3>1, OutsideSend, QuietUnseen
  <2>6. CASE RecordSent(w) \/ RecordFailed(w) \/ RecordObserved(w)
    <3>1. Journalled(worker[w].row)
      BY <2>2, <2>6 DEF RecordSent, RecordFailed, RecordObserved, JobOK, Past, At
    <3>2. /\ UNCHANGED <<effect, sends>>
          /\ \/ /\ Recorded(w, "completed") /\ Goto(w, "confirmed")
                /\ Applied(worker[w].row)
             \/ Recorded(w, "may_have_been_sent") /\ Goto(w, "unsettled")
             \/ Recorded(w, "ambiguous") /\ Goto(w, "unsettled")
      BY <2>2, <2>6 DEF RecordSent, RecordFailed, RecordObserved, JobOK, Done, At, world
    <3>3. QED
      BY <2>1, <3>1, <3>2, RecordedStep
  <2>7. CASE Observe(w)
    <3>1. PICK j : Become(w, j) /\ j.pc = "observed"
      <4>1. PICK outcome \in Observed(worker[w].row) :
                  Become(w, [worker[w] EXCEPT !.pc = "observed", !.saw = outcome])
        BY <2>7 DEF Observe
      <4>2. [worker[w] EXCEPT !.pc = "observed", !.saw = outcome].pc = "observed"
        BY DEF TypeOK, Jobs
      <4>3. QED
        BY <4>1, <4>2
    <3>2. ~At(w, "sending")' /\ \A v \in Workers : v # w => worker'[v] = worker[v]
      BY <3>1 DEF Become, At, TypeOK
    <3>3. QED
      BY <2>1, <2>7, <3>2, QuietUnseen DEF Observe, tables, world
  <2>8. QED
    BY <1>5, <2>3, <2>4, <2>5, <2>6, <2>7 DEF Dispatch, Look
<1>6. QED
  BY <1>1, <1>2, <1>3, <1>4, <1>5 DEF RunOne, Claim

LEMMA PromiseStep == TypeOK /\ RecoveryInv /\ [Next]_vars => [Promise!Next]_(Promise!vars)
<1>. SUFFICES ASSUME TypeOK, RecoveryInv, [Next]_vars
              PROVE  Promise!Next \/ \A r \in Resolutions : Unseen(r)
  BY Stutter
<1>1. CASE UNCHANGED <<row, worker, effect, sends>>
  BY <1>1 DEF Unseen, Journal, Permitted, Sent, Landed, At
<1>2. ASSUME NEW operation \in RecoveryOperations, AuthorizeRecovery(operation)
      PROVE  \A r \in Resolutions : Unseen(r)
  <2>1. /\ sequence \in Resolutions /\ row[sequence].status = "absent"
        /\ UNCHANGED <<worker, effect, sends>>
    BY <1>2 DEF AuthorizeRecovery, world
  <2>2. row[sequence].dispatch = "definitely_not_sent"
    BY <2>1 DEF RecoveryInv, RowOK, Journalled
  <2>3. PICK new : Update(sequence, new) /\ new.dispatch = "definitely_not_sent"
    BY <1>2, NewRowType DEF AuthorizeRecovery
  <2>4. \A r \in Resolutions : row'[r].dispatch = row[r].dispatch
    BY <2>1, <2>2, <2>3 DEF Update, TypeOK
  <2>5. QED
    BY <2>1, <2>4 DEF Unseen, Journal, Permitted, Sent, Landed, At
<1>3. ASSUME NEW r \in Resolutions, LeaseLapses(r) \/ WorkerPauses(r)
      PROVE  \A q \in Resolutions : Unseen(q)
  <2>a. PICK new : new = [row[r] EXCEPT !.lease = "lapsed"]
    OBVIOUS
  <2>1. Update(r, new) /\ row[r] \in Rows /\ UNCHANGED <<worker, effect, sends>>
    BY <1>3, <2>a DEF LeaseLapses, WorkerPauses, Lapse, TypeOK, world
  <2>2. new.dispatch = row[r].dispatch
    BY <2>1, <2>a DEF Rows
  <2>3. \A q \in Resolutions : row'[q].dispatch = row[q].dispatch
    BY <2>1, <2>2 DEF Update, TypeOK
  <2>4. QED
    BY <2>1, <2>3 DEF Unseen, Journal, Permitted, Sent, Landed, At
<1>4. ASSUME NEW r \in Resolutions, Land(r) PROVE Promise!Next
  <2>1. /\ UNCHANGED <<row, worker, sends>> /\ effect[r] = "in_flight"
        /\ effect'[r] = "applied" /\ \A q \in Resolutions : q # r => effect'[q] = effect[q]
    BY <1>4 DEF Land, TypeOK, tables
  <2>2. sends[r] > 0
    BY <2>1 DEF RecoveryInv, RowOK
  <2>3. \A q \in Resolutions : Journal(q)' = Journal(q)
    BY <2>1 DEF Journal
  <2>4. Permitted' = Permitted /\ Sent' = Sent /\ r \in Sent /\ r \notin Landed /\ r \in Landed'
    BY <2>1, <2>2 DEF Permitted, Sent, Landed, At
  <2>5. \A q \in Resolutions : q # r => Unseen(q)
    BY <2>1, <2>3, <2>4 DEF Unseen, Landed
  <2>6. Promise!Land(r)
    BY <2>3, <2>4, <2>5, LandStep
  <2>7. QED
    BY <2>6 DEF Promise!Next
<1>5. QED
  BY <1>1, <1>2, <1>3, <1>4, RunOneStep, CrashStep
     DEF Next, vars, EvidenceArrives, Reresolve, DeadlinePasses, tables, world

LEMMA PromiseInit == Init => Promise!Init
<1>. SUFFICES ASSUME Init PROVE Promise!Init
  OBVIOUS
<1>1. \A r \in Resolutions : Journal(r) = "unsent" /\ sends[r] = 0 /\ effect[r] = "none"
  BY DEF Init, NoRow, Journal
<1>2. \A w \in Workers : ~At(w, "sending")
  BY DEF Init, Idle, At
<1>3. Permitted = {} /\ Sent = {} /\ Landed = {}
  BY <1>1, <1>2 DEF Permitted, Sent, Landed
<1>4. QED
  BY <1>1, <1>3 DEF Promise!Init

(* Recovery execution implements the abstract promise of OneSend: its      *)
(* journal opens before the one send can begin, and closes on effects.     *)
THEOREM PromiseTheorem == Spec => ImplementsOneSend
<1>1. Init => Promise!Init
  BY PromiseInit
<1>2. TypeOK /\ RecoveryInv /\ [Next]_vars => [Promise!Next]_(Promise!vars)
  BY PromiseStep
<1>3. QED
  BY <1>1, <1>2, InvAlways, PTL DEF Spec, ImplementsOneSend, Promise!Spec
=============================================================================
