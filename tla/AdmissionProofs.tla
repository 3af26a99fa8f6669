--------------------------- MODULE AdmissionProofs --------------------------
(***************************************************************************)
(* The freeze and the budgets, of actions and of money, hold for any        *)
(* callers, keys, budgets, amounts and clock.  The boundary carries the    *)
(* argument: while a transaction holds it no freeze begins and no           *)
(* admission is decided, so that what it decided is still what it would    *)
(* decide when it commits (DecisionsOK).  A sum of amounts, which the      *)
(* ledger's rows are folded to, is shown to be the number of units in it   *)
(* (TotalIsSpent), and is reasoned about as the size of a finite set.      *)
(***************************************************************************)
EXTENDS Admission, FiniteSetTheorems, SequenceTheorems, WellFoundedInduction, TLAPS

PCs == {"idle", "submitted", "waiting", "crossed", "decided", "conflict", "admitted",
        "authorised", "dispatched"}

Blocks == {Null, "freeze", "blast_radius"}

Jobs == [pc : PCs, key : Keys \union {Null}, request : Requests \union {Null},
         started : Nat, blocked_by : Blocks, alone : BOOLEAN]

(* What a caller carries where it stands.                                  *)
CallersOK ==
    \A c \in Callers :
        /\ ~At(c, "idle") => caller[c].key \in Keys /\ caller[c].request \in Requests
        /\ At(c, "admitted") \/ At(c, "authorised") \/ At(c, "dispatched")
             => Admitted(caller[c].key)

-----------------------------------------------------------------------------
(* Amounts.  A sum is the number of its units, so that what is known of    *)
(* finite sets says it: no more units in a part, and of two parts apart    *)
(* as many as of both.                                                     *)
Units(amount, keys) == {u \in keys \X Nat : u[2] \in 1..amount[u[1]]}
Spent(amount, keys) == Cardinality(Units(amount, keys))

LEMMA NatLeast ==
    ASSUME NEW S \in SUBSET Nat, S # {}
    PROVE  \E u \in S : \A v \in S : u <= v
<1>1. IsWellFoundedOn(OpToRel(<, Nat), Nat)
  BY NatLessThanWellFounded
<1>2. PICK u \in S : \A v \in S : <<v, u>> \notin OpToRel(<, Nat)
  BY <1>1, WFMin
<1>3. \A v \in S : ~ (v < u)
  BY <1>2 DEF OpToRel
<1>4. QED
  BY <1>3

LEMMA UnitsOfOne ==
    ASSUME NEW amount, NEW k, amount[k] \in Nat
    PROVE  IsFiniteSet(Units(amount, {k})) /\ Spent(amount, {k}) = amount[k]
<1>1. Units(amount, {k}) = {k} \X (1..amount[k])
  BY DEF Units
<1>2. IsFiniteSet(1..amount[k]) /\ Cardinality(1..amount[k]) = amount[k]
  BY FS_Interval
<1>3. IsFiniteSet({k}) /\ Cardinality({k}) = 1
  BY FS_Singleton
<1>4. /\ IsFiniteSet({k} \X (1..amount[k]))
      /\ Cardinality({k} \X (1..amount[k])) = Cardinality({k}) * Cardinality(1..amount[k])
  BY <1>2, <1>3, FS_Product
<1>5. PICK units : units = {k} \X (1..amount[k])
  OBVIOUS
<1>6. IsFiniteSet(units) /\ Cardinality(units) = 1 * amount[k]
  BY <1>2, <1>3, <1>4, <1>5
<1>7. Units(amount, {k}) = units
  BY <1>1, <1>5
<1>8. Cardinality(units) = amount[k]
  BY <1>6
<1>9. QED
  BY <1>6, <1>7, <1>8 DEF Spent

LEMMA UnitsFinite ==
    ASSUME NEW amount, NEW keys, IsFiniteSet(keys), \A k \in keys : amount[k] \in Nat
    PROVE  IsFiniteSet(Units(amount, keys)) /\ Spent(amount, keys) \in Nat
<1>1. PICK f : f = [k \in keys |-> Units(amount, {k})]
  OBVIOUS
<1>2. PICK parts : parts = {f[k] : k \in keys}
  OBVIOUS
<1>3. f \in Surjection(keys, parts)
  BY <1>1, <1>2 DEF Surjection
<1>4. IsFiniteSet(parts)
  BY <1>3, FS_Surjection
<1>5. \A part \in parts : IsFiniteSet(part)
  BY <1>1, <1>2, UnitsOfOne
<1>6. Units(amount, keys) = UNION parts
  BY <1>1, <1>2 DEF Units
<1>7. QED
  BY <1>4, <1>5, <1>6, FS_UNION, FS_CardinalityType DEF Spent

LEMMA SpentPart ==
    ASSUME NEW amount, NEW keys, IsFiniteSet(keys), \A k \in keys : amount[k] \in Nat,
           NEW part \in SUBSET keys
    PROVE  Spent(amount, part) <= Spent(amount, keys) /\ Spent(amount, part) \in Nat
<1>1. Units(amount, part) \subseteq Units(amount, keys)
  BY DEF Units
<1>2. QED
  BY <1>1, UnitsFinite, FS_Subset, FS_CardinalityType DEF Spent

LEMMA SpentMore ==
    ASSUME NEW amount, NEW keys, IsFiniteSet(keys), \A k \in keys : amount[k] \in Nat,
           NEW k, k \notin keys, amount[k] \in Nat
    PROVE  Spent(amount, keys \union {k}) = Spent(amount, keys) + amount[k]
<1>1. Units(amount, keys \union {k}) = Units(amount, keys) \union Units(amount, {k})
  BY DEF Units
<1>2. Units(amount, keys) \intersect Units(amount, {k}) = {}
  BY DEF Units
<1>3. Cardinality({}) = 0
  BY FS_EmptySet
<1>4. PICK these, more : these = Units(amount, keys) /\ more = Units(amount, {k})
  OBVIOUS
<1>5. IsFiniteSet(these) /\ IsFiniteSet(more) /\ Cardinality(more) = amount[k]
  BY <1>4, UnitsFinite, UnitsOfOne DEF Spent
<1>6. Cardinality(these \union more)
          = Cardinality(these) + Cardinality(more) - Cardinality(these \intersect more)
  BY <1>5, FS_Union
<1>7. Cardinality(these) \in Nat
  BY <1>5, FS_CardinalityType
<1>8. Cardinality(these \union more) = Cardinality(these) + amount[k]
  <2>1. these \intersect more = {}
    BY <1>2, <1>4
  <2>2. Cardinality(these \intersect more) = 0
    BY <1>3, <2>1
  <2>3. QED
    BY <1>5, <1>6, <1>7, <2>2
<1>9. QED
  BY <1>1, <1>4, <1>8 DEF Spent

(* A sum over a set, taken element by element.                             *)
Chosen(s) == CHOOSE x \in s : TRUE
Summed(amount, f, keys) ==
    [s \in SUBSET keys |-> IF s = {} THEN 0 ELSE amount[Chosen(s)] + f[s \ {Chosen(s)}]]

LEMMA SpentStep ==
    ASSUME NEW amount, NEW keys, IsFiniteSet(keys), \A k \in keys : amount[k] \in Nat,
           NEW s \in SUBSET keys, s # {}
    PROVE  /\ s \ {Chosen(s)} \in SUBSET keys
           /\ Cardinality(s \ {Chosen(s)}) < Cardinality(s)
           /\ Cardinality(s \ {Chosen(s)}) \in Nat
           /\ Spent(amount, s) = amount[Chosen(s)] + Spent(amount, s \ {Chosen(s)})
<1>1. Chosen(s) \in s
  BY DEF Chosen
<1>2. PICK k, rest : k = Chosen(s) /\ rest = s \ {k}
  OBVIOUS
<1>3. IsFiniteSet(s) /\ IsFiniteSet(rest) /\ k \in s /\ k \notin rest /\ s = rest \union {k}
  BY <1>1, <1>2, FS_Subset
<1>4. Cardinality(rest \union {k}) = Cardinality(rest) + 1 /\ Cardinality(rest) \in Nat
  BY <1>3, FS_AddElement, FS_CardinalityType
<1>5. Spent(amount, rest \union {k}) = Spent(amount, rest) + amount[k]
  BY <1>3, SpentMore
<1>6. Spent(amount, rest) \in Nat /\ amount[k] \in Nat
  BY <1>3, UnitsFinite
<1>7. /\ rest \in SUBSET keys /\ Cardinality(rest) < Cardinality(s) /\ Cardinality(rest) \in Nat
      /\ Spent(amount, s) = amount[k] + Spent(amount, rest)
  BY <1>3, <1>4, <1>5, <1>6
<1>8. QED
  BY <1>2, <1>7

LEMMA SpentNone == ASSUME NEW amount PROVE Spent(amount, {}) = 0
BY FS_EmptySet DEF Spent, Units

LEMMA SumExists ==
    ASSUME NEW amount, NEW keys, IsFiniteSet(keys), \A k \in keys : amount[k] \in Nat
    PROVE  \E g : g = Summed(amount, g, keys)
<1>1. PICK g : g = [s \in SUBSET keys |-> Spent(amount, s)]
  OBVIOUS
<1>2. ASSUME NEW s \in SUBSET keys
      PROVE  Spent(amount, s) = IF s = {} THEN 0
                                ELSE amount[Chosen(s)] + Spent(amount, s \ {Chosen(s)})
  BY SpentStep, SpentNone
<1>3. ASSUME NEW s \in SUBSET keys
      PROVE  g[s] = IF s = {} THEN 0 ELSE amount[Chosen(s)] + g[s \ {Chosen(s)}]
  BY <1>1, <1>2
<1>4. g = Summed(amount, g, keys)
  BY <1>1, <1>3, Zenon DEF Summed
<1>5. QED
  BY <1>4

LEMMA SumIsSpent ==
    ASSUME NEW amount, NEW keys, IsFiniteSet(keys), \A k \in keys : amount[k] \in Nat,
           NEW f, f = Summed(amount, f, keys), NEW t \in SUBSET keys
    PROVE  f[t] = Spent(amount, t)
<1>1. SUFFICES ASSUME f[t] # Spent(amount, t) PROVE FALSE
  OBVIOUS
<1>2. PICK wrong : wrong = {s \in SUBSET keys : f[s] # Spent(amount, s)}
  OBVIOUS
<1>3. PICK sizes : sizes = {n \in Nat : \E s \in wrong : Cardinality(s) = n}
  OBVIOUS
<1>4. \A s \in SUBSET keys : Cardinality(s) \in Nat
  BY FS_Subset, FS_CardinalityType
<1>5. sizes \in SUBSET Nat /\ sizes # {}
  BY <1>1, <1>2, <1>3, <1>4
<1>6. PICK n \in sizes : \A m \in sizes : n <= m
  BY <1>5, NatLeast
<1>7. PICK s \in wrong : Cardinality(s) = n
  BY <1>3, <1>6
<1>8. s \in SUBSET keys /\ f[s] # Spent(amount, s)
  BY <1>2, <1>7
<1>9. s # {}
  <2>1. {} \in SUBSET keys
    OBVIOUS
  <2>2. f[{}] = 0
    BY <2>1, Zenon DEF Summed
  <2>3. QED
    BY <1>8, <2>2, SpentNone
<1>10. PICK k, rest : k = Chosen(s) /\ rest = s \ {k}
  OBVIOUS
<1>11. /\ rest \in SUBSET keys /\ Cardinality(rest) < n /\ Cardinality(rest) \in Nat
       /\ Spent(amount, s) = amount[k] + Spent(amount, rest)
  BY <1>7, <1>8, <1>9, <1>10, SpentStep
<1>12. f[rest] = Spent(amount, rest)
  <2>1. rest \notin wrong
    BY <1>3, <1>5, <1>6, <1>11
  <2>2. QED
    BY <1>2, <1>11, <2>1
<1>13. f[s] = amount[k] + f[rest]
  BY <1>8, <1>9, <1>10, Zenon DEF Summed
<1>14. QED
  BY <1>8, <1>11, <1>12, <1>13

(* What the admissions' amounts add up to.                                 *)
LEMMA TotalIsSpent ==
    ASSUME NEW keys, IsFiniteSet(keys), NEW amount, \A k \in keys : amount[k] \in Nat,
           \A k \in keys : AmountOf(k) = amount[k]
    PROVE  TotalAmount(keys) = Spent(amount, keys)
<1>1. PICK f : f = (CHOOSE h : h = [s \in SUBSET keys |->
              IF s = {} THEN 0 ELSE AmountOf(Chosen(s)) + h[s \ {Chosen(s)}]])
  OBVIOUS
<1>2. TotalAmount(keys) = f[keys]
  BY <1>1, Zenon DEF TotalAmount, MapThenSumSet, MapThenFoldSet, Chosen
<1>3. ASSUME NEW g
      PROVE  [s \in SUBSET keys |->
                 IF s = {} THEN 0 ELSE AmountOf(Chosen(s)) + g[s \ {Chosen(s)}]]
             = Summed(amount, g, keys)
  <2>1. ASSUME NEW s \in SUBSET keys, s # {} PROVE AmountOf(Chosen(s)) = amount[Chosen(s)]
    BY <2>1 DEF Chosen
  <2>2. QED
    BY <2>1, Zenon DEF Summed
<1>4. PICK g : g = Summed(amount, g, keys)
  BY SumExists
<1>5. g = [s \in SUBSET keys |->
             IF s = {} THEN 0 ELSE AmountOf(Chosen(s)) + g[s \ {Chosen(s)}]]
  BY <1>3, <1>4, Zenon
<1>6. f = [s \in SUBSET keys |->
             IF s = {} THEN 0 ELSE AmountOf(Chosen(s)) + f[s \ {Chosen(s)}]]
  BY <1>1, <1>5, Zenon
<1>7. f = Summed(amount, f, keys)
  BY <1>3, <1>6, Zenon
<1>8. keys \in SUBSET keys
  OBVIOUS
<1>9. QED
  BY <1>2, <1>7, <1>8, SumIsSpent
-----------------------------------------------------------------------------
(* What each key has spent, of what the ledger says was admitted.          *)
Paid == [k \in Keys |-> IF Admitted(k) /\ ledger[k].request.amount \in Nat
                        THEN ledger[k].request.amount ELSE 0]

LEMMA PaidIsTotal ==
    ASSUME TypeOK, NEW keys \in SUBSET {k \in Keys : Admitted(k)}
    PROVE  TotalAmount(keys) = Spent(Paid, keys)
<1>1. IsFiniteSet(keys)
  BY AdmissionKeys, FS_Subset
<1>2. PICK amount : amount = Paid
  OBVIOUS
<1>3. \A k \in keys : amount[k] \in Nat
  BY <1>2 DEF Paid
<1>4. ASSUME NEW k \in keys PROVE AmountOf(k) = amount[k]
  <2>1. ledger[k].request \in Requests
    BY DEF TypeOK, Admitted, Decisions
  <2>2. ledger[k].request.amount \in Nat \union {Null}
    BY <2>1, AdmissionRequests
  <2>3. QED
    BY <1>2, <2>2, AdmissionNull DEF AmountOf, Paid
<1>5. TotalAmount(keys) = Spent(amount, keys)
  BY <1>1, <1>3, <1>4, TotalIsSpent
<1>6. QED
  BY <1>2, <1>5

-----------------------------------------------------------------------------
(* What an unblocked decision says: no freeze covers the request, and every *)
(* budget has room for one more action and for its amount.                 *)
Clear(request, now) ==
    /\ \A scope \in frozen : ~Covers(scope, request)
    /\ \A b \in Budgets : Applicable(b, request) /\ b.max_actions # Null =>
          ~(Cardinality(Used(b, now)) + 1 > b.max_actions)
    /\ \A b \in Budgets : Applicable(b, request) /\ b.max_per_window # Null =>
          /\ request.amount # Null
          /\ ~(Spent(Paid, Used(b, now)) + request.amount > b.max_per_window)

(* A decision that is about to commit is the one that would be made now.   *)
DecisionsOK ==
    \A c \in Callers :
        At(c, "decided") /\ caller[c].blocked_by = Null =>
            Clear(caller[c].request, caller[c].started)

LEMMA UnblockedIsClear ==
    ASSUME TypeOK, NEW request, NEW now, BlockedBy(request, now) = Null
    PROVE  Clear(request, now)
<1>1. /\ \A scope \in frozen : ~Covers(scope, request)
      /\ \A b \in Budgets : Applicable(b, request) => ~Violated(b, request, now)
  BY AdmissionNull DEF BlockedBy
<1>2. \A b \in Budgets : TotalAmount(Used(b, now)) = Spent(Paid, Used(b, now))
  BY PaidIsTotal DEF Used
<1>3. QED
  BY <1>1, <1>2 DEF Clear, Violated, Monetary

LEMMA IdleType == Idle \in Jobs /\ Idle.pc = "idle"
BY DEF Idle, Jobs, PCs, Blocks

LEMMA BlockedByType ==
    ASSUME NEW request, NEW now
    PROVE  BlockedBy(request, now) \in Blocks
BY DEF BlockedBy, Blocks

LEMMA TypeInit == Init => TypeOK /\ CallersOK /\ DecisionsOK
<1>. SUFFICES ASSUME Init PROVE TypeOK /\ CallersOK /\ DecisionsOK
  OBVIOUS
<1>1. caller \in [Callers -> Jobs] /\ \A c \in Callers : caller[c].pc = "idle"
  BY IdleType DEF Init
<1>2. /\ clock \in Nat /\ holder = Null /\ mode \in Modes /\ granted \in Seq(Exceptions)
      /\ canary = {} /\ frozen = {} /\ rules \subseteq Rules
      /\ used \in [DOMAIN Limits -> Nat]
      /\ ledger \in [Keys -> Decisions \union {Null}]
      /\ acted \in [Keys -> Actions \union {Null}]
      /\ \A k \in Keys : acted[k] = Null
  BY DEF Init
<1>3. \A c \in Callers : holder # c
  BY <1>2, AdmissionNull
<1>4. TypeOK
  BY <1>1, <1>2, <1>3 DEF TypeOK, At, Jobs, PCs, Blocks
<1>5. QED
  BY <1>1, <1>4 DEF CallersOK, DecisionsOK, At

-----------------------------------------------------------------------------
(* A caller becomes a job; the others stay.                                *)
LEMMA JobType ==
    ASSUME TypeOK, NEW c \in Callers, NEW j \in Jobs, Become(c, j)
    PROVE  /\ caller' \in [Callers -> Jobs]
           /\ caller'[c] = j /\ \A d \in Callers : d # c => caller'[d] = caller[d]
BY DEF TypeOK, Become, Jobs, PCs, Blocks

LEMMA CallerType == TypeOK => caller \in [Callers -> Jobs]
BY DEF TypeOK, Jobs, PCs, Blocks

LEMMA GotoType ==
    ASSUME TypeOK, NEW c \in Callers, NEW pc \in PCs, Goto(c, pc)
    PROVE  /\ caller' \in [Callers -> Jobs]
           /\ caller'[c].pc = pc /\ caller'[c].key = caller[c].key
           /\ caller'[c].request = caller[c].request /\ caller'[c].started = caller[c].started
           /\ caller'[c].blocked_by = caller[c].blocked_by
           /\ \A d \in Callers : d # c => caller'[d] = caller[d]
<1>a. PICK j : j = [caller[c] EXCEPT !.pc = pc]
  OBVIOUS
<1>1. caller[c] \in Jobs
  BY CallerType
<1>2. /\ j \in Jobs /\ j.pc = pc /\ j.key = caller[c].key /\ j.request = caller[c].request
      /\ j.started = caller[c].started /\ j.blocked_by = caller[c].blocked_by
  BY <1>1, <1>a DEF Jobs
<1>3. QED
  BY <1>2, <1>a, JobType DEF Goto

LEMMA LeaveType ==
    ASSUME TypeOK, NEW c \in Callers, NEW pc \in PCs, LeaveBoundary(c, pc)
    PROVE  /\ caller' \in [Callers -> Jobs]
           /\ caller'[c].pc = pc /\ caller'[c].key = caller[c].key
           /\ caller'[c].request = caller[c].request
           /\ \A d \in Callers : d # c => caller'[d] = caller[d]
<1>a. PICK j : j = [caller[c] EXCEPT !.pc = pc, !.started = 0, !.blocked_by = Null]
  OBVIOUS
<1>1. caller[c] \in Jobs
  BY CallerType
<1>2. j \in Jobs /\ j.pc = pc /\ j.key = caller[c].key /\ j.request = caller[c].request
  BY <1>1, <1>a DEF Jobs, Blocks
<1>3. QED
  BY <1>2, <1>a, JobType DEF LeaveBoundary

LEMMA ReturnType ==
    ASSUME TypeOK, NEW c \in Callers, Return(c)
    PROVE  /\ caller' \in [Callers -> Jobs] /\ caller'[c].pc = "idle"
           /\ \A d \in Callers : d # c => caller'[d] = caller[d]
BY IdleType, JobType DEF Return

LEMMA LimitsDomain == DOMAIN Limits = {"calls", "changes", "crashes"}
BY DEF Limits

LEMMA SpendType ==
    ASSUME TypeOK, NEW b \in {"calls", "changes", "crashes"}, Spend(b)
    PROVE  used' \in [DOMAIN Limits -> Nat]
BY LimitsDomain DEF TypeOK, Spend

(* What the invariant says of the boundary.                                *)
Inside(c) == At(c, "crossed") \/ At(c, "decided")

BoundaryOK == \A c \in Callers : Inside(c) <=> holder = c

DataOK ==
    /\ clock \in Nat
    /\ holder \in Callers \union {Null}
    /\ mode \in Modes
    /\ canary \subseteq {Slice(r) : r \in Requests}
    /\ frozen \subseteq Scopes /\ rules \subseteq Rules
    /\ granted \in Seq(Exceptions)
    /\ ledger \in [Keys -> Decisions \union {Null}]
    /\ acted \in [Keys -> Actions \union {Null}]
    /\ used \in [DOMAIN Limits -> Nat]
    /\ \A k \in Keys : acted[k] # Null => Admitted(k)

LEMMA TypeParts == TypeOK <=> caller \in [Callers -> Jobs] /\ BoundaryOK /\ DataOK
BY DEF TypeOK, BoundaryOK, DataOK, Inside, Jobs, PCs, Blocks

(* A step of a caller outside the boundary leaves it as it is.             *)
LEMMA Outside ==
    ASSUME BoundaryOK, NEW c \in Callers, ~Inside(c), caller'[c].pc \notin {"crossed", "decided"},
           \A d \in Callers : d # c => caller'[d] = caller[d], UNCHANGED holder
    PROVE  BoundaryOK'
BY DEF BoundaryOK, Inside, At

(* The others keep what they carry, as admissions are never taken back.    *)
LEMMA OthersOK ==
    ASSUME CallersOK, NEW c \in Callers,
           \A d \in Callers : d # c => caller'[d] = caller[d],
           \A k \in Keys : Admitted(k) => Admitted(k)',
           caller'[c].pc # "idle" => caller'[c].key \in Keys /\ caller'[c].request \in Requests,
           caller'[c].pc \in {"admitted", "authorised", "dispatched"} =>
               Admitted(caller[c].key)' /\ caller'[c].key = caller[c].key
    PROVE  CallersOK'
<1>1. ASSUME NEW d \in Callers, d # c
      PROVE  /\ ~At(d, "idle")' => caller'[d].key \in Keys /\ caller'[d].request \in Requests
             /\ At(d, "admitted")' \/ At(d, "authorised")' \/ At(d, "dispatched")'
                  => Admitted(caller[d].key)'
  BY <1>1 DEF CallersOK, At, Admitted
<1>2. QED
  BY <1>1 DEF CallersOK, At, Admitted

-----------------------------------------------------------------------------
(* What is admitted stays as it was, and so does what is clear.            *)
SameLedger ==
    /\ UNCHANGED frozen
    /\ \A k \in Keys : /\ Admitted(k)' <=> Admitted(k)
                       /\ Admitted(k) => /\ ledger'[k].request = ledger[k].request
                                         /\ ledger'[k].at = ledger[k].at

LEMMA SameClear ==
    ASSUME SameLedger, NEW request, NEW now, Clear(request, now)
    PROVE  Clear(request, now)'
<1>1. \A b \in Budgets : Used(b, now)' = Used(b, now)
  BY DEF SameLedger, Used, Applicable, Covers
<1>2. UNCHANGED Paid
  BY DEF SameLedger, Paid
<1>3. QED
  BY <1>1, <1>2 DEF SameLedger, Clear, Applicable, Covers

(* A step outside the boundary that decides nothing.                       *)
LEMMA DecisionsStay ==
    ASSUME DecisionsOK, SameLedger, NEW c \in Callers, caller'[c].pc # "decided",
           \A d \in Callers : d # c => caller'[d] = caller[d]
    PROVE  DecisionsOK'
<1>1. SUFFICES ASSUME NEW d \in Callers, At(d, "decided")', caller'[d].blocked_by = Null
               PROVE  Clear(caller[d].request, caller[d].started)'
  BY DEF DecisionsOK
<1>2. d # c /\ caller'[d] = caller[d]
  BY <1>1 DEF At
<1>a. PICK request, now : request = caller[d].request /\ now = caller[d].started
  OBVIOUS
<1>3. Clear(request, now)
  BY <1>1, <1>2, <1>a DEF DecisionsOK, At
<1>4. Clear(request, now)'
  BY <1>3, SameClear
<1>5. request = caller'[d].request /\ now = caller'[d].started
  BY <1>2, <1>a
<1>6. QED
  BY <1>4, <1>5 DEF Clear, Used, Applicable, Covers

(* With no ledger entry touched, nothing it says changes.                  *)
LEMMA LedgerStays == UNCHANGED <<frozen, ledger>> => SameLedger
BY DEF SameLedger, Admitted

-----------------------------------------------------------------------------
(* The budgets, at every instant, past and future.                         *)
ActionsEver ==
    \A b \in Budgets : b.max_actions # Null =>
        \A end \in Nat : Cardinality(Window(b, end)) <= b.max_actions

AmountsEver ==
    \A b \in Budgets : b.max_per_window # Null =>
        \A end \in Nat : Spent(Paid, Window(b, end)) <= b.max_per_window

BudgetsEver == ActionsEver /\ AmountsEver

LEMMA BudgetsEverHold == TypeOK /\ BudgetsEver => BudgetHolds
<1>. SUFFICES ASSUME TypeOK, BudgetsEver PROVE BudgetHolds
  OBVIOUS
<1>1. ActionsHold
  BY DEF TypeOK, BudgetsEver, ActionsEver, ActionsHold
<1>2. ASSUME NEW b \in Budgets, b.max_per_window # Null, NEW end \in 0..clock
      PROVE  TotalAmount(Window(b, end)) <= b.max_per_window
  <2>1. TotalAmount(Window(b, end)) = Spent(Paid, Window(b, end))
    BY PaidIsTotal DEF Window
  <2>2. Spent(Paid, Window(b, end)) <= b.max_per_window
    BY <1>2 DEF TypeOK, BudgetsEver, AmountsEver
  <2>3. QED
    BY <2>1, <2>2
<1>3. QED
  BY <1>1, <1>2 DEF BudgetHolds, AmountsHold

LEMMA WindowFinite ==
    ASSUME NEW b, NEW end
    PROVE  IsFiniteSet(Window(b, end)) /\ Cardinality(Window(b, end)) \in Nat
BY AdmissionKeys, FS_Subset, FS_CardinalityType DEF Window

LEMMA UsedFinite ==
    ASSUME NEW b, NEW now
    PROVE  IsFiniteSet(Used(b, now)) /\ Cardinality(Used(b, now)) \in Nat
BY AdmissionKeys, FS_Subset, FS_CardinalityType DEF Used

(* Where the ledger says the same, every window holds the same.            *)
LEMMA BudgetsStay == SameLedger /\ BudgetsEver => BudgetsEver'
<1>. SUFFICES ASSUME SameLedger, BudgetsEver PROVE BudgetsEver'
  OBVIOUS
<1>1. \A b \in Budgets, end \in Nat : Window(b, end)' = Window(b, end)
  BY DEF SameLedger, Window, Applicable, Covers
<1>2. UNCHANGED Paid
  BY DEF SameLedger, Paid
<1>3. QED
  BY <1>1, <1>2 DEF BudgetsEver, ActionsEver, AmountsEver

(* Admitting a request that is clear overfills no window: the window it    *)
(* falls into holds nothing that was not counted for it.                   *)
LEMMA AdmitCounts ==
    ASSUME TypeOK, ActionsEver, NEW k \in Keys, ledger[k] = Null, NEW e \in Decisions,
           ledger' = [ledger EXCEPT ![k] = e], e.blocked_by = Null => Clear(e.request, e.at)
    PROVE  ActionsEver'
<1>1. SUFFICES ASSUME NEW b \in Budgets, b.max_actions # Null, NEW end \in Nat
               PROVE  Cardinality(Window(b, end)') <= b.max_actions
  BY DEF ActionsEver
<1>2. b.window \in Nat /\ b.max_actions \in Nat
  BY <1>1, AdmissionBudgets
<1>3. /\ ledger'[k] = e /\ e \in Decisions /\ e # Null
      /\ \A q \in Keys : q # k => ledger'[q] = ledger[q]
      /\ ~Admitted(k)
  BY AdmissionNull DEF TypeOK, Admitted
<1>4. Window(b, end)' \subseteq Window(b, end) \union {k}
  BY <1>3 DEF Window, Admitted, Applicable, Covers
<1>5. CASE k \notin Window(b, end)'
  <2>1. Window(b, end)' \subseteq Window(b, end)
    BY <1>4, <1>5
  <2>2. Cardinality(Window(b, end)') <= Cardinality(Window(b, end))
    BY <2>1, WindowFinite, FS_Subset
  <2>3. Cardinality(Window(b, end)') \in Nat
    BY <2>1, WindowFinite, FS_Subset, FS_CardinalityType
  <2>4. QED
    BY <1>1, <1>2, <2>2, <2>3, WindowFinite DEF ActionsEver
<1>6. CASE k \in Window(b, end)'
  <2>1. /\ e.blocked_by = Null /\ Applicable(b, e.request)
        /\ e.at > end - b.window /\ e.at <= end /\ e.at \in Nat
    BY <1>3, <1>6 DEF Window, Admitted, Applicable, Covers, Decisions
  <2>2. ~(Cardinality(Used(b, e.at)) + 1 > b.max_actions)
    BY <1>1, <2>1 DEF Clear
  <2>3. Window(b, end) \subseteq Used(b, e.at)
    <3>1. \A q \in Keys : Admitted(q) => ledger[q].at \in Nat
      BY DEF TypeOK, Admitted, Decisions
    <3>2. QED
      BY <1>2, <2>1, <3>1 DEF Window, Used
  <2>4. Cardinality(Window(b, end)) <= Cardinality(Used(b, e.at))
    BY <2>3, UsedFinite, FS_Subset
  <2>5. Cardinality(Window(b, end) \union {k}) <= Cardinality(Window(b, end)) + 1
        /\ IsFiniteSet(Window(b, end) \union {k})
        /\ Cardinality(Window(b, end) \union {k}) \in Nat
    <3>a. PICK S : S = Window(b, end)
      OBVIOUS
    <3>1. IsFiniteSet(S) /\ Cardinality(S) \in Nat
      BY <3>a, WindowFinite
    <3>2. IsFiniteSet(S \union {k})
          /\ Cardinality(S \union {k}) = IF k \in S THEN Cardinality(S) ELSE Cardinality(S) + 1
      BY <3>1, FS_AddElement
    <3>3. QED
      BY <3>a, <3>1, <3>2
  <2>6. Cardinality(Window(b, end)') <= Cardinality(Window(b, end) \union {k})
        /\ Cardinality(Window(b, end)') \in Nat
    BY <1>4, <2>5, FS_Subset, FS_CardinalityType
  <2>7. QED
    BY <1>2, <2>2, <2>4, <2>5, <2>6, WindowFinite, UsedFinite
<1>7. QED
  BY <1>5, <1>6

LEMMA AdmitSums ==
    ASSUME TypeOK, AmountsEver, NEW k \in Keys, ledger[k] = Null, NEW e \in Decisions,
           ledger' = [ledger EXCEPT ![k] = e], e.blocked_by = Null => Clear(e.request, e.at)
    PROVE  AmountsEver'
<1>1. SUFFICES ASSUME NEW b \in Budgets, b.max_per_window # Null, NEW end \in Nat
               PROVE  Spent(Paid, Window(b, end))' <= b.max_per_window
  BY DEF AmountsEver
<1>2. b.window \in Nat /\ b.max_per_window \in Nat
  BY <1>1, AdmissionBudgets
<1>3. /\ ledger'[k] = e /\ e \in Decisions /\ e # Null
      /\ \A q \in Keys : q # k => ledger'[q] = ledger[q]
      /\ ~Admitted(k)
  BY AdmissionNull DEF TypeOK, Admitted
<1>4. PICK before, after, old, new :
         before = Paid /\ after = Paid' /\ old = Window(b, end) /\ new = Window(b, end)'
  OBVIOUS
<1>5. /\ old \subseteq Keys \ {k} /\ new \subseteq old \union {k} /\ new \subseteq Keys
      /\ (new \ {k}) \subseteq old
  BY <1>3, <1>4 DEF Window, Admitted, Applicable, Covers
<1>6. /\ \A q \in Keys : before[q] \in Nat /\ after[q] \in Nat
      /\ \A q \in Keys \ {k} : after[q] = before[q]
  BY <1>3, <1>4 DEF Paid, Admitted
<1>7. IsFiniteSet(old) /\ IsFiniteSet(new) /\ IsFiniteSet(new \ {k}) /\ IsFiniteSet(Keys)
  BY <1>5, AdmissionKeys, FS_Subset
<1>8. Units(after, new \ {k}) = Units(before, new \ {k})
  BY <1>5, <1>6 DEF Units
<1>9. /\ Spent(after, new \ {k}) <= Spent(before, old) /\ Spent(after, new \ {k}) \in Nat
      /\ Spent(before, old) \in Nat
  BY <1>5, <1>6, <1>7, <1>8, SpentPart, UnitsFinite DEF Spent
<1>10. Spent(before, old) <= b.max_per_window
  BY <1>1, <1>4 DEF AmountsEver
<1>11. CASE k \notin new
  <2>1. new \ {k} = new
    BY <1>11
  <2>2. QED
    BY <1>2, <1>4, <1>9, <1>10, <2>1 DEF Spent
<1>12. CASE k \in new
  <2>1. /\ e.blocked_by = Null /\ Applicable(b, e.request)
        /\ e.at > end - b.window /\ e.at <= end /\ e.at \in Nat /\ e.request \in Requests
    BY <1>3, <1>4, <1>12 DEF Window, Admitted, Applicable, Covers, Decisions
  <2>2. /\ e.request.amount # Null
        /\ ~(Spent(Paid, Used(b, e.at)) + e.request.amount > b.max_per_window)
    BY <1>1, <2>1 DEF Clear
  <2>3. e.request.amount \in Nat
    BY <2>1, <2>2, AdmissionRequests
  <2>4. PICK counted : counted = Used(b, e.at)
    OBVIOUS
  <2>5. old \subseteq counted /\ counted \subseteq Keys
    <3>1. \A q \in Keys : Admitted(q) => ledger[q].at \in Nat
      BY DEF TypeOK, Admitted, Decisions
    <3>2. QED
      BY <1>2, <1>4, <2>1, <2>4, <3>1 DEF Window, Used
  <2>6. IsFiniteSet(counted)
    BY <1>7, <2>5, FS_Subset
  <2>7. Spent(before, old) <= Spent(before, counted) /\ Spent(before, counted) \in Nat
    BY <1>6, <2>5, <2>6, SpentPart, UnitsFinite
  <2>8. after[k] = e.request.amount
    BY <1>3, <1>4, <2>1, <2>3 DEF Paid, Admitted
  <2>9. Spent(after, (new \ {k}) \union {k}) = Spent(after, new \ {k}) + after[k]
    BY <1>5, <1>6, <1>7, SpentMore
  <2>10. (new \ {k}) \union {k} = new
    BY <1>12
  <2>11. Spent(after, new) = Spent(after, new \ {k}) + e.request.amount
    BY <2>8, <2>9, <2>10
  <2>12. ~(Spent(before, counted) + e.request.amount > b.max_per_window)
    BY <1>4, <2>2, <2>4
  <2>13. Spent(after, new) <= b.max_per_window
    BY <1>2, <1>9, <2>3, <2>7, <2>11, <2>12
  <2>14. QED
    BY <1>4, <2>13 DEF Spent
<1>13. QED
  BY <1>11, <1>12

LEMMA AdmitHolds ==
    ASSUME TypeOK, BudgetsEver, NEW k \in Keys, ledger[k] = Null, NEW e \in Decisions,
           ledger' = [ledger EXCEPT ![k] = e], e.blocked_by = Null => Clear(e.request, e.at)
    PROVE  BudgetsEver'
BY AdmitCounts, AdmitSums DEF BudgetsEver

-----------------------------------------------------------------------------
(* The steps.                                                              *)
Inv == TypeOK /\ CallersOK /\ DecisionsOK /\ BudgetsEver

(* A caller moves, outside the boundary, and writes at most its action.    *)
LEMMA MoveKeeps ==
    ASSUME Inv, NEW c \in Callers, ~Inside(c), SameLedger, DataOK', UNCHANGED holder,
           caller' \in [Callers -> Jobs],
           \A d \in Callers : d # c => caller'[d] = caller[d],
           caller'[c].pc \notin {"crossed", "decided"},
           caller'[c].pc # "idle" => caller'[c].key \in Keys /\ caller'[c].request \in Requests,
           caller'[c].pc \in {"admitted", "authorised", "dispatched"} =>
               Admitted(caller[c].key)' /\ caller'[c].key = caller[c].key
    PROVE  Inv'
<1>1. TypeOK'
  BY TypeParts, Outside DEF Inv, TypeOK, BoundaryOK, DataOK, Inside, Jobs, PCs, Blocks
<1>2. CallersOK'
  BY OthersOK DEF Inv, SameLedger
<1>3. DecisionsOK'
  BY DecisionsStay DEF Inv
<1>4. QED
  BY <1>1, <1>2, <1>3, BudgetsStay DEF Inv

(* Nothing but a caller changes.                                           *)
LEMMA OnlyCaller ==
    ASSUME DataOK, UNCHANGED <<clock, holder, operators, ledger, acted, used>>
    PROVE  DataOK' /\ SameLedger
BY DEF DataOK, SameLedger, operators, Admitted

LEMMA SubmitKeeps ==
    ASSUME Inv, NEW c \in Callers, Submit(c) \/ Begin(c)
    PROVE  Inv'
<1>. TypeOK /\ CallersOK /\ DataOK
  BY TypeParts DEF Inv
<1>1. CASE Submit(c)
  <2>1. PICK k \in Keys, request \in Requests :
           Become(c, [Idle EXCEPT !.pc = "submitted", !.key = k, !.request = request])
    BY <1>1 DEF Submit
  <2>a. PICK j : j = [Idle EXCEPT !.pc = "submitted", !.key = k, !.request = request]
    OBVIOUS
  <2>2. j \in Jobs /\ j.pc = "submitted" /\ j.key = k /\ j.request = request
    BY <2>a DEF Idle, Jobs, PCs, Blocks
  <2>3. /\ caller' \in [Callers -> Jobs] /\ caller'[c] = j
        /\ \A d \in Callers : d # c => caller'[d] = caller[d]
    BY <2>1, <2>2, <2>a, JobType
  <2>4. ~Inside(c) /\ UNCHANGED <<clock, holder, operators, ledger, acted>>
        /\ used' \in [DOMAIN Limits -> Nat]
    BY <1>1, SpendType DEF Submit, Inside, At
  <2>5. DataOK' /\ SameLedger
    BY <2>4 DEF DataOK, SameLedger, operators, Admitted
  <2>6. QED
    BY <2>2, <2>3, <2>4, <2>5, MoveKeeps
<1>2. CASE Begin(c)
  <2>a. PICK j : j = [caller[c] EXCEPT !.pc = "waiting", !.started = clock]
    OBVIOUS
  <2>1. caller[c] \in Jobs /\ clock \in Nat
    BY CallerType DEF DataOK
  <2>2. /\ j \in Jobs /\ j.pc = "waiting" /\ j.key = caller[c].key
        /\ j.request = caller[c].request
    BY <2>1, <2>a DEF Jobs, PCs
  <2>3. /\ caller' \in [Callers -> Jobs] /\ caller'[c] = j
        /\ \A d \in Callers : d # c => caller'[d] = caller[d]
    BY <1>2, <2>2, <2>a, JobType DEF Begin
  <2>4. ~Inside(c) /\ ~At(c, "idle")
        /\ UNCHANGED <<clock, holder, operators, ledger, acted, used>>
    BY <1>2 DEF Begin, Inside, At
  <2>5. caller[c].key \in Keys /\ caller[c].request \in Requests
    BY <2>4 DEF CallersOK
  <2>6. QED
    BY <2>2, <2>3, <2>4, <2>5, OnlyCaller, MoveKeeps
<1>3. QED
  BY <1>1, <1>2

(* Crossing the boundary: nobody else is inside.                           *)
LEMMA CrossKeeps ==
    ASSUME Inv, NEW c \in Callers, CrossBoundary(c)
    PROVE  Inv'
<1>. TypeOK /\ CallersOK /\ DataOK /\ BoundaryOK /\ DecisionsOK
  BY TypeParts DEF Inv
<1>1. /\ holder = Null /\ holder' = c /\ At(c, "waiting")
      /\ UNCHANGED <<clock, operators, ledger, acted, used>>
  BY DEF CrossBoundary, BoundaryFree
<1>2. /\ caller' \in [Callers -> Jobs] /\ caller'[c].pc = "crossed"
      /\ caller'[c].key = caller[c].key /\ caller'[c].request = caller[c].request
      /\ \A d \in Callers : d # c => caller'[d] = caller[d]
  BY GotoType DEF CrossBoundary, PCs
<1>3. DataOK' /\ SameLedger
  BY <1>1 DEF DataOK, SameLedger, operators, Admitted
<1>4. BoundaryOK'
  <2>1. \A d \in Callers : ~Inside(d)
    BY <1>1, AdmissionNull DEF BoundaryOK
  <2>2. QED
    BY <1>1, <1>2, <2>1 DEF BoundaryOK, Inside, At
<1>5. caller[c].key \in Keys /\ caller[c].request \in Requests
  BY <1>1 DEF CallersOK, At
<1>6. CallersOK'
  BY <1>2, <1>3, <1>5, OthersOK DEF SameLedger
<1>7. DecisionsOK'
  BY <1>2, <1>3, DecisionsStay
<1>8. QED
  BY <1>2, <1>3, <1>4, <1>6, <1>7, BudgetsStay
     DEF Inv, TypeOK, BoundaryOK, DataOK, Inside, Jobs, PCs, Blocks

LEMMA DecideKeeps ==
    ASSUME Inv, NEW c \in Callers, Decide(c)
    PROVE  Inv'
<1>. TypeOK /\ CallersOK /\ DataOK /\ BoundaryOK /\ DecisionsOK
  BY TypeParts DEF Inv
<1>a. PICK j : j = [caller[c] EXCEPT
                       !.pc = "decided",
                       !.blocked_by = BlockedBy(caller[c].request, caller[c].started)]
  OBVIOUS
<1>1. /\ At(c, "crossed") /\ UNCHANGED <<clock, holder, operators, ledger, acted, used>>
  BY DEF Decide
<1>2. /\ j \in Jobs /\ j.pc = "decided" /\ j.key = caller[c].key
      /\ j.request = caller[c].request /\ j.started = caller[c].started
      /\ j.blocked_by = BlockedBy(caller[c].request, caller[c].started)
  <2>1. BlockedBy(caller[c].request, caller[c].started) \in Blocks
    BY BlockedByType
  <2>2. caller[c] \in Jobs
    BY CallerType
  <2>3. QED
    BY <1>a, <2>1, <2>2 DEF Jobs, PCs
<1>3. /\ caller' \in [Callers -> Jobs] /\ caller'[c] = j
      /\ \A d \in Callers : d # c => caller'[d] = caller[d]
  BY <1>2, <1>a, JobType DEF Decide
<1>4. DataOK' /\ SameLedger
  BY <1>1, OnlyCaller
<1>5. BoundaryOK'
  BY <1>1, <1>2, <1>3 DEF BoundaryOK, Inside, At
<1>6. caller[c].key \in Keys /\ caller[c].request \in Requests
  BY <1>1 DEF CallersOK, At
<1>7. CallersOK'
  BY <1>2, <1>3, <1>4, <1>6, OthersOK DEF SameLedger
<1>8. DecisionsOK'
  <2>1. \A d \in Callers : d # c => ~At(d, "decided")'
    BY <1>1, <1>3 DEF BoundaryOK, Inside, At
  <2>b. PICK request, now : request = caller[c].request /\ now = caller[c].started
    OBVIOUS
  <2>2. j.blocked_by = Null => Clear(request, now)'
    BY <1>2, <1>4, <2>b, UnblockedIsClear, SameClear
  <2>3. request = caller'[c].request /\ now = caller'[c].started
    BY <1>2, <1>3, <2>b
  <2>4. caller'[c].blocked_by = Null => Clear(caller[c].request, caller[c].started)'
    BY <1>3, <2>2, <2>3 DEF Clear, Used, Applicable, Covers
  <2>5. QED
    BY <2>1, <2>4 DEF DecisionsOK
<1>9. QED
  BY <1>3, <1>4, <1>5, <1>7, <1>8, BudgetsStay
     DEF Inv, TypeOK, BoundaryOK, DataOK, Inside, Jobs, PCs, Blocks

(* Leaving the boundary, with the decision stored or met.                  *)
LEMMA CommitKeeps ==
    ASSUME Inv, NEW c \in Callers, Commit(c)
    PROVE  Inv'
<1>. TypeOK /\ CallersOK /\ DataOK /\ BoundaryOK /\ DecisionsOK
  BY TypeParts DEF Inv
<1>a. PICK k : k = caller[c].key
  OBVIOUS
<1>b. PICK e : e = [at |-> caller[c].started, request |-> caller[c].request,
                    blocked_by |-> caller[c].blocked_by, linked |-> FALSE]
  OBVIOUS
<1>1. /\ At(c, "decided") /\ holder = c /\ holder' = Null
      /\ UNCHANGED <<clock, operators, acted, used>>
  BY DEF Commit, BoundaryOK, Inside
<1>2. k \in Keys /\ caller[c].request \in Requests /\ caller[c] \in Jobs
  BY <1>1, <1>a, CallerType DEF CallersOK, At
<1>3. /\ e \in Decisions /\ e.blocked_by = caller[c].blocked_by
      /\ e.request = caller[c].request /\ e.at = caller[c].started
  BY <1>2, <1>b DEF Jobs, Decisions, Blocks
<1>4. e.blocked_by = Null => Clear(e.request, e.at)
  BY <1>1, <1>3 DEF DecisionsOK
<1>5. /\ caller' \in [Callers -> Jobs]
      /\ \A d \in Callers : d # c => caller'[d] = caller[d]
      /\ caller'[c].pc \in {"idle", "admitted", "conflict"}
      /\ caller'[c].pc # "idle" => caller'[c].key = k /\ caller'[c].request = caller[c].request
      /\ caller'[c].pc = "admitted" => ledger[k] = Null /\ caller[c].blocked_by = Null
  <2>1. CASE LeaveBoundary(c, "admitted") /\ ledger[k] = Null /\ caller[c].blocked_by = Null
    BY <1>a, <2>1, LeaveType DEF PCs
  <2>2. CASE LeaveBoundary(c, "conflict")
    BY <1>a, <2>2, LeaveType DEF PCs
  <2>3. CASE Return(c)
    BY <2>3, ReturnType
  <2>4. QED
    BY <1>a, <2>1, <2>2, <2>3 DEF Commit
<1>6. BoundaryOK'
  <2>1. \A d \in Callers : d # c => ~Inside(d)
    BY <1>1 DEF BoundaryOK
  <2>2. QED
    BY <1>1, <1>5, <2>1, AdmissionNull DEF BoundaryOK, Inside, At
<1>7. DecisionsOK'
  BY <1>5, <1>6, <1>1, AdmissionNull DEF DecisionsOK, BoundaryOK, Inside, At
<1>8. CASE ledger[k] = Null
  <2>1. ledger' = [ledger EXCEPT ![k] = e]
    BY <1>8, <1>a, <1>b DEF Commit
  <2>2. /\ ledger'[k] = e /\ e # Null /\ ~Admitted(k)
        /\ \A q \in Keys : q # k => ledger'[q] = ledger[q]
    BY <1>2, <1>3, <1>8, <2>1, AdmissionNull DEF DataOK, Admitted
  <2>3. BudgetsEver'
    BY <1>2, <1>3, <1>4, <1>8, <2>1, AdmitHolds DEF Inv
  <2>4. \A q \in Keys : Admitted(q) => Admitted(q)'
    BY <2>2 DEF Admitted
  <2>5. ledger' \in [Keys -> Decisions \union {Null}]
    BY <1>3, <2>1 DEF DataOK
  <2>6. DataOK'
    BY <1>1, <2>4, <2>5 DEF DataOK, operators
  <2>7. caller'[c].pc = "admitted" => Admitted(k)'
    BY <1>3, <1>5, <2>2 DEF Admitted
  <2>8. CallersOK'
    BY <1>2, <1>5, <1>a, <2>4, <2>7, OthersOK
  <2>9. QED
    BY <1>5, <1>6, <1>7, <2>3, <2>6, <2>8
       DEF Inv, TypeOK, BoundaryOK, DataOK, Inside, Jobs, PCs, Blocks
<1>9. CASE ledger[k] # Null
  <2>1. UNCHANGED ledger
    BY <1>9, <1>a DEF Commit
  <2>2. SameLedger
    BY <1>1, <2>1, LedgerStays DEF operators
  <2>3. DataOK'
    BY <1>1, <2>1 DEF DataOK, operators, Admitted
  <2>4. CallersOK'
    BY <1>2, <1>5, <1>9, <2>2, OthersOK DEF SameLedger
  <2>5. QED
    BY <1>5, <1>6, <1>7, <2>2, <2>3, <2>4, BudgetsStay
       DEF Inv, TypeOK, BoundaryOK, DataOK, Inside, Jobs, PCs, Blocks
<1>10. QED
  BY <1>8, <1>9

(* What happens once the request is admitted.                              *)
LEMMA AdmittedKeeps ==
    ASSUME Inv, NEW c \in Callers, Replay(c) \/ Authorize(c) \/ Dispatch(c) \/ LinkAdmission(c)
    PROVE  Inv'
<1>. TypeOK /\ CallersOK /\ DataOK
  BY TypeParts DEF Inv
<1>a. PICK k : k = caller[c].key
  OBVIOUS
<1>1. ~Inside(c) /\ ~At(c, "idle") /\ k \in Keys /\ caller[c].request \in Requests
      /\ caller[c] \in Jobs
  BY <1>a, CallerType DEF Replay, Authorize, Dispatch, LinkAdmission, Inside, At, CallersOK
<1>2. CASE Replay(c)
  <2>1. UNCHANGED <<clock, holder, operators, ledger, acted, used>>
        /\ ((Goto(c, "admitted") /\ Admitted(k)) \/ Return(c))
    BY <1>2, <1>a DEF Replay
  <2>2. DataOK' /\ SameLedger
    BY <2>1, OnlyCaller
  <2>3. CASE Return(c)
    BY <1>1, <2>1, <2>2, <2>3, ReturnType, MoveKeeps
  <2>4. CASE Goto(c, "admitted") /\ Admitted(k)
    <3>1. Admitted(k)'
      BY <1>1, <2>2, <2>4 DEF SameLedger
    <3>2. /\ caller' \in [Callers -> Jobs] /\ caller'[c].pc = "admitted"
          /\ caller'[c].key = k /\ caller'[c].request = caller[c].request
          /\ \A d \in Callers : d # c => caller'[d] = caller[d]
      BY <1>a, <2>4, GotoType DEF PCs
    <3>3. Admitted(caller[c].key)'
      BY <3>1, <3>2 DEF Admitted
    <3>4. QED
      BY <1>1, <1>a, <2>1, <2>2, <3>2, <3>3, MoveKeeps
  <2>5. QED
    BY <2>1, <2>3, <2>4
<1>3. CASE Authorize(c)
  <2>1. At(c, "admitted") /\ UNCHANGED <<clock, holder, operators, ledger, acted, used>>
    BY <1>3 DEF Authorize
  <2>2. DataOK' /\ SameLedger
    BY <2>1, OnlyCaller
  <2>3. CASE Return(c)
    BY <1>1, <2>1, <2>2, <2>3, ReturnType, MoveKeeps
  <2>4. CASE ~Return(c)
    <3>1. PICK alone \in BOOLEAN :
             Become(c, [caller[c] EXCEPT !.pc = "authorised", !.alone = alone])
      BY <1>3, <2>4, ZenonT(30) DEF Authorize
    <3>a. PICK j : j = [caller[c] EXCEPT !.pc = "authorised", !.alone = alone]
      OBVIOUS
    <3>2. /\ j \in Jobs /\ j.pc = "authorised" /\ j.key = k /\ j.request = caller[c].request
      BY <1>1, <1>a, <3>a DEF Jobs, PCs
    <3>3. /\ caller' \in [Callers -> Jobs] /\ caller'[c] = j
          /\ \A d \in Callers : d # c => caller'[d] = caller[d]
      BY <3>1, <3>2, <3>a, JobType
    <3>4. Admitted(k)'
      BY <1>1, <1>a, <2>1, <2>2 DEF SameLedger, CallersOK
    <3>5. Admitted(caller[c].key)'
      BY <3>2, <3>3, <3>4 DEF Admitted
    <3>6. QED
      BY <1>1, <1>a, <2>1, <2>2, <3>2, <3>3, <3>5, MoveKeeps
  <2>5. QED
    BY <2>3, <2>4
<1>4. CASE Dispatch(c)
  <2>a. PICK act : act = [at |-> clock, request |-> caller[c].request, alone |-> caller[c].alone]
    OBVIOUS
  <2>1. /\ At(c, "authorised") /\ UNCHANGED <<clock, holder, operators, ledger, used>>
        /\ (UNCHANGED acted \/ acted' = [acted EXCEPT ![k] = act])
    BY <1>4, <1>a, <2>a DEF Dispatch
  <2>2. Admitted(k) /\ SameLedger
    BY <1>a, <2>1, LedgerStays DEF CallersOK, operators
  <2>3. act \in Actions
    BY <1>1, <2>a DEF Actions, Jobs, DataOK
  <2>4. acted' \in [Keys -> Actions \union {Null}]
        /\ \A q \in Keys : q # k => acted'[q] = acted[q]
    BY <2>1, <2>3 DEF DataOK
  <2>5. DataOK'
    BY <2>1, <2>2, <2>4 DEF DataOK, operators, Admitted
  <2>6. /\ caller' \in [Callers -> Jobs] /\ caller'[c].pc = "dispatched"
        /\ caller'[c].key = k /\ caller'[c].request = caller[c].request
        /\ \A d \in Callers : d # c => caller'[d] = caller[d]
    BY <1>4, <1>a, GotoType DEF Dispatch, PCs
  <2>7. Admitted(caller[c].key)'
    BY <2>1, <2>2, <2>6 DEF Admitted
  <2>8. QED
    BY <1>1, <1>a, <2>1, <2>2, <2>5, <2>6, <2>7, MoveKeeps
<1>5. CASE LinkAdmission(c)
  <2>a. PICK e : e = [ledger[k] EXCEPT !.linked = TRUE]
    OBVIOUS
  <2>1. /\ At(c, "dispatched") /\ UNCHANGED <<clock, holder, operators, acted, used>>
        /\ ledger' = [ledger EXCEPT ![k] = e] /\ Return(c)
    BY <1>5, <1>a, <2>a DEF LinkAdmission
  <2>2. Admitted(k) /\ ledger[k] \in Decisions
    BY <1>1, <1>a, <2>1 DEF CallersOK, DataOK, Admitted
  <2>3. /\ e \in Decisions /\ e # Null /\ e.blocked_by = ledger[k].blocked_by
        /\ e.request = ledger[k].request /\ e.at = ledger[k].at
    BY <2>2, <2>a, AdmissionNull DEF Decisions
  <2>4. ledger' \in [Keys -> Decisions \union {Null}] /\ ledger'[k] = e
        /\ \A q \in Keys : q # k => ledger'[q] = ledger[q]
    BY <1>1, <2>1, <2>3 DEF DataOK
  <2>5. SameLedger
    BY <2>1, <2>2, <2>3, <2>4 DEF SameLedger, Admitted, operators
  <2>6. DataOK'
    BY <2>1, <2>4, <2>5 DEF DataOK, operators, SameLedger
  <2>7. QED
    BY <1>1, <2>1, <2>5, <2>6, ReturnType, MoveKeeps
<1>6. QED
  BY <1>2, <1>3, <1>4, <1>5

(* The operators: a freeze waits for the boundary, nothing else matters.   *)
LEMMA OperateKeeps ==
    ASSUME Inv, Operate
    PROVE  Inv'
<1>. TypeOK /\ CallersOK /\ DataOK /\ BoundaryOK /\ DecisionsOK
  BY TypeParts DEF Inv
<1>1. UNCHANGED <<clock, holder, ledger, acted, caller>>
  BY DEF Operate, ActivateFreeze, ReleaseFreeze, SetEnvironmentMode, CreateCanaryRule,
         SetCanaryRuleDisabled, CreateAutonomyRule, DisableAutonomyRule, CreateException,
         EndException
<1>2. UNCHANGED frozen \/ holder = Null
  BY DEF Operate, ActivateFreeze, ReleaseFreeze, SetEnvironmentMode, CreateCanaryRule,
         SetCanaryRuleDisabled, CreateAutonomyRule, DisableAutonomyRule, CreateException,
         EndException, BoundaryFree
<1>3. used' \in [DOMAIN Limits -> Nat]
  <2>1. Spend("changes") \/ UNCHANGED used
    BY DEF Operate, ActivateFreeze, ReleaseFreeze, SetEnvironmentMode, CreateCanaryRule,
           SetCanaryRuleDisabled, CreateAutonomyRule, DisableAutonomyRule, CreateException,
           EndException
  <2>2. QED
    BY <2>1, SpendType DEF DataOK
<1>4. granted' \in Seq(Exceptions)
  <2>1. ASSUME NEW exception \in Exceptions, CreateException(exception)
        PROVE  granted' \in Seq(Exceptions)
    BY <2>1, ConcatProperties DEF CreateException, DataOK
  <2>2. ASSUME NEW i \in DOMAIN granted, EndException(i)
        PROVE  granted' \in Seq(Exceptions)
    <3>1. i \in 1..Len(granted) /\ Len(granted) \in Nat
      BY DEF DataOK
    <3>2. SubSeq(granted, 1, i - 1) \in Seq(Exceptions)
      BY <3>1, SubSeqProperties DEF DataOK
    <3>3. SubSeq(granted, i + 1, Len(granted)) \in Seq(Exceptions)
      BY <3>1, SubSeqProperties DEF DataOK
    <3>4. QED
      BY <2>2, <3>2, <3>3, ConcatProperties DEF EndException
  <2>3. CASE UNCHANGED granted
    BY <2>3 DEF DataOK
  <2>4. QED
    BY <2>1, <2>2, <2>3
       DEF Operate, ActivateFreeze, ReleaseFreeze, SetEnvironmentMode, CreateCanaryRule,
           SetCanaryRuleDisabled, CreateAutonomyRule, DisableAutonomyRule
<1>5. frozen' \subseteq Scopes /\ mode' \in Modes
  BY DEF DataOK, Operate, ActivateFreeze, ReleaseFreeze, SetEnvironmentMode, CreateCanaryRule,
         SetCanaryRuleDisabled, CreateAutonomyRule, DisableAutonomyRule, CreateException,
         EndException
<1>6. rules' \subseteq Rules
  BY DEF DataOK, Operate, ActivateFreeze, ReleaseFreeze, SetEnvironmentMode, CreateCanaryRule,
         SetCanaryRuleDisabled, CreateAutonomyRule, DisableAutonomyRule, CreateException,
         EndException
<1>7. canary' \subseteq {Slice(r) : r \in Requests}
  <2>1. \/ \E r \in Requests : canary' = canary \union {Slice(r)} \/ canary' = canary \ {Slice(r)}
        \/ UNCHANGED canary
    BY DEF Operate, ActivateFreeze, ReleaseFreeze, SetEnvironmentMode, CreateCanaryRule,
           SetCanaryRuleDisabled, CreateAutonomyRule, DisableAutonomyRule, CreateException,
           EndException
  <2>2. canary \subseteq {Slice(r) : r \in Requests}
    BY DEF DataOK
  <2>3. QED
    BY <2>1, <2>2
<1>8. DataOK'
  BY <1>1, <1>3, <1>4, <1>5, <1>6, <1>7 DEF DataOK, Admitted
<1>9. BoundaryOK' /\ CallersOK'
  BY <1>1 DEF BoundaryOK, Inside, At, CallersOK, Admitted
<1>10. BudgetsEver'
  BY <1>1 DEF Inv, BudgetsEver, ActionsEver, AmountsEver, Paid, Window, Admitted, Applicable,
              Covers
<1>11. DecisionsOK'
  <2>1. CASE UNCHANGED frozen
    <3>1. UNCHANGED <<frozen, ledger, caller>>
      BY <1>1, <2>1
    <3>2. DecisionsOK
      BY DEF Inv
    <3>3. QED
      BY <3>1, <3>2 DEF DecisionsOK, At, Clear, Used, Paid, Admitted, Applicable, Covers
  <2>2. CASE holder = Null
    BY <1>1, <2>2, AdmissionNull DEF DecisionsOK, BoundaryOK, Inside, At
  <2>3. QED
    BY <1>2, <2>1, <2>2
<1>12. QED
  BY <1>1, <1>8, <1>9, <1>10, <1>11, CallerType
     DEF Inv, TypeOK, BoundaryOK, DataOK, Inside, Jobs, PCs, Blocks

(* A connection dies: what it decided is rolled back, and its locks end.   *)
LEMMA CrashKeeps ==
    ASSUME Inv, NEW c \in Callers, Crash(c)
    PROVE  Inv'
<1>. TypeOK /\ CallersOK /\ DataOK /\ BoundaryOK /\ DecisionsOK
  BY TypeParts DEF Inv
<1>1. /\ UNCHANGED <<clock, operators, ledger, acted>> /\ used' \in [DOMAIN Limits -> Nat]
      /\ holder' = IF holder = c THEN Null ELSE holder
  BY SpendType DEF Crash
<1>2. /\ caller' \in [Callers -> Jobs] /\ caller'[c].pc = "idle"
      /\ \A d \in Callers : d # c => caller'[d] = caller[d]
  BY ReturnType DEF Crash
<1>3. DataOK' /\ SameLedger
  BY <1>1 DEF DataOK, SameLedger, operators, Admitted
<1>4. BoundaryOK'
  BY <1>1, <1>2, AdmissionNull DEF BoundaryOK, Inside, At
<1>5. CallersOK'
  BY <1>2, <1>3, OthersOK DEF SameLedger
<1>6. DecisionsOK'
  BY <1>2, <1>3, DecisionsStay
<1>7. QED
  BY <1>2, <1>3, <1>4, <1>5, <1>6, BudgetsStay
     DEF Inv, TypeOK, BoundaryOK, DataOK, Inside, Jobs, PCs, Blocks

LEMMA AdmissionRest ==
    ASSUME Inv, clock' \in Nat,
           UNCHANGED <<holder, mode, canary, frozen, rules, granted, ledger, acted, caller, used>>
    PROVE  Inv'
<1>1. TypeOK'
  BY DEF Inv, TypeOK, At, Admitted
<1>2. SameLedger
  BY LedgerStays
<1>3. CallersOK'
  BY DEF Inv, CallersOK, At, Admitted
<1>4. DecisionsOK'
  BY DEF Inv, DecisionsOK, At, Clear, Used, Paid, Admitted, Applicable, Covers
<1>5. QED
  BY <1>1, <1>2, <1>3, <1>4, BudgetsStay DEF Inv

LEMMA AdmissionStep == Inv /\ [Next]_vars => Inv'
<1>. SUFFICES ASSUME Inv, [Next]_vars PROVE Inv'
  OBVIOUS
<1>1. CASE UNCHANGED vars \/ Tick
  BY <1>1, AdmissionRest DEF vars, Tick, Inv, TypeOK, operators
<1>2. ASSUME NEW c \in Callers, Submit(c) \/ Answer(c) \/ Crash(c) PROVE Inv'
  BY <1>2, SubmitKeeps, CrossKeeps, DecideKeeps, CommitKeeps, AdmittedKeeps, CrashKeeps DEF Answer
<1>3. QED
  BY <1>1, <1>2, OperateKeeps DEF Next

(* It holds of an environment that begins.                                 *)
LEMMA AdmissionInit == Init => Inv
<1>1. ASSUME Init, NEW b \in Budgets, NEW end \in Nat
      PROVE  Window(b, end) = {}
  BY <1>1 DEF Init, Window, Admitted
<1>2. Cardinality({}) = 0 /\ Spent(Paid, {}) = 0
  BY FS_EmptySet, SpentNone
<1>3. \A b \in Budgets : /\ b.max_actions # Null => 0 <= b.max_actions
                         /\ b.max_per_window # Null => 0 <= b.max_per_window
  BY AdmissionBudgets
<1>4. Init => BudgetsEver
  BY <1>1, <1>2, <1>3 DEF BudgetsEver, ActionsEver, AmountsEver
<1>5. QED
  BY <1>4, TypeInit DEF Inv

LEMMA AdmissionInvariant == Spec => []Inv
BY AdmissionInit, AdmissionStep, PTL DEF Spec

(* Types; the boundary is held by the one transaction that is inside; an   *)
(* action is of a key that was admitted.                                   *)
THEOREM AdmissionType == Spec => []TypeOK
BY AdmissionInvariant, PTL DEF Inv

(* The blast radius: the budgets of actions and of money hold at every     *)
(* instant, for any number of callers, keys and budgets, however long a     *)
(* transaction waits for the boundary.                                     *)
THEOREM BudgetTheorem == Spec => []BudgetHolds
BY AdmissionInvariant, BudgetsEverHold, PTL DEF Inv

(* What a freeze covers no step admits.                                    *)
Stops == \A k \in Keys : ledger[k] = Null /\ Admitted(k)' =>
           \A scope \in frozen' : ~Covers(scope, ledger'[k].request)

LEMMA FreezeStep == Inv /\ [Next]_vars => Stops
<1>1. ASSUME Inv, [Next]_vars, NEW k \in Keys, ledger[k] = Null, Admitted(k)'
      PROVE  \A scope \in frozen' : ~Covers(scope, ledger'[k].request)
  <2>1. PICK c \in Callers : Commit(c) /\ k = caller[c].key
    <3>1. ASSUME NEW c \in Callers, LinkAdmission(c)
          PROVE  FALSE
      <4>1. Admitted(caller[c].key)
        BY <1>1, <3>1 DEF Inv, CallersOK, LinkAdmission
      <4>2. ledger'[k] = ledger[k]
        BY <1>1, <3>1, <4>1 DEF LinkAdmission, Admitted, Inv, TypeOK
      <4>3. QED
        BY <1>1, <4>2 DEF Admitted
    <3>2. CASE UNCHANGED ledger
      BY <1>1, <3>2 DEF Admitted
    <3>3. ASSUME NEW c \in Callers, Commit(c), k # caller[c].key, ~UNCHANGED ledger
          PROVE  FALSE
      BY <1>1, <3>3 DEF Commit, Admitted, Inv, TypeOK
    <3>4. QED
      BY <1>1, <3>1, <3>2, <3>3
         DEF Next, vars, Answer, Submit, Begin, CrossBoundary, Decide, Replay, Authorize,
             Dispatch, Crash, Tick, Operate, ActivateFreeze, ReleaseFreeze, SetEnvironmentMode,
             CreateCanaryRule, SetCanaryRuleDisabled, CreateAutonomyRule, DisableAutonomyRule,
             CreateException, EndException
  <2>2. /\ ledger'[k].request = caller[c].request /\ ledger'[k].blocked_by = caller[c].blocked_by
        /\ UNCHANGED frozen /\ At(c, "decided")
    BY <1>1, <2>1 DEF Commit, Inv, TypeOK, operators
  <2>3. Clear(caller[c].request, caller[c].started)
    BY <1>1, <2>2 DEF Inv, DecisionsOK, Admitted
  <2>4. QED
    BY <2>2, <2>3 DEF Clear, Covers
<1>2. QED
  BY <1>1 DEF Stops

(* Once a freeze is active no request it covers is newly admitted.         *)
THEOREM FreezeTheorem == Spec => FreezeStops
<1>1. Inv /\ [Next]_vars =>
        [\A k \in Keys : ledger[k] = Null /\ Admitted(k)' =>
           \A scope \in frozen' : ~Covers(scope, ledger'[k].request)]_vars
  BY FreezeStep DEF Stops
<1>2. QED
  BY <1>1, AdmissionInvariant, PTL DEF Spec, FreezeStops
=============================================================================
