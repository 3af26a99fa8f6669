-------------------------- MODULE BackgroundProofs --------------------------
(***************************************************************************)
(* The background work, for any number of workers, attempts and faults.    *)
(* Reconciliation: the types of what is stored, and that an answer follows *)
(* a record for the customer.  Webhooks: who posts without holding the     *)
(* event's live claim is loose (Loose), and costs a fault to become so;    *)
(* every attempt on record that was not the holder's is one that was loose *)
(* before.  So numbers run ahead of the tries by no more than the faults.  *)
(* Two action properties rest on these invariants: what ended an event     *)
(* ends it for good, and what a suppression ended stays ended.             *)
(***************************************************************************)
EXTENDS Background, FiniteSetTheorems, TLAPS

-----------------------------------------------------------------------------
(* Delivery of an event.                                                   *)
Posting(w) == poster[w].pc # "idle"

(* Who posts, and does not hold the event or lost its lease.               *)
Loose == {w \in Workers : Posting(w) /\ (event.owner # w \/ event.lease = "lapsed")}

Tried == Cardinality(attempts)

LooseOK ==
    /\ IsFiniteSet(Loose) /\ Cardinality(Loose) <= faults
    /\ event.status = "queued" => Tried + Cardinality(Loose) <= GiveUpAt - 1 + faults
    /\ \A w \in Workers \ Loose : Posting(w) =>
          Tried + Cardinality(Loose) <= poster[w].attempt - 1 + faults

PosterOK(w) ==
    Posting(w) => /\ poster[w].attempt \in 1..(Tried + 1)
                  /\ poster[w].attempt <= GiveUpAt + faults
                  /\ poster[w].pc = "accepted" => accepted

DeliveryInv ==
    /\ Delivery!TypeOK /\ LooseOK
    /\ \A w \in Workers : PosterOK(w)
    /\ event.owner # NoOne => event.status = "queued"
    /\ event.status = "delivered" => accepted
    /\ event.status = "given_up" => Tried >= GiveUpAt

(* A delivered event was accepted by its receiver; one given up was tried  *)
(* as often as promised; and no number is beyond what the table admits, so *)
(* that only a number that is taken can fail to be recorded.               *)
DeliveryHolds ==
    /\ event.status = "delivered" => accepted
    /\ event.status = "given_up" => Cardinality(attempts) >= GiveUpAt
    /\ \A w \in Workers : poster[w].pc # "idle" => poster[w].attempt <= AttemptLimit

LEMMA SameCount == ASSUME NEW S PROVE Delivery!Cardinality(S) = Cardinality(S)
  BY DEF Delivery!Cardinality, Cardinality

Posters == [pc : {"idle", "posting", "accepted", "refused"}, attempt : Nat]
Rows == [status : {"queued", "delivered", "given_up"}, due : BOOLEAN,
         owner : Workers \union {NoOne}, lease : {"none", "live", "lapsed"}]

LEMMA Bounds ==
    /\ GiveUpAt \in Nat \ {0} /\ AttemptLimit \in Nat /\ MaxFaults \in Nat
    /\ GiveUpAt + MaxFaults <= AttemptLimit
BY DeliveriesAssumption, AttemptsAssumption

LEMMA Counted ==
    ASSUME DeliveryInv
    PROVE  /\ IsFiniteSet(attempts) /\ Tried \in Nat /\ Cardinality(Loose) \in Nat
           /\ faults \in Nat /\ faults <= MaxFaults
           /\ poster \in [Workers -> Posters] /\ event \in Rows
<1>1. /\ attempts \subseteq 1..AttemptLimit /\ faults \in 0..MaxFaults
      /\ poster \in [Workers -> Posters] /\ event \in Rows
  BY DEF DeliveryInv, Delivery!TypeOK, Posters, Rows
<1>2. IsFiniteSet(1..AttemptLimit)
  BY Bounds, FS_Interval
<1>3. IsFiniteSet(attempts)
  BY <1>1, <1>2, FS_Subset
<1>4. QED
  BY <1>1, <1>3, Bounds, FS_CardinalityType DEF DeliveryInv, LooseOK, Tried

LEMMA DeliveryGives == DeliveryInv => DeliveryHolds
<1>. SUFFICES ASSUME DeliveryInv PROVE DeliveryHolds
  OBVIOUS
<1>1. ASSUME NEW w \in Workers, poster[w].pc # "idle" PROVE poster[w].attempt <= AttemptLimit
  BY <1>1, Counted, Bounds DEF DeliveryInv, PosterOK, Posting, Posters
<1>2. QED
  BY <1>1 DEF DeliveryInv, DeliveryHolds, Tried

(* The event of a queue that begins, and one there was long ago.           *)
LEMMA DeliveryInit == Delivery!Init \/ Delivery!Quiet => DeliveryInv
<1>. SUFFICES ASSUME Delivery!Init \/ Delivery!Quiet PROVE DeliveryInv
  OBVIOUS
<1>1. /\ poster = [w \in Workers |-> [pc |-> "idle", attempt |-> 0]] /\ faults = 0
      /\ event.owner = NoOne /\ event.lease = "none" /\ event \in Rows
      /\ \/ event.status = "queued" /\ attempts = {} /\ accepted = FALSE
         \/ event.status = "delivered" /\ attempts = {1} /\ accepted = TRUE
  <2>1. CASE Delivery!Init
    BY <2>1 DEF Delivery!Init, Delivery!Idle, Rows
  <2>2. CASE Delivery!Quiet
    BY <2>2 DEF Delivery!Quiet, Delivery!Idle, Rows
  <2>3. QED
    BY <2>1, <2>2
<1>2. \A w \in Workers : ~Posting(w)
  BY <1>1 DEF Posting
<1>3. Loose = {}
  BY <1>2 DEF Loose
<1>4. IsFiniteSet(Loose) /\ Cardinality(Loose) = 0
  BY <1>3, FS_EmptySet
<1>5. event.status = "queued" => Tried = 0
  BY <1>1, FS_EmptySet DEF Tried
<1>6. LooseOK
  BY <1>1, <1>2, <1>4, <1>5, Bounds DEF LooseOK
<1>7. attempts \subseteq 1..AttemptLimit
  BY <1>1, Bounds
<1>8. Delivery!TypeOK
  <2>1. poster \in [Workers -> [pc : {"idle", "posting", "accepted", "refused"}, attempt : Nat]]
    BY <1>1
  <2>2. faults \in 0..MaxFaults /\ accepted \in BOOLEAN
    <3>1. faults \in 0..MaxFaults
      BY <1>1, Bounds
    <3>2. accepted \in BOOLEAN
      BY <1>1, Zenon
    <3>3. QED
      BY <3>1, <3>2
  <2>3. event.owner = NoOne <=> event.lease = "none"
    BY <1>1
  <2>4. QED
    BY <1>1, <1>7, <2>1, <2>2, <2>3 DEF Delivery!TypeOK, Rows
<1>9. QED
  BY <1>1, <1>2, <1>6, <1>8 DEF DeliveryInv, PosterOK

(* A step that moves one poster, or nobody, keeps the types.               *)
LEMMA PosterMoves ==
    ASSUME DeliveryInv, NEW w \in Workers, NEW k \in Posters, poster' = [poster EXCEPT ![w] = k]
    PROVE  /\ poster' \in [Workers -> Posters] /\ poster'[w] = k
           /\ \A u \in Workers \ {w} : poster'[u] = poster[u]
BY Counted

LEMMA IdlePoster == Delivery!Idle \in Posters /\ Delivery!Idle.pc = "idle"
BY DEF Delivery!Idle, Posters

LEMMA ClaimDelivers ==
    ASSUME DeliveryInv, NEW w \in Workers, Delivery!Claim(w)
    PROVE  DeliveryInv'
<1>1. PICK k : k = [pc |-> "posting", attempt |-> Tried + 1]
  OBVIOUS
<1>2. /\ k \in Posters /\ k.pc = "posting" /\ k.attempt = Tried + 1
  BY <1>1, Counted DEF Posters
<1>3. /\ poster' = [poster EXCEPT ![w] = k] /\ poster[w].pc = "idle"
      /\ event.status = "queued" /\ (event.owner = NoOne \/ event.lease = "lapsed")
      /\ event' = [event EXCEPT !.owner = w, !.lease = "live"]
      /\ UNCHANGED <<attempts, accepted, faults>>
  BY <1>1, SameCount DEF Delivery!Claim, Delivery!At, Tried
<1>4. /\ poster' \in [Workers -> Posters] /\ poster'[w] = k
      /\ \A u \in Workers \ {w} : poster'[u] = poster[u]
  BY <1>2, <1>3, PosterMoves
<1>5. /\ event' \in Rows /\ event'.owner = w /\ event'.lease = "live"
      /\ event'.status = "queued"
  BY <1>3, Counted DEF Rows
<1>6. w # NoOne
  BY NoOneAssumption
<1>7. Loose' = Loose
  <2>1. ASSUME NEW u \in Workers PROVE u \in Loose' <=> u \in Loose
    <3>1. CASE u = w
      BY <1>3, <1>5, <3>1 DEF Loose, Posting
    <3>2. CASE u # w
      <4>1. poster'[u] = poster[u]
        BY <1>4, <3>2
      <4>2. event.owner # u \/ event.lease = "lapsed"
        BY <1>3, NoOneAssumption
      <4>3. QED
        BY <1>5, <3>2, <4>1, <4>2 DEF Loose, Posting
    <3>3. QED
      BY <3>1, <3>2
  <2>2. QED
    BY <2>1 DEF Loose
<1>8. Tried' = Tried /\ w \notin Loose /\ w \notin Loose'
  BY <1>3, <1>7 DEF Tried, Loose, Posting
<1>9. LooseOK'
  <2>1. ASSUME NEW u \in Workers \ Loose, Posting(u)'
        PROVE  Tried + Cardinality(Loose) <= poster'[u].attempt - 1 + faults
    <3>1. CASE u = w
      BY <1>2, <1>4, <3>1, Counted DEF DeliveryInv, LooseOK
    <3>2. CASE u # w
      BY <1>4, <2>1, <3>2 DEF DeliveryInv, LooseOK, Posting
    <3>3. QED
      BY <3>1, <3>2
  <2>2. QED
    BY <1>3, <1>5, <1>7, <1>8, <2>1 DEF DeliveryInv, LooseOK
<1>10. ASSUME NEW u \in Workers PROVE PosterOK(u)'
  <2>1. CASE u = w
    <3>1. Tried + Cardinality(Loose) <= GiveUpAt - 1 + faults
      BY <1>3 DEF DeliveryInv, LooseOK
    <3>2. Tried + 1 <= GiveUpAt + faults /\ Tried + 1 \in 1..(Tried + 1)
      BY <3>1, Counted, Bounds
    <3>3. QED
      BY <1>2, <1>3, <1>4, <1>8, <2>1, <3>2 DEF PosterOK, Posting
  <2>2. CASE u # w
    BY <1>3, <1>4, <1>8, <2>2 DEF DeliveryInv, PosterOK, Posting
  <2>3. QED
    BY <2>1, <2>2
<1>11. Delivery!TypeOK'
  BY <1>3, <1>4, <1>5, <1>6 DEF DeliveryInv, Delivery!TypeOK, Posters, Rows
<1>12. QED
  BY <1>5, <1>9, <1>10, <1>11 DEF DeliveryInv

(* A poster goes on with its attempt; of the event nothing changes.        *)
LEMMA PosterGoes ==
    ASSUME DeliveryInv, NEW w \in Workers, NEW pc \in {"accepted", "refused"},
           Posting(w), poster' = [poster EXCEPT ![w] = [poster[w] EXCEPT !.pc = pc]],
           UNCHANGED <<event, attempts, faults>>,
           accepted' \in BOOLEAN, accepted => accepted', pc = "accepted" => accepted'
    PROVE  DeliveryInv'
<1>1. PICK k : k = [poster[w] EXCEPT !.pc = pc]
  OBVIOUS
<1>2. k \in Posters /\ k.pc = pc /\ k.attempt = poster[w].attempt
  BY <1>1, Counted DEF Posters
<1>3. /\ poster' \in [Workers -> Posters] /\ poster'[w] = k
      /\ \A u \in Workers \ {w} : poster'[u] = poster[u]
  BY <1>1, <1>2, PosterMoves
<1>4. \A u \in Workers : /\ Posting(u)' <=> Posting(u)
                         /\ poster'[u].attempt = poster[u].attempt
  BY <1>2, <1>3 DEF Posting
<1>5. Loose' = Loose /\ Tried' = Tried
  BY <1>4 DEF Loose, Tried
<1>6. LooseOK'
  BY <1>4, <1>5 DEF DeliveryInv, LooseOK
<1>7. ASSUME NEW u \in Workers PROVE PosterOK(u)'
  <2>1. PosterOK(u)
    BY DEF DeliveryInv
  <2>2. CASE u = w
    BY <1>2, <1>3, <1>4, <1>5, <2>1, <2>2 DEF PosterOK
  <2>3. CASE u # w
    BY <1>3, <1>4, <1>5, <2>1, <2>3 DEF PosterOK
  <2>4. QED
    BY <2>2, <2>3
<1>8. Delivery!TypeOK'
  BY <1>3 DEF DeliveryInv, Delivery!TypeOK, Posters
<1>9. QED
  BY <1>5, <1>6, <1>7, <1>8 DEF DeliveryInv

(* A poster ends; whoever else posts is where it was.                      *)
LEMMA LooseEnds ==
    ASSUME DeliveryInv, NEW w \in Workers, poster' = [poster EXCEPT ![w] = Delivery!Idle],
           event' = event \/ (event.owner = w /\ event'.owner = NoOne)
    PROVE  /\ Loose' = Loose \ {w}
           /\ poster' \in [Workers -> Posters] /\ ~Posting(w)'
           /\ \A u \in Workers \ {w} : poster'[u] = poster[u]
<1>1. /\ poster' \in [Workers -> Posters] /\ poster'[w] = Delivery!Idle
      /\ \A u \in Workers \ {w} : poster'[u] = poster[u]
  BY IdlePoster, PosterMoves
<1>2. ~Posting(w)'
  BY <1>1, IdlePoster DEF Posting
<1>3. ASSUME NEW u \in Workers, u # w PROVE u \in Loose' <=> u \in Loose
  BY <1>1, <1>3, NoOneAssumption DEF Loose, Posting
<1>4. QED
  BY <1>1, <1>2, <1>3 DEF Loose

(* With nothing recorded: it crashed, or its number was taken.             *)
LEMMA EndsUnrecorded ==
    ASSUME DeliveryInv, NEW w \in Workers, poster' = [poster EXCEPT ![w] = Delivery!Idle],
           faults' \in {faults, faults + 1}, faults' <= MaxFaults,
           UNCHANGED <<event, attempts, accepted>>
    PROVE  DeliveryInv'
<1>1. faults' \in Nat /\ faults' >= faults
  BY Counted
<1>2. /\ Loose' = Loose \ {w} /\ poster' \in [Workers -> Posters] /\ ~Posting(w)'
      /\ \A u \in Workers \ {w} : poster'[u] = poster[u]
  BY LooseEnds
<1>3. IsFiniteSet(Loose') /\ Cardinality(Loose') <= Cardinality(Loose) /\ Cardinality(Loose') \in Nat
  BY <1>2, FS_Subset, FS_CardinalityType DEF DeliveryInv, LooseOK
<1>4. Tried' = Tried
  BY DEF Tried
<1>5. LooseOK'
  <2>1. ASSUME NEW u \in Workers \ Loose', Posting(u)'
        PROVE  Tried + Cardinality(Loose') <= poster'[u].attempt - 1 + faults'
    <3>1. u \in Workers \ Loose /\ u # w /\ Posting(u) /\ poster'[u] = poster[u]
      BY <1>2, <2>1 DEF Posting
    <3>2. Tried + Cardinality(Loose) <= poster[u].attempt - 1 + faults
      BY <3>1 DEF DeliveryInv, LooseOK
    <3>3. poster[u].attempt \in Nat
      BY <3>1, Counted DEF Posters
    <3>4. QED
      BY <1>1, <1>3, <3>1, <3>2, <3>3, Counted
  <2>2. QED
    BY <1>1, <1>3, <1>4, <2>1, Counted, Bounds DEF DeliveryInv, LooseOK
<1>6. ASSUME NEW u \in Workers PROVE PosterOK(u)'
  <2>1. CASE u = w
    BY <1>2, <2>1 DEF PosterOK
  <2>2. CASE u # w
    <3>1. PosterOK(u) /\ poster'[u] = poster[u] /\ poster[u].attempt \in Nat
      BY <1>2, <2>2, Counted DEF DeliveryInv, Posters
    <3>2. QED
      BY <1>1, <1>4, <3>1, Counted, Bounds DEF PosterOK, Posting
  <2>3. QED
    BY <2>1, <2>2
<1>7. Delivery!TypeOK'
  BY <1>1, <1>2, Counted, Bounds DEF DeliveryInv, Delivery!TypeOK, Posters
<1>8. QED
  BY <1>1, <1>4, <1>5, <1>6, <1>7 DEF DeliveryInv

LEMMA CrashDelivers ==
    ASSUME DeliveryInv, NEW w \in Workers, Delivery!Crash(w)
    PROVE  DeliveryInv'
<1>1. /\ poster' = [poster EXCEPT ![w] = Delivery!Idle] /\ faults < MaxFaults
      /\ faults' = faults + 1 /\ UNCHANGED <<event, attempts, accepted>>
  BY DEF Delivery!Crash, Delivery!Return
<1>2. faults' <= MaxFaults
  BY <1>1, Counted, Bounds
<1>3. QED
  BY <1>1, <1>2, EndsUnrecorded

(* Its attempt is put on record, and of the event what follows if it held  *)
(* it.  A loose one is then loose no more; one that held it was ahead of   *)
(* all that is on record.                                                  *)
LEMMA EndsRecorded ==
    ASSUME DeliveryInv, NEW w \in Workers, Posting(w),
           poster' = [poster EXCEPT ![w] = Delivery!Idle],
           poster[w].attempt \notin attempts, poster[w].attempt <= AttemptLimit,
           attempts' = attempts \union {poster[w].attempt}, UNCHANGED <<accepted, faults>>,
           \/ event.owner # w /\ event' = event
           \/ /\ event.owner = w /\ event' \in Rows
              /\ event'.owner = NoOne /\ event'.lease = "none"
              /\ event'.status = "delivered" => accepted
              /\ event'.status = "given_up" => poster[w].attempt >= GiveUpAt
              /\ event'.status = "queued" => poster[w].attempt < GiveUpAt
    PROVE  DeliveryInv'
<1>1. PICK v : v = poster[w].attempt
  OBVIOUS
<1>2. v \in 1..(Tried + 1) /\ v \in Nat
  BY <1>1, Counted DEF DeliveryInv, PosterOK, Posters
<1>3. /\ Loose' = Loose \ {w} /\ poster' \in [Workers -> Posters] /\ ~Posting(w)'
      /\ \A u \in Workers \ {w} : poster'[u] = poster[u]
  BY LooseEnds
<1>4. Tried' = Tried + 1
  BY <1>1, Counted, FS_AddElement DEF Tried
<1>5. /\ IsFiniteSet(Loose') /\ Cardinality(Loose') \in Nat
      /\ Cardinality(Loose') = IF w \in Loose THEN Cardinality(Loose) - 1 ELSE Cardinality(Loose)
  <2>1. IsFiniteSet(Loose)
    BY DEF DeliveryInv, LooseOK
  <2>2. CASE w \in Loose
    BY <1>3, <2>1, <2>2, FS_RemoveElement, FS_CardinalityType
  <2>3. CASE w \notin Loose
    <3>1. Loose' = Loose
      BY <1>3, <2>3
    <3>2. QED
      BY <2>1, <2>3, <3>1, Counted
  <2>4. QED
    BY <2>2, <2>3
<1>6. w \notin Loose => /\ event.owner = w
                        /\ Tried + Cardinality(Loose) <= v - 1 + faults
  BY <1>1 DEF DeliveryInv, LooseOK, Loose
<1>7. event.owner = w => event.status = "queued"
  BY NoOneAssumption DEF DeliveryInv
<1>8. LooseOK'
  <2>1. Cardinality(Loose') <= faults
    BY <1>5, Counted DEF DeliveryInv, LooseOK
  <2>2. ASSUME event'.status = "queued"
        PROVE  Tried' + Cardinality(Loose') <= GiveUpAt - 1 + faults
    <3>1. CASE w \in Loose
      <4>1. event.status = "queued"
        BY <1>7, <2>2
      <4>2. Tried + Cardinality(Loose) <= GiveUpAt - 1 + faults
        BY <4>1 DEF DeliveryInv, LooseOK
      <4>3. QED
        BY <1>4, <1>5, <3>1, <4>2, Counted, Bounds
    <3>2. CASE w \notin Loose
      <4>1. v < GiveUpAt /\ Tried + Cardinality(Loose) <= v - 1 + faults
        BY <1>1, <1>6, <2>2, <3>2
      <4>2. QED
        BY <1>2, <1>4, <1>5, <3>2, <4>1, Counted, Bounds
    <3>3. QED
      BY <3>1, <3>2
  <2>3. ASSUME NEW u \in Workers \ Loose', Posting(u)'
        PROVE  Tried' + Cardinality(Loose') <= poster'[u].attempt - 1 + faults
    <3>1. u # w /\ u \notin Loose /\ Posting(u) /\ poster'[u] = poster[u]
      BY <1>3, <2>3 DEF Posting
    <3>2. event.owner = u
      BY <3>1 DEF Loose
    <3>3. w \in Loose
      BY <1>6, <3>1, <3>2
    <3>4. Tried + Cardinality(Loose) <= poster[u].attempt - 1 + faults
      BY <3>1 DEF DeliveryInv, LooseOK
    <3>5. QED
      BY <1>4, <1>5, <3>1, <3>3, <3>4, Counted
  <2>4. QED
    BY <1>5, <2>1, <2>2, <2>3 DEF LooseOK
<1>9. ASSUME NEW u \in Workers PROVE PosterOK(u)'
  <2>1. CASE u = w
    BY <1>3, <2>1 DEF PosterOK
  <2>2. CASE u # w
    <3>1. PosterOK(u) /\ poster'[u] = poster[u] /\ poster[u].attempt \in Nat
      BY <1>3, <2>2, Counted DEF DeliveryInv, Posters
    <3>2. QED
      BY <1>4, <3>1, Counted DEF PosterOK, Posting
  <2>3. QED
    BY <2>1, <2>2
<1>10. event'.status = "given_up" => Tried' >= GiveUpAt
  <2>1. CASE event' = event
    BY <1>4, <2>1, Counted, Bounds DEF DeliveryInv
  <2>2. CASE event' # event
    BY <1>1, <1>2, <1>4, <2>2, Counted, Bounds
  <2>3. QED
    BY <2>1, <2>2
<1>11. /\ event' \in Rows /\ (event'.owner = NoOne <=> event'.lease = "none")
       /\ event'.owner # NoOne => event'.status = "queued"
       /\ event'.status = "delivered" => accepted
  <2>1. /\ event \in Rows /\ (event.owner = NoOne <=> event.lease = "none")
        /\ event.owner # NoOne => event.status = "queued"
        /\ event.status = "delivered" => accepted
    BY Counted DEF DeliveryInv, Delivery!TypeOK
  <2>2. QED
    BY <2>1
<1>12. attempts' \subseteq 1..AttemptLimit
  <2>1. v \in 1..AttemptLimit
    BY <1>1, <1>2, Counted, Bounds
  <2>2. attempts \subseteq 1..AttemptLimit
    BY DEF DeliveryInv, Delivery!TypeOK
  <2>3. QED
    BY <1>1, <2>1, <2>2
<1>13. Delivery!TypeOK'
  BY <1>3, <1>11, <1>12 DEF DeliveryInv, Delivery!TypeOK, Posters, Rows
<1>14. QED
  BY <1>8, <1>9, <1>10, <1>11, <1>13 DEF DeliveryInv

LEMMA SuccessDelivers ==
    ASSUME DeliveryInv, NEW w \in Workers, Delivery!RecordSuccess(w)
    PROVE  DeliveryInv'
<1>1. /\ Posting(w) /\ poster[w].pc = "accepted" /\ accepted /\ UNCHANGED <<accepted, faults>>
  BY DEF DeliveryInv, PosterOK, Posting, Delivery!RecordSuccess, Delivery!At
<1>2. CASE Delivery!Recordable(poster[w].attempt)
  <2>1. PICK e : e = [event EXCEPT !.status = "delivered", !.owner = NoOne, !.lease = "none"]
    OBVIOUS
  <2>2. e \in Rows /\ e.status = "delivered" /\ e.owner = NoOne /\ e.lease = "none"
    BY <2>1, Counted DEF Rows
  <2>3. /\ poster' = [poster EXCEPT ![w] = Delivery!Idle]
        /\ attempts' = attempts \union {poster[w].attempt}
        /\ event' = IF event.owner # w THEN event ELSE e
    BY <1>2, <2>1 DEF Delivery!RecordSuccess, Delivery!Return
  <2>4. QED
    BY <1>1, <1>2, <2>2, <2>3, EndsRecorded DEF Delivery!Recordable
<1>3. CASE ~Delivery!Recordable(poster[w].attempt)
  <2>1. /\ poster' = [poster EXCEPT ![w] = [poster[w] EXCEPT !.pc = "refused"]]
        /\ UNCHANGED <<event, attempts>>
    BY <1>3, Counted DEF Delivery!RecordSuccess, Delivery!Goto
  <2>2. accepted' \in BOOLEAN
    BY <1>1 DEF DeliveryInv, Delivery!TypeOK
  <2>3. QED
    BY <1>1, <2>1, <2>2, PosterGoes
<1>4. QED
  BY <1>2, <1>3

LEMMA FailureDelivers ==
    ASSUME DeliveryInv, NEW w \in Workers, Delivery!RecordFailure(w)
    PROVE  DeliveryInv'
<1>1. /\ Posting(w) /\ UNCHANGED <<accepted, faults>>
      /\ poster' = [poster EXCEPT ![w] = Delivery!Idle]
  BY DEF Posting, Delivery!RecordFailure, Delivery!At, Delivery!Return
<1>2. CASE Delivery!Recordable(poster[w].attempt)
  <2>1. PICK s : s = IF poster[w].attempt >= GiveUpAt THEN "given_up" ELSE "queued"
    OBVIOUS
  <2>2. PICK e : e = [status |-> s, due |-> FALSE, owner |-> NoOne, lease |-> "none"]
    OBVIOUS
  <2>3. /\ e \in Rows /\ e.status = s /\ e.owner = NoOne /\ e.lease = "none"
    BY <2>1, <2>2 DEF Rows
  <2>4. /\ attempts' = attempts \union {poster[w].attempt}
        /\ event' = IF event.owner # w THEN event ELSE e
    BY <1>2, <2>1, <2>2 DEF Delivery!RecordFailure, Delivery!Final
  <2>5. poster[w].attempt \in Nat
    BY Counted DEF Posters
  <2>6. /\ s = "given_up" => poster[w].attempt >= GiveUpAt
        /\ s = "queued" => poster[w].attempt < GiveUpAt
        /\ s # "delivered"
    BY <2>1, <2>5, Bounds
  <2>7. QED
    BY <1>1, <1>2, <2>3, <2>4, <2>6, EndsRecorded DEF Delivery!Recordable
<1>3. CASE ~Delivery!Recordable(poster[w].attempt)
  BY <1>1, <1>3, Counted, EndsUnrecorded DEF Delivery!RecordFailure
<1>4. QED
  BY <1>2, <1>3

(* A holder that still posts becomes loose, and that is a fault.           *)
LEMMA LapseDelivers ==
    ASSUME DeliveryInv, Delivery!Lapse
    PROVE  DeliveryInv'
<1>1. /\ event.lease = "live" /\ event' = [event EXCEPT !.lease = "lapsed"]
      /\ UNCHANGED <<attempts, accepted, poster>>
      /\ IF \E w \in Workers : event.owner = w /\ Posting(w)
         THEN faults < MaxFaults /\ faults' = faults + 1 ELSE faults' = faults
  BY DEF Delivery!Lapse, Delivery!At, Posting
<1>2. /\ event' \in Rows /\ event'.owner = event.owner /\ event'.lease = "lapsed"
      /\ event'.status = event.status
  BY <1>1, Counted DEF Rows
<1>3. \A u \in Workers : Posting(u)' <=> Posting(u)
  BY <1>1 DEF Posting
<1>4. Loose' = Loose \union {w \in Workers : event.owner = w /\ Posting(w)}
  BY <1>1, <1>2, <1>3 DEF Loose
<1>5. Tried' = Tried
  BY <1>1 DEF Tried
<1>6. Delivery!TypeOK'
  BY <1>1, <1>2, Counted, Bounds DEF DeliveryInv, Delivery!TypeOK, Rows
<1>7. CASE \E w \in Workers : event.owner = w /\ Posting(w)
  <2>1. PICK w \in Workers : event.owner = w /\ Posting(w)
    BY <1>7
  <2>2. Loose' = Loose \union {w} /\ w \notin Loose /\ faults' = faults + 1 /\ faults < MaxFaults
    BY <1>1, <1>4, <2>1 DEF Loose
  <2>3. IsFiniteSet(Loose') /\ Cardinality(Loose') = Cardinality(Loose) + 1
    BY <2>2, FS_AddElement DEF DeliveryInv, LooseOK
  <2>4. LooseOK'
    <3>1. ASSUME NEW u \in Workers \ Loose', Posting(u)'
          PROVE  Tried + Cardinality(Loose') <= poster[u].attempt - 1 + (faults + 1)
      <4>1. Tried + Cardinality(Loose) <= poster[u].attempt - 1 + faults
        BY <1>3, <2>2, <3>1 DEF DeliveryInv, LooseOK
      <4>2. poster[u].attempt \in Nat
        BY Counted DEF Posters
      <4>3. QED
        BY <2>3, <4>1, <4>2, Counted
    <3>2. Cardinality(Loose') <= faults'
      BY <2>2, <2>3, Counted DEF DeliveryInv, LooseOK
    <3>3. event'.status = "queued" =>
             Tried' + Cardinality(Loose') <= GiveUpAt - 1 + faults'
      BY <1>2, <1>5, <2>2, <2>3, Counted, Bounds DEF DeliveryInv, LooseOK
    <3>4. \A u \in Workers \ Loose' : Posting(u)' =>
             Tried' + Cardinality(Loose') <= poster'[u].attempt - 1 + faults'
      BY <1>1, <1>5, <2>2, <3>1
    <3>5. QED
      BY <2>3, <3>2, <3>3, <3>4 DEF LooseOK
  <2>5. ASSUME NEW u \in Workers PROVE PosterOK(u)'
    <3>1. PosterOK(u) /\ poster[u].attempt \in Nat
      BY Counted DEF DeliveryInv, Posters
    <3>2. QED
      BY <1>1, <1>3, <1>5, <2>2, <3>1, Counted, Bounds DEF PosterOK
  <2>6. QED
    BY <1>1, <1>2, <1>5, <1>6, <2>4, <2>5 DEF DeliveryInv
<1>8. CASE ~\E w \in Workers : event.owner = w /\ Posting(w)
  <2>1. Loose' = Loose /\ faults' = faults
    BY <1>1, <1>4, <1>8
  <2>2. LooseOK'
    BY <1>1, <1>2, <1>3, <1>5, <2>1 DEF DeliveryInv, LooseOK
  <2>3. \A u \in Workers : PosterOK(u)'
    BY <1>1, <1>3, <1>5, <2>1 DEF DeliveryInv, PosterOK
  <2>4. QED
    BY <1>1, <1>2, <1>5, <1>6, <2>2, <2>3 DEF DeliveryInv
<1>9. QED
  BY <1>7, <1>8

LEMMA DueDelivers ==
    ASSUME DeliveryInv, Delivery!FallsDue
    PROVE  DeliveryInv'
<1>1. event' = [event EXCEPT !.due = TRUE] /\ UNCHANGED <<attempts, accepted, poster, faults>>
  BY DEF Delivery!FallsDue
<1>2. /\ event' \in Rows /\ event'.owner = event.owner /\ event'.lease = event.lease
      /\ event'.status = event.status
  BY <1>1, Counted DEF Rows
<1>3. Loose' = Loose /\ Tried' = Tried /\ \A u \in Workers : Posting(u)' <=> Posting(u)
  BY <1>1, <1>2 DEF Loose, Tried, Posting
<1>4. Delivery!TypeOK'
  BY <1>1, <1>2 DEF DeliveryInv, Delivery!TypeOK, Rows
<1>5. QED
  BY <1>1, <1>2, <1>3, <1>4 DEF DeliveryInv, LooseOK, PosterOK

LEMMA PostDelivers ==
    ASSUME DeliveryInv, NEW w \in Workers, Delivery!Post(w)
    PROVE  DeliveryInv'
<1>1. PICK pc \in {"accepted", "refused"} :
         /\ poster' = [poster EXCEPT ![w] = [poster[w] EXCEPT !.pc = pc]]
         /\ accepted' \in {accepted, TRUE} /\ (pc = "accepted" => accepted')
  BY Counted DEF Delivery!Post, Delivery!Goto
<1>2. Posting(w) /\ UNCHANGED <<event, attempts, faults>> /\ accepted \in BOOLEAN
  BY DEF Posting, Delivery!Post, Delivery!At, DeliveryInv, Delivery!TypeOK
<1>3. QED
  BY <1>1, <1>2, PosterGoes

LEMMA DeliveryStep == DeliveryInv /\ Delivery!Next => DeliveryInv'
BY ClaimDelivers, PostDelivers, SuccessDelivers, FailureDelivers, CrashDelivers, DueDelivers,
   LapseDelivers DEF Delivery!Next, Delivery!Deliver

LEMMA DeliveryRest == DeliveryInv /\ UNCHANGED delivery => DeliveryInv'
BY DEF delivery, DeliveryInv, LooseOK, Loose, Tried, PosterOK, Posting, Delivery!TypeOK

-----------------------------------------------------------------------------
(* What keeps looking at an unresolved action.                             *)
PCs == {"idle", "escalate", "sync", "insert", "drop", "claim", "check", "checked", "reconcile",
        "derived", "finish", "failed", "request", "park", "complete"}
Checks == {"none", "ahead", "passed"}
Host == [pc : PCs, task : {"none", "job", "request"}, stop : BOOLEAN, next : Checks]
Job == [kept : BOOLEAN, due : BOOLEAN, owner : Workers \union {NoOne},
        lease : {"none", "live", "lapsed"}]
Request == [status : {"none", "requested", "executing", "completed", "needs_review"},
            owner : Workers \union {NoOne}, lease : {"none", "live", "lapsed"},
            attempt : 0..MaxAttempts]

JobOK(j) == j \in Job /\ (j.owner = NoOne <=> j.lease = "none") /\ (~j.kept => j = Unresolved!NoJob)

RequestOK(r) ==
    /\ r \in Request
    /\ r.status = "executing" <=> r.owner # NoOne
    /\ r.owner = NoOne <=> r.lease = "none"
    /\ r.status = "needs_review" => r.attempt = MaxAttempts

RuntimeOK ==
    /\ effect \in {"pending", "settled"} /\ nextCheck \in Checks /\ overdue \in BOOLEAN
    /\ suppressed \in BOOLEAN /\ recorded \in BOOLEAN
    /\ review \in {"none", "open", "handled"} /\ spent \in 0..MaxFaults

(* Whoever completes a request has put its answer on record.               *)
RecordedOK ==
    /\ \A w \in Workers : worker[w].pc = "complete" => recorded
    /\ request.status = "completed" => recorded

UnresolvedInv ==
    /\ RuntimeOK /\ RecordedOK /\ JobOK(job) /\ RequestOK(request)
    /\ worker \in [Workers -> Host]

(* A request that is completed was answered on record; one that is handed  *)
(* to a human was tried as often as may be.                                *)
AnswersHold ==
    /\ request.status = "completed" => recorded
    /\ request.status = "needs_review" => request.attempt = MaxAttempts

LEMMA UnresolvedGives == UnresolvedInv => Unresolved!TypeOK /\ AnswersHold
BY DEF UnresolvedInv, RuntimeOK, RecordedOK, JobOK, RequestOK, Job, Request, Host, PCs, Checks,
       Unresolved!TypeOK, AnswersHold

LEMMA Idles ==
    /\ Unresolved!Idle \in Host /\ Unresolved!Idle.pc = "idle"
    /\ JobOK(Unresolved!NoJob) /\ Unresolved!NoJob.kept = FALSE
    /\ JobOK(Unresolved!FreshJob) /\ Unresolved!FreshJob.kept
    /\ RequestOK(Unresolved!NoRequest) /\ Unresolved!NoRequest.status = "none"
<1>1. Unresolved!Idle \in Host /\ Unresolved!Idle.pc = "idle"
  BY DEF Unresolved!Idle, Host, PCs, Checks
<1>2. PICK j : j = Unresolved!NoJob
  OBVIOUS
<1>3. j \in Job /\ j.owner = NoOne /\ j.lease = "none" /\ j.kept = FALSE
  BY <1>2 DEF Unresolved!NoJob, Job
<1>4. PICK f : f = [j EXCEPT !.kept = TRUE]
  OBVIOUS
<1>5. f \in Job /\ f.owner = NoOne /\ f.lease = "none" /\ f.kept
  BY <1>3, <1>4 DEF Job
<1>6. f = Unresolved!FreshJob
  BY <1>2, <1>4 DEF Unresolved!FreshJob
<1>7. Unresolved!NoRequest \in Request
  BY AttemptsAssumption DEF Unresolved!NoRequest, Request
<1>8. RequestOK(Unresolved!NoRequest) /\ Unresolved!NoRequest.status = "none"
  BY <1>7 DEF RequestOK, Unresolved!NoRequest
<1>9. QED
  BY <1>1, <1>2, <1>3, <1>5, <1>6, <1>8 DEF JobOK

LEMMA UnresolvedInit == Unresolved!Init \/ Unresolved!Quiet => UnresolvedInv
<1>. SUFFICES ASSUME Unresolved!Init \/ Unresolved!Quiet PROVE UnresolvedInv
  OBVIOUS
<1>1. /\ job = Unresolved!NoJob /\ request = Unresolved!NoRequest
      /\ worker = [w \in Workers |-> Unresolved!Idle]
  BY DEF Unresolved!Init, Unresolved!Quiet
<1>2. RuntimeOK
  <2>1. CASE Unresolved!Init
    <3>1. spent \in 0..MaxFaults
      BY <2>1, AttemptsAssumption DEF Unresolved!Init
    <3>2. /\ overdue \in BOOLEAN
          /\ suppressed \in BOOLEAN /\ recorded \in BOOLEAN
      BY <2>1, Zenon DEF Unresolved!Init
    <3>3. effect \in {"pending", "settled"} /\ nextCheck \in Checks /\ review = "none"
      BY <2>1 DEF Unresolved!Init, Checks
    <3>4. QED
      BY <3>1, <3>2, <3>3 DEF RuntimeOK
  <2>2. CASE Unresolved!Quiet
    <3>1. spent \in 0..MaxFaults
      BY <2>2, AttemptsAssumption DEF Unresolved!Quiet
    <3>2. /\ overdue \in BOOLEAN
          /\ suppressed \in BOOLEAN /\ recorded \in BOOLEAN
      BY <2>2, Zenon DEF Unresolved!Quiet
    <3>3. effect \in {"pending", "settled"} /\ nextCheck \in Checks /\ review = "none"
      BY <2>2 DEF Unresolved!Quiet, Checks
    <3>4. QED
      BY <3>1, <3>2, <3>3 DEF RuntimeOK
  <2>3. QED
    BY <2>1, <2>2
<1>3. RecordedOK
  BY <1>1, Idles DEF RecordedOK
<1>4. QED
  BY <1>1, <1>2, <1>3, Idles DEF UnresolvedInv

(* A host goes on, and completes only what is on record.                   *)
LEMMA HostBecomes ==
    ASSUME UnresolvedInv, NEW w \in Workers, NEW k \in Host, Unresolved!Become(w, k),
           k.pc = "complete" => recorded', recorded => recorded',
           RuntimeOK', JobOK(job)', RequestOK(request)',
           request'.status = "completed" => recorded'
    PROVE  UnresolvedInv'
<1>1. \A u \in Workers : worker'[u] = IF u = w THEN k ELSE worker[u]
  BY DEF Unresolved!Become, UnresolvedInv
<1>2. worker' \in [Workers -> Host]
  BY DEF Unresolved!Become, UnresolvedInv
<1>3. RecordedOK'
  BY <1>1 DEF UnresolvedInv, RecordedOK
<1>4. QED
  BY <1>2, <1>3 DEF UnresolvedInv

LEMMA HostGoes ==
    ASSUME NEW w \in Workers, NEW pc \in PCs, Unresolved!Goto(w, pc)
    PROVE  \E k \in Host : k.pc = pc /\ Unresolved!Become(w, k)
<1>1. PICK i : i = Unresolved!Idle
  OBVIOUS
<1>2. i \in Host
  BY <1>1, Idles
<1>3. PICK k : k = [i EXCEPT !.pc = pc]
  OBVIOUS
<1>4. k \in Host /\ k.pc = pc
  BY <1>2, <1>3 DEF Host
<1>5. QED
  BY <1>1, <1>3, <1>4 DEF Unresolved!Goto

LEMMA HostCarries ==
    ASSUME UnresolvedInv, NEW w \in Workers, NEW pc \in PCs, Unresolved!Carry(w, pc)
    PROVE  \E k \in Host : k.pc = pc /\ Unresolved!Become(w, k)
<1>1. PICK i : i = Unresolved!Idle
  OBVIOUS
<1>2. i \in Host /\ worker[w] \in Host
  BY <1>1, Idles DEF UnresolvedInv
<1>3. PICK k : k = [i EXCEPT !.pc = pc, !.task = worker[w].task]
  OBVIOUS
<1>4. k \in Host /\ k.pc = pc
  BY <1>2, <1>3 DEF Host
<1>5. QED
  BY <1>1, <1>3, <1>4 DEF Unresolved!Carry

(* A host moves and nothing else.                                          *)
LEMMA HostOnly ==
    ASSUME UnresolvedInv, NEW w \in Workers, NEW k \in Host, Unresolved!Become(w, k),
           k.pc # "complete",
           UNCHANGED <<effect, nextCheck, overdue, job, suppressed, request, review, recorded,
                       spent>>
    PROVE  UnresolvedInv'
<1>1. RuntimeOK' /\ JobOK(job)' /\ RequestOK(request)'
  BY DEF UnresolvedInv, RuntimeOK, JobOK, RequestOK
<1>2. request'.status = "completed" => recorded'
  BY DEF UnresolvedInv, RecordedOK
<1>3. QED
  BY <1>1, <1>2, HostBecomes

(* A host moves and writes the job.                                        *)
LEMMA JobWritten ==
    ASSUME UnresolvedInv, NEW w \in Workers, NEW k \in Host, Unresolved!Become(w, k),
           k.pc # "complete", NEW j, JobOK(j), job' = j,
           UNCHANGED <<effect, nextCheck, overdue, suppressed, request, review, recorded, spent>>
    PROVE  UnresolvedInv'
<1>1. RuntimeOK' /\ JobOK(job)' /\ RequestOK(request)'
  BY DEF UnresolvedInv, RuntimeOK, JobOK, RequestOK
<1>2. request'.status = "completed" => recorded'
  BY DEF UnresolvedInv, RecordedOK
<1>3. QED
  BY <1>1, <1>2, HostBecomes

(* A host moves and writes the request.                                    *)
LEMMA RequestWritten ==
    ASSUME UnresolvedInv, NEW w \in Workers, NEW k \in Host, Unresolved!Become(w, k),
           k.pc # "complete", NEW r, RequestOK(r), request' = r,
           r.status = "completed" => recorded,
           UNCHANGED <<effect, nextCheck, overdue, job, suppressed, review, recorded, spent>>
    PROVE  UnresolvedInv'
<1>1. RuntimeOK' /\ JobOK(job)' /\ RequestOK(request)'
  BY DEF UnresolvedInv, RuntimeOK, JobOK, RequestOK
<1>2. QED
  BY <1>1, HostBecomes

(* No host moves.                                                          *)
LEMMA TableOnly ==
    ASSUME UnresolvedInv, UNCHANGED <<worker, recorded>>,
           RuntimeOK', JobOK(job)', RequestOK(request)',
           request'.status = "completed" => recorded
    PROVE  UnresolvedInv'
BY DEF UnresolvedInv, RecordedOK

(* A job made or merged by sync is well-formed.                            *)
LEMMA JobMerged ==
    ASSUME JobOK(job), NEW passed \in BOOLEAN
    PROVE  JobOK(Unresolved!Merged(passed))
<1>1. CASE ~job.kept
  <2>1. PICK f : f = Unresolved!FreshJob
    OBVIOUS
  <2>2. f \in Job /\ f.kept /\ (f.owner = NoOne <=> f.lease = "none")
    BY <2>1, Idles DEF JobOK
  <2>3. PICK j : j = [f EXCEPT !.due = passed]
    OBVIOUS
  <2>4. j \in Job /\ j.kept /\ (j.owner = NoOne <=> j.lease = "none")
    BY <2>2, <2>3 DEF Job
  <2>5. QED
    BY <1>1, <2>1, <2>3, <2>4 DEF JobOK, Unresolved!Merged
<1>2. CASE job.kept /\ job.owner = NoOne
  <2>1. PICK b \in BOOLEAN : b = (job.due /\ passed)
    OBVIOUS
  <2>2. PICK j : j = [job EXCEPT !.due = b]
    OBVIOUS
  <2>3. j \in Job /\ j.kept /\ j.owner = job.owner /\ j.lease = job.lease
    BY <1>2, <2>2 DEF JobOK, Job
  <2>4. QED
    BY <1>2, <2>1, <2>2, <2>3 DEF JobOK, Unresolved!Merged
<1>3. CASE job.kept /\ job.owner # NoOne
  BY <1>3 DEF Unresolved!Merged
<1>4. QED
  BY <1>1, <1>2, <1>3

(* Looking for what is overdue, and deriving jobs.                         *)
LEMMA SyncStep ==
    ASSUME UnresolvedInv, NEW w \in Workers, Unresolved!Sync(w)
    PROVE  UnresolvedInv'
<1>1. ASSUME NEW pc \in PCs, Unresolved!Goto(w, pc), pc # "complete",
             UNCHANGED <<effect, nextCheck, overdue, suppressed, request, review, recorded,
                         spent>>,
             NEW j, JobOK(j), job' = j
      PROVE  UnresolvedInv'
  <2>1. PICK k \in Host : k.pc = pc /\ Unresolved!Become(w, k)
    BY <1>1, HostGoes
  <2>2. QED
    BY <1>1, <2>1, JobWritten
<1>2. JobOK(job) /\ {"escalate", "sync", "insert", "drop", "claim"} \subseteq PCs
  BY DEF UnresolvedInv, PCs
<1>3. CASE Unresolved!ReadOverdue(w)
  <2>1. PICK pc \in {"escalate", "sync"} : Unresolved!Goto(w, pc)
    BY <1>3 DEF Unresolved!ReadOverdue
  <2>2. QED
    BY <1>1, <1>2, <1>3, <2>1 DEF Unresolved!ReadOverdue, Unresolved!runtime
<1>4. CASE Unresolved!Escalate(w)
  <2>1. PICK k \in Host : k.pc = "sync" /\ Unresolved!Become(w, k)
    BY <1>2, <1>4, HostGoes DEF Unresolved!Escalate
  <2>2. /\ UNCHANGED <<effect, nextCheck, overdue, request, recorded, spent>>
        /\ \/ review' = "open" /\ suppressed' = TRUE /\ job' = Unresolved!NoJob
           \/ UNCHANGED <<review, suppressed, job>>
    BY <1>4 DEF Unresolved!Escalate, Unresolved!runtime
  <2>3. JobOK(job)' /\ RequestOK(request)'
    BY <1>2, <2>2, Idles DEF UnresolvedInv, JobOK, RequestOK
  <2>4. suppressed' \in BOOLEAN
    BY <2>2, Zenon DEF UnresolvedInv, RuntimeOK
  <2>5. RuntimeOK'
    BY <2>2, <2>4 DEF UnresolvedInv, RuntimeOK
  <2>6. request'.status = "completed" => recorded'
    BY <2>2 DEF UnresolvedInv, RecordedOK
  <2>7. QED
    BY <2>1, <2>2, <2>3, <2>5, <2>6, HostBecomes
<1>5. CASE Unresolved!ReadSync(w)
  <2>1. CASE Unresolved!Derives
    <3>1. PICK i : i = Unresolved!Idle /\ i \in Host
      BY Idles
    <3>2. PICK k : k = [i EXCEPT !.pc = "insert", !.next = nextCheck]
      OBVIOUS
    <3>3. k \in Host /\ k.pc = "insert"
      BY <1>2, <3>1, <3>2 DEF UnresolvedInv, RuntimeOK, Host
    <3>4. Unresolved!Become(w, k)
      BY <1>5, <2>1, <3>1, <3>2 DEF Unresolved!ReadSync
    <3>5. QED
      BY <1>5, <3>3, <3>4, HostOnly DEF Unresolved!ReadSync, Unresolved!runtime
  <2>2. CASE ~Unresolved!Derives
    BY <1>1, <1>2, <1>5, <2>2 DEF Unresolved!ReadSync, Unresolved!runtime
  <2>3. QED
    BY <2>1, <2>2
<1>6. CASE Unresolved!InsertJob(w)
  <2>1. PICK j : j = job' /\ JobOK(j)
    BY <1>2, <1>6, JobMerged DEF Unresolved!InsertJob
  <2>2. QED
    BY <1>1, <1>2, <1>6, <2>1 DEF Unresolved!InsertJob, Unresolved!runtime
<1>7. CASE Unresolved!DropSuppressed(w)
  <2>1. PICK j : j = job' /\ JobOK(j)
    BY <1>2, <1>7, Idles DEF Unresolved!DropSuppressed
  <2>2. QED
    BY <1>1, <1>2, <1>7, <2>1 DEF Unresolved!DropSuppressed, Unresolved!runtime
<1>8. QED
  BY <1>3, <1>4, <1>5, <1>6, <1>7 DEF Unresolved!Sync

(* Running a job.                                                          *)
LEMMA JobStep ==
    ASSUME UnresolvedInv, NEW w \in Workers, Unresolved!RunJob(w)
    PROVE  UnresolvedInv'
<1>1. ASSUME NEW pc \in PCs, Unresolved!Goto(w, pc), pc # "complete",
             UNCHANGED <<effect, nextCheck, overdue, suppressed, request, review, recorded,
                         spent>>,
             NEW j, JobOK(j), job' = j
      PROVE  UnresolvedInv'
  <2>1. PICK k \in Host : k.pc = pc /\ Unresolved!Become(w, k)
    BY <1>1, HostGoes
  <2>2. QED
    BY <1>1, <2>1, JobWritten
<1>2. JobOK(job) /\ worker[w] \in Host /\ {"request", "finish", "reconcile"} \subseteq PCs
  BY DEF UnresolvedInv, PCs
<1>3. CASE Unresolved!ClaimJob(w)
  <2>1. CASE Unresolved!JobClaimable
    <3>1. PICK j : j = [job EXCEPT !.owner = w, !.lease = "live"]
      OBVIOUS
    <3>2. j \in Job /\ j.owner = w /\ j.lease = "live" /\ j.kept
      BY <1>2, <2>1, <3>1 DEF JobOK, Job, Unresolved!JobClaimable
    <3>3. JobOK(j)
      BY <3>2, NoOneAssumption DEF JobOK
    <3>4. PICK i : i = Unresolved!Idle /\ i \in Host
      BY Idles
    <3>5. PICK k : k = [i EXCEPT !.pc = "check", !.task = "job"]
      OBVIOUS
    <3>6. k \in Host /\ k.pc = "check"
      BY <3>4, <3>5 DEF Host, PCs
    <3>7. Unresolved!Become(w, k) /\ job' = j
      BY <1>3, <2>1, <3>1, <3>4, <3>5 DEF Unresolved!ClaimJob
    <3>8. QED
      BY <1>3, <3>3, <3>6, <3>7, JobWritten DEF Unresolved!ClaimJob, Unresolved!runtime
  <2>2. CASE ~Unresolved!JobClaimable
    BY <1>1, <1>2, <1>3, <2>2 DEF Unresolved!ClaimJob, Unresolved!runtime
  <2>3. QED
    BY <2>1, <2>2
<1>4. CASE Unresolved!ReadState(w)
  <2>1. PICK b \in BOOLEAN : b = (nextCheck = "none" \/ effect = "settled")
    OBVIOUS
  <2>2. PICK k : k = [worker[w] EXCEPT !.pc = "checked", !.stop = b]
    OBVIOUS
  <2>3. k \in Host /\ k.pc = "checked"
    BY <1>2, <2>1, <2>2 DEF Host, PCs
  <2>4. Unresolved!Become(w, k)
    BY <1>4, <2>1, <2>2 DEF Unresolved!ReadState
  <2>5. QED
    BY <1>4, <2>3, <2>4, HostOnly DEF Unresolved!ReadState, Unresolved!runtime
<1>5. CASE Unresolved!ReadSuppression(w)
  <2>1. PICK pc \in {"finish", "reconcile"} : Unresolved!Carry(w, pc)
    BY <1>5 DEF Unresolved!ReadSuppression
  <2>2. PICK k \in Host : k.pc = pc /\ Unresolved!Become(w, k)
    BY <1>2, <2>1, HostCarries
  <2>3. QED
    BY <1>5, <2>2, HostOnly DEF Unresolved!ReadSuppression, Unresolved!runtime
<1>6. CASE Unresolved!FinishJob(w)
  <2>1. PICK j : j = job' /\ JobOK(j)
    BY <1>2, <1>6, Idles DEF Unresolved!FinishJob
  <2>2. QED
    BY <1>1, <1>2, <1>6, <2>1 DEF Unresolved!FinishJob, Unresolved!runtime
<1>7. CASE Unresolved!BackOff(w)
  <2>1. PICK j : j = job' /\ JobOK(j)
    BY <1>2, <1>7, Idles DEF Unresolved!BackOff
  <2>2. QED
    BY <1>1, <1>2, <1>7, <2>1 DEF Unresolved!BackOff, Unresolved!runtime
<1>8. QED
  BY <1>3, <1>4, <1>5, <1>6, <1>7 DEF Unresolved!RunJob

(* Reconciling, for a job or for a request.                                *)
LEMMA LookStep ==
    ASSUME UnresolvedInv, NEW w \in Workers, Unresolved!Look(w)
    PROVE  UnresolvedInv'
<1>1. worker[w] \in Host /\ {"failed", "finish", "complete", "derived"} \subseteq PCs
  BY DEF UnresolvedInv, PCs
<1>2. CASE Unresolved!Reconcile(w)
  <2>1. /\ effect' \in {"pending", "settled"} /\ nextCheck' \in Checks
        /\ UNCHANGED <<overdue, job, suppressed, request, review, recorded, spent>>
    <3>1. PICK d \in Unresolved!Derived : effect' = d[1] /\ nextCheck' = d[2]
      BY <1>2 DEF Unresolved!Reconcile
    <3>2. d[1] \in {"pending", "settled"} /\ d[2] \in Checks
      BY DEF Unresolved!Derived, Checks
    <3>3. QED
      BY <1>2, <3>1, <3>2 DEF Unresolved!Reconcile
  <2>2. PICK b \in Checks : b = nextCheck'
    BY <2>1
  <2>3. PICK k : k = [worker[w] EXCEPT !.pc = "derived", !.next = b]
    OBVIOUS
  <2>4. k \in Host /\ k.pc = "derived"
    BY <1>1, <2>2, <2>3 DEF Host, PCs
  <2>5. Unresolved!Become(w, k)
    BY <1>2, <2>2, <2>3 DEF Unresolved!Reconcile
  <2>6. RuntimeOK' /\ JobOK(job)' /\ RequestOK(request)'
    BY <2>1 DEF UnresolvedInv, RuntimeOK, JobOK, RequestOK
  <2>7. request'.status = "completed" => recorded'
    BY <2>1 DEF UnresolvedInv, RecordedOK
  <2>8. QED
    BY <2>1, <2>4, <2>5, <2>6, <2>7, HostBecomes
<1>3. CASE Unresolved!Fail(w)
  <2>1. PICK k \in Host : k.pc = "failed" /\ Unresolved!Become(w, k)
    BY <1>1, <1>3, HostCarries DEF Unresolved!Fail
  <2>2. QED
    BY <1>3, <2>1, HostOnly DEF Unresolved!Fail, Unresolved!runtime
<1>4. CASE Unresolved!RecordTransition(w)
  <2>1. PICK pc \in {"finish", "complete"} : pc = IF worker[w].task = "job" THEN "finish"
                                                                           ELSE "complete"
    OBVIOUS
  <2>2. PICK k : k = [worker[w] EXCEPT !.pc = pc]
    OBVIOUS
  <2>3. k \in Host /\ k.pc = pc
    BY <1>1, <2>1, <2>2 DEF Host, PCs
  <2>4. Unresolved!Become(w, k)
    BY <1>4, <2>1, <2>2 DEF Unresolved!RecordTransition
  <2>5. /\ recorded' = TRUE
        /\ UNCHANGED <<effect, nextCheck, overdue, job, suppressed, request, review, spent>>
    BY <1>4 DEF Unresolved!RecordTransition, Unresolved!runtime
  <2>6. recorded' \in BOOLEAN
    BY <2>5, Zenon
  <2>7. RuntimeOK' /\ JobOK(job)' /\ RequestOK(request)'
    BY <2>5, <2>6 DEF UnresolvedInv, RuntimeOK, JobOK, RequestOK
  <2>8. QED
    BY <2>3, <2>4, <2>5, <2>7, HostBecomes
<1>5. QED
  BY <1>2, <1>3, <1>4 DEF Unresolved!Look

(* Running a request.                                                      *)
LEMMA RequestStep ==
    ASSUME UnresolvedInv, NEW w \in Workers, Unresolved!RunRequest(w)
    PROVE  UnresolvedInv'
<1>1. ASSUME NEW pc \in PCs, Unresolved!Goto(w, pc), pc # "complete",
             UNCHANGED <<effect, nextCheck, overdue, job, suppressed, review, recorded, spent>>,
             NEW r, RequestOK(r), request' = r, r.status = "completed" => recorded
      PROVE  UnresolvedInv'
  <2>1. PICK k \in Host : k.pc = pc /\ Unresolved!Become(w, k)
    BY <1>1, HostGoes
  <2>2. QED
    BY <1>1, <2>1, RequestWritten
<1>2. /\ RequestOK(request) /\ (request.status = "completed" => recorded)
      /\ {"park", "idle"} \subseteq PCs /\ MaxAttempts \in Nat
  BY AttemptsAssumption DEF UnresolvedInv, RecordedOK, PCs
<1>3. CASE Unresolved!ClaimRequest(w)
  <2>1. CASE Unresolved!RequestClaimable
    <3>1. PICK n : n = request.attempt + 1
      OBVIOUS
    <3>2. n \in 0..MaxAttempts
      BY <1>2, <2>1, <3>1 DEF Unresolved!RequestClaimable, RequestOK, Request
    <3>3. PICK r : r = [status |-> "executing", owner |-> w, lease |-> "live", attempt |-> n]
      OBVIOUS
    <3>4. RequestOK(r) /\ r.status = "executing"
      BY <3>2, <3>3, NoOneAssumption DEF RequestOK, Request
    <3>5. PICK i : i = Unresolved!Idle /\ i \in Host
      BY Idles
    <3>6. PICK k : k = [i EXCEPT !.pc = "reconcile", !.task = "request"]
      OBVIOUS
    <3>7. k \in Host /\ k.pc = "reconcile"
      BY <3>5, <3>6 DEF Host, PCs
    <3>8. Unresolved!Become(w, k) /\ request' = r
      BY <1>3, <2>1, <3>1, <3>3, <3>5, <3>6 DEF Unresolved!ClaimRequest
    <3>9. QED
      BY <1>3, <3>4, <3>7, <3>8, RequestWritten DEF Unresolved!ClaimRequest, Unresolved!runtime
  <2>2. CASE ~Unresolved!RequestClaimable
    BY <1>1, <1>2, <1>3, <2>2 DEF Unresolved!ClaimRequest, Unresolved!runtime
  <2>3. QED
    BY <2>1, <2>2
<1>4. CASE Unresolved!ParkExhausted(w)
  <2>1. CASE Unresolved!Exhausted
    <3>1. PICK r : r = [request EXCEPT !.status = "needs_review", !.owner = NoOne,
                                       !.lease = "none"]
      OBVIOUS
    <3>2. /\ r \in Request /\ r.status = "needs_review" /\ r.owner = NoOne
          /\ r.lease = "none" /\ r.attempt = request.attempt
      BY <1>2, <3>1 DEF RequestOK, Request
    <3>3. request.attempt = MaxAttempts
      BY <1>2, <2>1 DEF Unresolved!Exhausted, RequestOK, Request
    <3>4. RequestOK(r)
      BY <3>2, <3>3 DEF RequestOK
    <3>5. request' = r
      BY <1>4, <2>1, <3>1 DEF Unresolved!ParkExhausted
    <3>6. QED
      BY <1>1, <1>2, <1>4, <3>2, <3>4, <3>5 DEF Unresolved!ParkExhausted, Unresolved!runtime
  <2>2. CASE ~Unresolved!Exhausted
    BY <1>1, <1>2, <1>4, <2>2 DEF Unresolved!ParkExhausted, Unresolved!runtime
  <2>3. QED
    BY <2>1, <2>2
<1>5. ASSUME NEW status \in {"completed", "requested"}, status = "completed" => recorded,
             Unresolved!Goto(w, "idle"), request' = Unresolved!Answered(w, status),
             UNCHANGED <<effect, nextCheck, overdue, job, suppressed, review, recorded, spent>>
      PROVE  UnresolvedInv'
  <2>1. PICK r : r = [request EXCEPT !.status = status, !.owner = NoOne, !.lease = "none"]
    OBVIOUS
  <2>2. r \in Request /\ r.status = status /\ r.owner = NoOne /\ r.lease = "none"
    BY <1>2, <2>1 DEF RequestOK, Request
  <2>3. RequestOK(r)
    BY <2>2 DEF RequestOK
  <2>4. request' = r \/ request' = request
    BY <1>5, <2>1 DEF Unresolved!Answered
  <2>5. QED
    BY <1>1, <1>2, <1>5, <2>2, <2>3, <2>4
<1>6. CASE Unresolved!CompleteRequest(w)
  <2>1. recorded
    BY <1>6 DEF UnresolvedInv, RecordedOK, Unresolved!CompleteRequest, Unresolved!At
  <2>2. QED
    BY <1>5, <1>6, <2>1 DEF Unresolved!CompleteRequest, Unresolved!runtime
<1>7. CASE Unresolved!ReturnRequest(w)
  BY <1>5, <1>7 DEF Unresolved!ReturnRequest, Unresolved!runtime
<1>8. QED
  BY <1>3, <1>4, <1>6, <1>7 DEF Unresolved!RunRequest

(* A host dies.                                                            *)
LEMMA CrashStep ==
    ASSUME UnresolvedInv, NEW w \in Workers, Unresolved!Crash(w)
    PROVE  UnresolvedInv'
<1>1. "idle" \in PCs /\ MaxFaults \in Nat
  BY AttemptsAssumption DEF PCs
<1>2. PICK k \in Host : k.pc = "idle" /\ Unresolved!Become(w, k)
  BY <1>1, HostGoes DEF Unresolved!Crash
<1>3. /\ spent < MaxFaults /\ spent' = spent + 1
      /\ UNCHANGED <<effect, nextCheck, overdue, job, suppressed, request, review, recorded>>
  BY DEF Unresolved!Crash, Unresolved!Spend, Unresolved!runtime
<1>4. RuntimeOK' /\ JobOK(job)' /\ RequestOK(request)'
  BY <1>1, <1>3 DEF UnresolvedInv, RuntimeOK, JobOK, RequestOK
<1>5. request'.status = "completed" => recorded'
  BY <1>3 DEF UnresolvedInv, RecordedOK
<1>6. QED
  BY <1>2, <1>3, <1>4, <1>5, HostBecomes

(* A reviewer.                                                             *)
LEMMA ReviewStep ==
    ASSUME UnresolvedInv, Unresolved!Review
    PROVE  UnresolvedInv'
<1>1. CASE Unresolved!OpenHumanReview
  <2>1. /\ review' = "open"
        /\ UNCHANGED <<effect, nextCheck, overdue, job, suppressed, request, recorded, worker,
                       spent>>
    BY <1>1 DEF Unresolved!OpenHumanReview, Unresolved!runtime
  <2>2. RuntimeOK' /\ JobOK(job)' /\ RequestOK(request)'
    BY <2>1 DEF UnresolvedInv, RuntimeOK, JobOK, RequestOK
  <2>3. QED
    BY <2>1, <2>2, TableOnly DEF UnresolvedInv, RecordedOK
<1>2. CASE Unresolved!LiftSuppression
  <2>1. /\ spent < MaxFaults /\ spent' = spent + 1 /\ suppressed' = FALSE
        /\ UNCHANGED <<effect, nextCheck, overdue, job, request, review, recorded, worker>>
    BY <1>2 DEF Unresolved!LiftSuppression, Unresolved!Spend, Unresolved!runtime
  <2>2. suppressed' \in BOOLEAN
    BY <2>1, Zenon
  <2>3. RuntimeOK' /\ JobOK(job)' /\ RequestOK(request)'
    BY <2>1, <2>2, AttemptsAssumption DEF UnresolvedInv, RuntimeOK, JobOK, RequestOK
  <2>4. QED
    BY <2>1, <2>3, TableOnly DEF UnresolvedInv, RecordedOK
<1>3. ASSUME NEW reobserve \in BOOLEAN, Unresolved!UpdateHumanReview(reobserve)
      PROVE  UnresolvedInv'
  <2>1. /\ review' = "handled"
        /\ UNCHANGED <<effect, nextCheck, overdue, job, suppressed, recorded, worker, spent>>
    BY <1>3 DEF Unresolved!UpdateHumanReview, Unresolved!runtime
  <2>2. PICK n : n = Unresolved!NoRequest
    OBVIOUS
  <2>3. PICK r : r = [n EXCEPT !.status = "requested"]
    OBVIOUS
  <2>4. n \in Request /\ n.owner = NoOne /\ n.lease = "none"
    BY <2>2, Idles DEF RequestOK, Unresolved!NoRequest
  <2>5. r \in Request /\ r.owner = NoOne /\ r.lease = "none" /\ r.status = "requested"
    BY <2>3, <2>4 DEF Request
  <2>6. request' = r \/ request' = request
    BY <1>3, <2>2, <2>3 DEF Unresolved!UpdateHumanReview
  <2>7. RequestOK(request') /\ (request'.status = "completed" => recorded)
    BY <2>5, <2>6 DEF UnresolvedInv, RecordedOK, RequestOK
  <2>8. RuntimeOK' /\ JobOK(job)' /\ RequestOK(request)'
    BY <2>1, <2>7 DEF UnresolvedInv, RuntimeOK, JobOK, RequestOK
  <2>9. QED
    BY <2>1, <2>7, <2>8, TableOnly
<1>4. QED
  BY <1>1, <1>2, <1>3 DEF Unresolved!Review

(* The clock.                                                              *)
LEMMA ClockStep ==
    ASSUME UnresolvedInv,
           \/ Unresolved!DeadlinePasses \/ Unresolved!CheckFallsDue
           \/ Unresolved!JobFallsDue \/ Unresolved!JobLapses \/ Unresolved!RequestLapses
    PROVE  UnresolvedInv'
<1>1. RuntimeOK /\ JobOK(job) /\ RequestOK(request) /\ MaxFaults \in Nat
  BY AttemptsAssumption DEF UnresolvedInv
<1>2. ASSUME NEW P, (IF P THEN Unresolved!Spend ELSE UNCHANGED spent)
      PROVE  spent' \in 0..MaxFaults
  BY <1>1, <1>2 DEF RuntimeOK, Unresolved!Spend
<1>3. CASE Unresolved!DeadlinePasses
  <2>1. /\ overdue' = TRUE
        /\ UNCHANGED <<effect, nextCheck, job, suppressed, request, review, recorded, worker,
                       spent>>
    BY <1>3 DEF Unresolved!DeadlinePasses
  <2>2. overdue' \in BOOLEAN
    BY <2>1, Zenon
  <2>3. RuntimeOK' /\ JobOK(job)' /\ RequestOK(request)'
    BY <1>1, <2>1, <2>2 DEF RuntimeOK, JobOK, RequestOK
  <2>4. QED
    BY <2>1, <2>3, TableOnly DEF UnresolvedInv, RecordedOK
<1>4. CASE Unresolved!JobFallsDue
  <2>1. PICK j : j = [job EXCEPT !.due = TRUE]
    OBVIOUS
  <2>2. /\ job' = j /\ job.kept
        /\ UNCHANGED <<effect, nextCheck, overdue, suppressed, request, review, recorded, worker,
                       spent>>
    BY <1>4, <2>1 DEF Unresolved!JobFallsDue, Unresolved!runtime
  <2>3. j \in Job /\ j.owner = job.owner /\ j.lease = job.lease /\ j.kept = job.kept
    BY <1>1, <2>1 DEF JobOK, Job
  <2>4. JobOK(j)
    BY <1>1, <2>2, <2>3 DEF JobOK
  <2>5. RuntimeOK' /\ JobOK(job)' /\ RequestOK(request)'
    BY <1>1, <2>2, <2>4 DEF RuntimeOK, JobOK, RequestOK
  <2>6. QED
    BY <2>2, <2>5, TableOnly DEF UnresolvedInv, RecordedOK
<1>5. CASE Unresolved!JobLapses
  <2>1. PICK j : j = [job EXCEPT !.lease = "lapsed"]
    OBVIOUS
  <2>2. /\ job' = j /\ job.lease = "live" /\ spent' \in 0..MaxFaults
        /\ UNCHANGED <<effect, nextCheck, overdue, suppressed, request, review, recorded, worker>>
    BY <1>2, <1>5, <2>1 DEF Unresolved!JobLapses, Unresolved!runtime
  <2>3. j \in Job /\ j.owner = job.owner /\ j.lease = "lapsed" /\ j.kept = job.kept
    BY <1>1, <2>1 DEF JobOK, Job
  <2>4. job.kept /\ job.owner # NoOne
    BY <1>1, <2>2 DEF JobOK, Unresolved!NoJob
  <2>5. JobOK(j)
    BY <2>3, <2>4 DEF JobOK
  <2>6. RuntimeOK' /\ JobOK(job)' /\ RequestOK(request)'
    BY <1>1, <2>2, <2>5 DEF RuntimeOK, JobOK, RequestOK
  <2>7. QED
    BY <2>2, <2>6, TableOnly DEF UnresolvedInv, RecordedOK
<1>6. CASE Unresolved!RequestLapses
  <2>1. PICK r : r = [request EXCEPT !.lease = "lapsed"]
    OBVIOUS
  <2>2. /\ request' = r /\ request.lease = "live" /\ spent' \in 0..MaxFaults
        /\ UNCHANGED <<effect, nextCheck, overdue, job, suppressed, review, recorded, worker>>
    BY <1>2, <1>6, <2>1 DEF Unresolved!RequestLapses, Unresolved!runtime
  <2>3. /\ r \in Request /\ r.owner = request.owner /\ r.lease = "lapsed"
        /\ r.status = request.status /\ r.attempt = request.attempt
    BY <1>1, <2>1 DEF RequestOK, Request
  <2>4. RequestOK(r)
    BY <1>1, <2>2, <2>3 DEF RequestOK
  <2>5. RuntimeOK' /\ JobOK(job)' /\ RequestOK(request)'
    BY <1>1, <2>2, <2>4 DEF RuntimeOK, JobOK, RequestOK
  <2>6. QED
    BY <2>2, <2>3, <2>5, TableOnly DEF UnresolvedInv, RecordedOK
<1>7. CASE Unresolved!CheckFallsDue
  <2>1. /\ nextCheck' = "passed"
        /\ UNCHANGED <<effect, overdue, job, suppressed, request, review, recorded, worker, spent>>
    BY <1>7 DEF Unresolved!CheckFallsDue
  <2>2. RuntimeOK' /\ JobOK(job)' /\ RequestOK(request)'
    BY <1>1, <2>1 DEF RuntimeOK, JobOK, RequestOK, Checks
  <2>3. QED
    BY <2>1, <2>2, TableOnly DEF UnresolvedInv, RecordedOK
<1>8. QED
  BY <1>3, <1>4, <1>5, <1>6, <1>7

LEMMA UnresolvedStep == UnresolvedInv /\ Unresolved!Next => UnresolvedInv'
BY SyncStep, JobStep, LookStep, RequestStep, CrashStep, ReviewStep, ClockStep
   DEF Unresolved!Next, Unresolved!Tick

LEMMA UnresolvedRest == UnresolvedInv /\ UNCHANGED aftercare => UnresolvedInv'
BY DEF aftercare, UnresolvedInv, RuntimeOK, RecordedOK, JobOK, RequestOK

-----------------------------------------------------------------------------
(* The two together: one goes on while the other rests.                    *)
BackgroundInv == UnresolvedInv /\ DeliveryInv

LEMMA BackgroundStep == BackgroundInv /\ [Next]_vars => BackgroundInv'
BY UnresolvedStep, UnresolvedRest, DeliveryStep, DeliveryRest DEF BackgroundInv, Next, vars

LEMMA BackgroundAlways == FairSpec => []BackgroundInv
<1>1. Init => BackgroundInv
  BY UnresolvedInit, DeliveryInit DEF Init, BackgroundInv
<1>2. QED
  BY <1>1, BackgroundStep, PTL DEF FairSpec

(* The rows, leases and places of the background work have their types: a  *)
(* claim's token and lease come and go together on the job, the request    *)
(* and the event, whatever hosts overlap, pause and die (the ticks of      *)
(* reconciliationWorker, reobservationWorker and webhookWorker).           *)
THEOREM BackgroundTypes == FairSpec => []TypeOK
<1>1. BackgroundInv => TypeOK
  BY UnresolvedGives DEF BackgroundInv, DeliveryInv, TypeOK
<1>2. QED
  BY <1>1, BackgroundAlways, PTL

(* A webhook event marked delivered was accepted by its receiver, one that *)
(* is given up was tried and recorded as often as the code promises, and   *)
(* (while no more workers die or pause than DeliveriesAssumption leaves    *)
(* room for) no attempt is numbered beyond what the table's constraint     *)
(* admits: the caught insert error stands for a taken number only.         *)
THEOREM DeliveredTheorem == FairSpec => []DeliveryHolds
<1>1. BackgroundInv => DeliveryHolds
  BY DeliveryGives DEF BackgroundInv
<1>2. QED
  BY <1>1, BackgroundAlways, PTL

(* A re-observation that is completed was answered by a transition on      *)
(* record for the customer, and one that is handed back to a human was     *)
(* claimed as often as it may be, though tokens expire and hosts die.      *)
THEOREM AnsweredTheorem == FairSpec => []AnswersHold
<1>1. BackgroundInv => AnswersHold
  BY UnresolvedGives DEF BackgroundInv
<1>2. QED
  BY <1>1, BackgroundAlways, PTL

-----------------------------------------------------------------------------
(* What a step of the delivery may do to an event: attempts on record stay *)
(* and come one at a time, an event that ended stays as it ended, and one  *)
(* ends with an attempt on record, delivered when the receiver accepted,   *)
(* given up when it was tried as often as promised.                        *)
EndsForGood ==
    /\ attempts \subseteq attempts' /\ (accepted => accepted')
    /\ \A m, n \in attempts' \ attempts : m = n
    /\ event.status # "queued" => event'.status = event.status
    /\ event.status = "queued" /\ event'.status # "queued" =>
          /\ attempts' # attempts
          /\ event'.status = "delivered" => accepted
          /\ event'.status = "given_up" => Cardinality(attempts') >= GiveUpAt

LEMMA ChangesNothing ==
    ASSUME event'.status = event.status, attempts' = attempts, accepted => accepted'
    PROVE  EndsForGood
BY DEF EndsForGood

(* An attempt is recorded; the event is ended by its holder alone.         *)
LEMMA RecordedEnds ==
    ASSUME DeliveryInv, DeliveryInv', NEW w \in Workers, NEW n, n \notin attempts,
           attempts' = attempts \union {n}, accepted' = accepted, NEW e,
           event' = IF event.owner # w THEN event ELSE e,
           e.status = "delivered" => accepted
    PROVE  EndsForGood
<1>1. CASE event.owner # w
  BY <1>1 DEF EndsForGood
<1>2. CASE event.owner = w
  <2>1. event.status = "queued" /\ event' = e
    BY <1>2, NoOneAssumption DEF DeliveryInv
  <2>2. event'.status = "given_up" => Cardinality(attempts') >= GiveUpAt
    BY DEF DeliveryInv, Tried
  <2>3. QED
    BY <2>1, <2>2 DEF EndsForGood
<1>3. QED
  BY <1>1, <1>2

LEMMA DeliveryEnds ==
    ASSUME DeliveryInv, DeliveryInv', Delivery!Next
    PROVE  EndsForGood
<1>1. ASSUME NEW w \in Workers, Delivery!Claim(w) PROVE EndsForGood
  <2>1. event'.status = event.status
    BY <1>1, Counted DEF Delivery!Claim, Rows
  <2>2. QED
    BY <1>1, <2>1, ChangesNothing DEF Delivery!Claim
<1>2. ASSUME NEW w \in Workers, Delivery!Post(w) PROVE EndsForGood
  <2>1. accepted \in BOOLEAN /\ (accepted' = accepted \/ accepted' = TRUE)
    BY <1>2 DEF Delivery!Post, DeliveryInv, Delivery!TypeOK
  <2>2. accepted => accepted'
    BY <2>1
  <2>3. QED
    BY <1>2, <2>2, ChangesNothing DEF Delivery!Post
<1>3. ASSUME NEW w \in Workers, Delivery!RecordSuccess(w) PROVE EndsForGood
  <2>1. accepted /\ accepted' = accepted
    BY <1>3 DEF DeliveryInv, PosterOK, Posting, Delivery!RecordSuccess, Delivery!At
  <2>2. CASE Delivery!Recordable(poster[w].attempt)
    <3>1. PICK e : e = [event EXCEPT !.status = "delivered", !.owner = NoOne, !.lease = "none"]
      OBVIOUS
    <3>2. /\ attempts' = attempts \union {poster[w].attempt} /\ poster[w].attempt \notin attempts
          /\ event' = IF event.owner # w THEN event ELSE e
      BY <1>3, <2>2, <3>1 DEF Delivery!RecordSuccess, Delivery!Recordable
    <3>3. QED
      BY <2>1, <3>2, RecordedEnds
  <2>3. CASE ~Delivery!Recordable(poster[w].attempt)
    BY <1>3, <2>1, <2>3, ChangesNothing DEF Delivery!RecordSuccess
  <2>4. QED
    BY <2>2, <2>3
<1>4. ASSUME NEW w \in Workers, Delivery!RecordFailure(w) PROVE EndsForGood
  <2>1. accepted' = accepted
    BY <1>4 DEF Delivery!RecordFailure
  <2>2. CASE Delivery!Recordable(poster[w].attempt)
    <3>1. PICK s : s = IF Delivery!Final(poster[w].attempt) THEN "given_up" ELSE "queued"
      OBVIOUS
    <3>2. PICK e : e = [status |-> s, due |-> FALSE, owner |-> NoOne, lease |-> "none"]
      OBVIOUS
    <3>3. /\ attempts' = attempts \union {poster[w].attempt} /\ poster[w].attempt \notin attempts
          /\ event' = IF event.owner # w THEN event ELSE e
      BY <1>4, <2>2, <3>1, <3>2 DEF Delivery!RecordFailure, Delivery!Recordable
    <3>4. e.status # "delivered"
      BY <3>1, <3>2
    <3>5. QED
      BY <2>1, <3>3, <3>4, RecordedEnds
  <2>3. CASE ~Delivery!Recordable(poster[w].attempt)
    BY <1>4, <2>1, <2>3, ChangesNothing DEF Delivery!RecordFailure
  <2>4. QED
    BY <2>2, <2>3
<1>5. ASSUME NEW w \in Workers, Delivery!Crash(w) PROVE EndsForGood
  BY <1>5, ChangesNothing DEF Delivery!Crash
<1>6. CASE Delivery!FallsDue \/ Delivery!Lapse
  <2>1. event'.status = event.status
    BY <1>6, Counted DEF Delivery!FallsDue, Delivery!Lapse, Rows
  <2>2. QED
    BY <1>6, <2>1, ChangesNothing DEF Delivery!FallsDue, Delivery!Lapse
<1>7. QED
  BY <1>1, <1>2, <1>3, <1>4, <1>5, <1>6 DEF Delivery!Next, Delivery!Deliver

(* A worker that lost its claim still records what came of its post, and   *)
(* what is recorded of an event that ended takes nothing back: a delivered *)
(* event is never queued, failed or given up again, nor the other way      *)
(* round (recordSuccess, recordFailure of webhookWorker).                  *)
THEOREM EndedTheorem == FairSpec => [][EndsForGood]_vars
<1>1. ASSUME BackgroundInv, BackgroundInv', [Next]_vars PROVE [EndsForGood]_vars
  <2>1. CASE Delivery!Next
    BY <1>1, <2>1, DeliveryEnds DEF BackgroundInv
  <2>2. CASE UNCHANGED delivery
    BY <2>2, ChangesNothing DEF delivery
  <2>3. QED
    BY <1>1, <2>1, <2>2 DEF Next
<1>2. QED
  BY <1>1, BackgroundAlways, PTL DEF FairSpec

-----------------------------------------------------------------------------
(* A suppression has ended the automatic work.                             *)
Quiesced ==
    /\ suppressed /\ ~job.kept
    /\ \A w \in Workers : worker[w].pc # "insert" /\ worker[w].task # "job"

(* Once it is quiet, it stays so until the suppression is lifted.          *)
StaysQuiet == Quiesced /\ suppressed' => Quiesced'

LEMMA HostQuiet ==
    ASSUME UnresolvedInv, Quiesced, suppressed', job' = job, NEW w \in Workers, NEW k,
           worker' = [worker EXCEPT ![w] = k], k.pc # "insert", k.task # "job"
    PROVE  Quiesced'
<1>1. \A u \in Workers : worker'[u] = IF u = w THEN k ELSE worker[u]
  BY DEF UnresolvedInv
<1>2. QED
  BY <1>1 DEF Quiesced

LEMMA TableQuiet ==
    ASSUME Quiesced, suppressed', ~job'.kept, UNCHANGED worker
    PROVE  Quiesced'
BY DEF Quiesced

(* A host leaves what it is at, or takes it along, and inserts no job.     *)
LEMMA HostGoesQuietly ==
    ASSUME UnresolvedInv, Quiesced, suppressed', job' = job, NEW w \in Workers, NEW pc,
           pc # "insert", Unresolved!Goto(w, pc) \/ Unresolved!Carry(w, pc)
    PROVE  Quiesced'
<1>1. PICK i : i = Unresolved!Idle
  OBVIOUS
<1>2. i \in Host /\ worker[w] \in Host /\ worker[w].task # "job" /\ i.task = "none"
  BY <1>1, Idles DEF UnresolvedInv, Quiesced, Unresolved!Idle
<1>3. CASE Unresolved!Goto(w, pc)
  <2>1. PICK k : k = [i EXCEPT !.pc = pc]
    OBVIOUS
  <2>2. k.pc = pc /\ k.task = "none"
    BY <1>2, <2>1 DEF Host
  <2>3. worker' = [worker EXCEPT ![w] = k]
    BY <1>1, <1>3, <2>1 DEF Unresolved!Goto, Unresolved!Become
  <2>4. QED
    BY <2>2, <2>3, HostQuiet
<1>4. CASE Unresolved!Carry(w, pc)
  <2>1. PICK k : k = [i EXCEPT !.pc = pc, !.task = worker[w].task]
    OBVIOUS
  <2>2. k.pc = pc /\ k.task = worker[w].task
    BY <1>2, <2>1 DEF Host
  <2>3. worker' = [worker EXCEPT ![w] = k]
    BY <1>1, <1>4, <2>1 DEF Unresolved!Carry, Unresolved!Become
  <2>4. QED
    BY <1>2, <2>2, <2>3, HostQuiet
<1>5. QED
  BY <1>3, <1>4

(* A host goes on with what it is at, which is no job.                     *)
LEMMA HostAdvancesQuietly ==
    ASSUME UnresolvedInv, Quiesced, suppressed', job' = job, NEW w \in Workers, NEW k,
           Unresolved!Become(w, k), k.pc # "insert", k.task = worker[w].task \/ k.task = "request"
    PROVE  Quiesced'
BY HostQuiet DEF Quiesced, Unresolved!Become

LEMMA SyncQuiet ==
    ASSUME UnresolvedInv, Quiesced, suppressed', NEW w \in Workers, Unresolved!Sync(w)
    PROVE  Quiesced'
<1>1. job = Unresolved!NoJob
  BY DEF UnresolvedInv, JobOK, Quiesced
<1>2. CASE Unresolved!ReadOverdue(w)
  <2>1. PICK pc \in {"escalate", "sync"} : Unresolved!Goto(w, pc) /\ job' = job
    BY <1>2 DEF Unresolved!ReadOverdue
  <2>2. QED
    BY <2>1, HostGoesQuietly
<1>3. CASE Unresolved!Escalate(w)
  <2>1. Unresolved!Goto(w, "sync") /\ job' = job
    BY <1>1, <1>3 DEF Unresolved!Escalate
  <2>2. QED
    BY <2>1, HostGoesQuietly
<1>4. CASE Unresolved!ReadSync(w)
  <2>1. Unresolved!Goto(w, "drop") /\ job' = job
    BY <1>4 DEF Unresolved!ReadSync, Unresolved!Derives, Quiesced
  <2>2. QED
    BY <2>1, HostGoesQuietly
<1>5. CASE Unresolved!InsertJob(w)
  BY <1>5 DEF Unresolved!InsertJob, Unresolved!At, Quiesced
<1>6. CASE Unresolved!DropSuppressed(w)
  <2>1. Unresolved!Goto(w, "claim") /\ job' = job
    BY <1>1, <1>6 DEF Unresolved!DropSuppressed
  <2>2. QED
    BY <2>1, HostGoesQuietly
<1>7. QED
  BY <1>2, <1>3, <1>4, <1>5, <1>6 DEF Unresolved!Sync

LEMMA JobQuiet ==
    ASSUME UnresolvedInv, Quiesced, suppressed', NEW w \in Workers, Unresolved!RunJob(w)
    PROVE  Quiesced'
<1>1. ~job.kept /\ job.owner = NoOne /\ worker[w].task # "job"
  BY DEF UnresolvedInv, JobOK, Quiesced, Unresolved!NoJob
<1>2. CASE Unresolved!ClaimJob(w)
  <2>1. Unresolved!Goto(w, "request") /\ job' = job
    BY <1>1, <1>2 DEF Unresolved!ClaimJob, Unresolved!JobClaimable
  <2>2. QED
    BY <2>1, HostGoesQuietly
<1>3. CASE Unresolved!ReadState(w)
  <2>1. PICK stop : stop = (nextCheck = "none" \/ effect = "settled")
    OBVIOUS
  <2>2. PICK k : k = [worker[w] EXCEPT !.pc = "checked", !.stop = stop]
    OBVIOUS
  <2>3. Unresolved!Become(w, k) /\ job' = job
    BY <1>3, <2>1, <2>2 DEF Unresolved!ReadState
  <2>4. k.pc = "checked" /\ k.task = worker[w].task
    BY <2>2 DEF UnresolvedInv, Host
  <2>5. QED
    BY <2>3, <2>4, HostAdvancesQuietly
<1>4. CASE Unresolved!ReadSuppression(w)
  <2>1. Unresolved!Carry(w, "finish") /\ job' = job
    BY <1>4 DEF Unresolved!ReadSuppression, Quiesced
  <2>2. QED
    BY <2>1, HostGoesQuietly
<1>5. CASE Unresolved!FinishJob(w)
  <2>1. Unresolved!Goto(w, "request") /\ job' = job
    BY <1>1, <1>5, NoOneAssumption DEF Unresolved!FinishJob, Unresolved!OwnsJob
  <2>2. QED
    BY <2>1, HostGoesQuietly
<1>6. CASE Unresolved!BackOff(w)
  BY <1>1, <1>6 DEF Unresolved!BackOff
<1>7. QED
  BY <1>2, <1>3, <1>4, <1>5, <1>6 DEF Unresolved!RunJob

LEMMA LookQuiet ==
    ASSUME UnresolvedInv, Quiesced, suppressed', NEW w \in Workers,
           Unresolved!Look(w) \/ Unresolved!RunRequest(w) \/ Unresolved!Crash(w)
    PROVE  Quiesced'
<1>1. worker[w] \in Host
  BY DEF UnresolvedInv
<1>2. CASE Unresolved!Reconcile(w)
  <2>1. PICK k : k = [worker[w] EXCEPT !.pc = "derived", !.next = nextCheck']
    OBVIOUS
  <2>2. Unresolved!Become(w, k) /\ job' = job
    BY <1>2, <2>1 DEF Unresolved!Reconcile
  <2>3. k.pc = "derived" /\ k.task = worker[w].task
    BY <1>1, <2>1 DEF Host
  <2>4. QED
    BY <2>2, <2>3, HostAdvancesQuietly
<1>3. CASE Unresolved!Fail(w)
  <2>1. Unresolved!Carry(w, "failed") /\ job' = job
    BY <1>3 DEF Unresolved!Fail
  <2>2. QED
    BY <2>1, HostGoesQuietly
<1>4. CASE Unresolved!RecordTransition(w)
  <2>1. PICK pc : pc = IF worker[w].task = "job" THEN "finish" ELSE "complete"
    OBVIOUS
  <2>2. PICK k : k = [worker[w] EXCEPT !.pc = pc]
    OBVIOUS
  <2>3. Unresolved!Become(w, k) /\ job' = job
    BY <1>4, <2>1, <2>2 DEF Unresolved!RecordTransition
  <2>4. k.pc # "insert" /\ k.task = worker[w].task
    BY <1>1, <2>1, <2>2 DEF Host
  <2>5. QED
    BY <2>3, <2>4, HostAdvancesQuietly
<1>5. CASE Unresolved!ClaimRequest(w)
  <2>1. CASE Unresolved!RequestClaimable
    <3>1. PICK i : i = Unresolved!Idle
      OBVIOUS
    <3>2. PICK k : k = [i EXCEPT !.pc = "reconcile", !.task = "request"]
      OBVIOUS
    <3>3. Unresolved!Become(w, k) /\ job' = job
      BY <1>5, <2>1, <3>1, <3>2 DEF Unresolved!ClaimRequest
    <3>4. k.pc = "reconcile" /\ k.task = "request"
      BY <3>1, <3>2, Idles DEF Host
    <3>5. QED
      BY <3>3, <3>4, HostAdvancesQuietly
  <2>2. CASE ~Unresolved!RequestClaimable
    <3>1. Unresolved!Goto(w, "park") /\ job' = job
      BY <1>5, <2>2 DEF Unresolved!ClaimRequest
    <3>2. QED
      BY <3>1, HostGoesQuietly
  <2>3. QED
    BY <2>1, <2>2
<1>6. CASE \/ Unresolved!ParkExhausted(w) \/ Unresolved!CompleteRequest(w)
           \/ Unresolved!ReturnRequest(w) \/ Unresolved!Crash(w)
  <2>1. Unresolved!Goto(w, "idle") /\ job' = job
    BY <1>6 DEF Unresolved!ParkExhausted, Unresolved!CompleteRequest, Unresolved!ReturnRequest,
       Unresolved!Crash
  <2>2. QED
    BY <2>1, HostGoesQuietly
<1>7. QED
  BY <1>2, <1>3, <1>4, <1>5, <1>6 DEF Unresolved!Look, Unresolved!RunRequest

LEMMA UnresolvedQuiet ==
    ASSUME UnresolvedInv, Quiesced, suppressed', Unresolved!Next
    PROVE  Quiesced'
<1>1. ~job.kept /\ job.lease # "live"
  BY DEF UnresolvedInv, JobOK, Quiesced, Unresolved!NoJob
<1>2. CASE Unresolved!Review
  BY <1>2, TableQuiet DEF Unresolved!Review, Unresolved!OpenHumanReview,
     Unresolved!LiftSuppression, Unresolved!UpdateHumanReview, Quiesced
<1>3. CASE \/ Unresolved!DeadlinePasses \/ Unresolved!CheckFallsDue \/ Unresolved!JobFallsDue
           \/ Unresolved!JobLapses \/ Unresolved!RequestLapses
  BY <1>1, <1>3, TableQuiet
     DEF Unresolved!DeadlinePasses, Unresolved!CheckFallsDue, Unresolved!JobFallsDue,
     Unresolved!JobLapses, Unresolved!RequestLapses
<1>4. QED
  BY <1>2, <1>3, SyncQuiet, JobQuiet, LookQuiet DEF Unresolved!Next, Unresolved!Tick

(* No job that a suppression ended comes back while the suppression lasts, *)
(* through syncs that selected before it, hosts that were paused or died,  *)
(* and leases that lapse: nothing of the automatic work is under way any   *)
(* more and nothing starts it (escalateOverdueReconciliations,             *)
(* syncReconciliationJobs, runOne).                                        *)
THEOREM QuietTheorem == FairSpec => [][StaysQuiet]_vars
<1>1. ASSUME BackgroundInv, [Next]_vars PROVE [StaysQuiet]_vars
  <2>1. CASE Unresolved!Next
    BY <1>1, <2>1, UnresolvedQuiet DEF BackgroundInv, StaysQuiet
  <2>2. CASE UNCHANGED aftercare
    BY <2>2 DEF aftercare, StaysQuiet, Quiesced
  <2>3. QED
    BY <1>1, <2>1, <2>2 DEF Next
<1>2. QED
  BY <1>1, BackgroundAlways, PTL DEF FairSpec
=============================================================================
