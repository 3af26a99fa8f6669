-------------------------------- MODULE Ingest --------------------------------
(***************************************************************************)
(* Evidence that customers push, and the relay that is asked for it.  Every *)
(* statement is a step: retries of one event and replays of one nonce race. *)
(* What recordFact does with an observation is in Outcomes; here it counts. *)
(***************************************************************************)
EXTENDS Naturals

CONSTANTS
    Callers, Sources, Events,
    Topics,           \* subject and property of an observation
    Nonces,           \* one for each request to the relay
    Absent, Expiry, MaxTime, MaxPushes, MaxCrashes

VARIABLES
    time,
    source,           \* nyst_evidence_sources
    ingested,         \* nyst_ingested_evidence, by source and event
    recorded,         \* how often each event became a world fact, and of what
    asked,            \* nyst_relay_requests
    accepted,         \* how often the answer to each nonce was taken
    pusher, pushes, crashes

vars == <<time, source, ingested, recorded, asked, accepted, pusher, pushes, crashes>>

Idle == [pc |-> "idle", source |-> Absent, event |-> Absent, topic |-> Absent,
         nonce |-> Absent]

Init ==
    /\ time = 0
    /\ source = [s \in Sources |-> "unregistered"]
    /\ ingested = [e \in Sources \X Events |-> Absent]
    /\ recorded = [e \in Sources \X Events |-> [topic \in Topics |-> 0]]
    /\ asked = [n \in Nonces |-> Absent]
    /\ accepted = [n \in Nonces |-> 0]
    /\ pusher = [c \in Callers |-> Idle]
    /\ pushes = 0
    /\ crashes = 0

At(c, pc) == pusher[c].pc = pc
Become(c, new) == pusher' = [pusher EXCEPT ![c] = new]
Goto(c, pc) == Become(c, [pusher[c] EXCEPT !.pc = pc])
Return(c) == Become(c, Idle)
Event(c) == <<pusher[c].source, pusher[c].event>>

RegisterSource(s) ==
    /\ source[s] = "unregistered"
    /\ source' = [source EXCEPT ![s] = "live"]
    /\ UNCHANGED <<time, ingested, recorded, asked, accepted, pusher, pushes, crashes>>

RevokeSource(s) ==
    /\ source[s] = "live"
    /\ source' = [source EXCEPT ![s] = "revoked"]
    /\ UNCHANGED <<time, ingested, recorded, asked, accepted, pusher, pushes, crashes>>

-----------------------------------------------------------------------------
Submit(c) ==
    /\ At(c, "idle") /\ pushes < MaxPushes
    /\ pushes' = pushes + 1
    /\ \E s \in Sources, event \in Events, topic \in Topics, n \in Nonces \union {Absent} :
          Become(c, [pc |-> IF n = Absent THEN "push" ELSE "fulfil",
                     source |-> s, event |-> event, topic |-> topic, nonce |-> n])
    /\ UNCHANGED <<time, source, ingested, recorded, asked, accepted, crashes>>

(* The source is read once; a revocation does not stop a push behind it.   *)
CheckSource(c) ==
    /\ At(c, "push")
    /\ IF source[pusher[c].source] = "live" THEN Goto(c, "checked") ELSE Return(c)
    /\ UNCHANGED <<time, source, ingested, recorded, asked, accepted, pushes, crashes>>

(* A push that carries a conclusion is refused before anything is read, one *)
(* whose signature does not verify after its source was.                   *)
Conclusive(c) ==
    /\ At(c, "push")
    /\ Return(c)
    /\ UNCHANGED <<time, source, ingested, recorded, asked, accepted, pushes, crashes>>

Unverified(c) ==
    /\ At(c, "checked")
    /\ Return(c)
    /\ UNCHANGED <<time, source, ingested, recorded, asked, accepted, pushes, crashes>>

(* Defective form: an event without a world fact is still new.             *)
Unrecorded(e) == ingested[e] = Absent \/ ~ingested[e].linked

(* ON CONFLICT (evidence_source_id, event_id).                             *)
Unseen(e) == ingested[e] = Absent

Insert(c) ==
    /\ At(c, "checked")
    /\ IF Unseen(Event(c))
       THEN /\ ingested' = [ingested EXCEPT ![Event(c)] =
                              [topic |-> pusher[c].topic, linked |-> FALSE]]
            /\ Goto(c, "inserted")
       ELSE Goto(c, "taken") /\ UNCHANGED ingested
    /\ UNCHANGED <<time, source, recorded, asked, accepted, pushes, crashes>>

RecordFact(c) ==
    /\ At(c, "inserted")
    /\ recorded' = [recorded EXCEPT ![Event(c)][pusher[c].topic] = @ + 1]
    /\ Goto(c, "recorded")
    /\ UNCHANGED <<time, source, ingested, asked, accepted, pushes, crashes>>

LinkFact(c) ==
    /\ At(c, "recorded")
    /\ ingested' = [ingested EXCEPT ![Event(c)].linked = TRUE]
    /\ Goto(c, "taken")
    /\ UNCHANGED <<time, source, recorded, asked, accepted, pushes, crashes>>

(* The record the push made or replays; a request keeps which it was.      *)
Accept(c) ==
    /\ At(c, "taken")
    /\ asked' = IF pusher[c].nonce = Absent THEN asked
                ELSE [asked EXCEPT ![pusher[c].nonce].evidence = Event(c)]
    /\ Return(c)
    /\ UNCHANGED <<time, source, ingested, recorded, accepted, pushes, crashes>>

-----------------------------------------------------------------------------
IssueRequest(n) ==
    /\ asked[n] = Absent
    /\ \E s \in Sources, topic \in Topics :
          /\ source[s] = "live"
          /\ asked' = [asked EXCEPT ![n] = [status |-> "issued", topic |-> topic,
                                            expires |-> time + Expiry, evidence |-> Absent]]
    /\ UNCHANGED <<time, source, ingested, recorded, accepted, pusher, pushes, crashes>>

Claimable(n) == asked[n] # Absent /\ asked[n].status = "issued" /\ asked[n].expires > time

(* The nonce is consumed by the statement that checks it.                  *)
Fulfil(c) ==
    /\ At(c, "fulfil")
    /\ LET n == pusher[c].nonce IN
       IF Claimable(n)
       THEN /\ asked' = [asked EXCEPT ![n].status = "fulfilled"]
            /\ accepted' = [accepted EXCEPT ![n] = @ + 1]
            /\ Goto(c, IF asked[n].topic = pusher[c].topic THEN "push" ELSE "mismatch")
       ELSE Return(c) /\ UNCHANGED <<asked, accepted>>
    /\ UNCHANGED <<time, source, ingested, recorded, pushes, crashes>>

Reject(c) ==
    /\ At(c, "mismatch")
    /\ asked' = [asked EXCEPT ![pusher[c].nonce].status = "rejected"]
    /\ Return(c)
    /\ UNCHANGED <<time, source, ingested, recorded, accepted, pushes, crashes>>

ExpireStale ==
    /\ \E n \in Nonces : asked[n] # Absent /\ asked[n].status = "issued" /\ asked[n].expires <= time
    /\ asked' = [n \in Nonces |->
                   IF asked[n] # Absent /\ asked[n].status = "issued" /\ asked[n].expires <= time
                   THEN [asked[n] EXCEPT !.status = "expired"] ELSE asked[n]]
    /\ UNCHANGED <<time, source, ingested, recorded, accepted, pusher, pushes, crashes>>

Crash(c) ==
    /\ ~At(c, "idle") /\ crashes < MaxCrashes
    /\ crashes' = crashes + 1
    /\ Return(c)
    /\ UNCHANGED <<time, source, ingested, recorded, asked, accepted, pushes>>

Tick ==
    /\ time < MaxTime
    /\ time' = time + 1
    /\ UNCHANGED <<source, ingested, recorded, asked, accepted, pusher, pushes, crashes>>

Next ==
    \/ \E c \in Callers :
          \/ Submit(c) \/ Conclusive(c) \/ CheckSource(c) \/ Unverified(c) \/ Insert(c) \/ RecordFact(c) \/ LinkFact(c)
          \/ Accept(c) \/ Fulfil(c) \/ Reject(c) \/ Crash(c)
    \/ \E s \in Sources : RegisterSource(s) \/ RevokeSource(s)
    \/ \E n \in Nonces : IssueRequest(n)
    \/ ExpireStale
    \/ Tick

Spec == Init /\ [][Next]_vars

-----------------------------------------------------------------------------
(* The types of the tables and of the pushes.                              *)
TypeOK ==
    /\ {time, pushes, crashes} \subseteq Nat
    /\ source \in [Sources -> {"unregistered", "live", "revoked"}]
    /\ ingested \in [Sources \X Events ->
                       [topic : Topics, linked : BOOLEAN] \union {Absent}]
    /\ recorded \in [Sources \X Events -> [Topics -> Nat]]
    /\ asked \in [Nonces -> [status : {"issued", "fulfilled", "rejected", "expired"},
                             topic : Topics, expires : Nat,
                             evidence : (Sources \X Events) \union {Absent}] \union {Absent}]
    /\ accepted \in [Nonces -> Nat]

(* A retried, raced or replayed observation counts once.  An event is at   *)
(* most one world fact, of what was first reported under it; a fact that is *)
(* linked exists; a question to the relay is answered at most once.        *)
ObservedOnce ==
    /\ \A e \in Sources \X Events : \A topic \in Topics :
          recorded[e][topic] <= IF ingested[e] # Absent /\ ingested[e].topic = topic
                                THEN 1 ELSE 0
    /\ \A e \in Sources \X Events :
          ingested[e] # Absent /\ ingested[e].linked => recorded[e][ingested[e].topic] = 1
    /\ \A n \in Nonces : accepted[n] <= 1
=============================================================================
