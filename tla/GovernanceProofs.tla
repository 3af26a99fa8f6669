-------------------------- MODULE GovernanceProofs --------------------------
(***************************************************************************)
(* What the control plane promises, for any callers, keys, events, nonces,  *)
(* accounts, credentials and bounds, one section for each part, in which    *)
(* an inductive invariant of the part is carried through every step.        *)
(*                                                                         *)
(* A keyed command: whoever reserved the key is its one owner until it is   *)
(* released or completed (Owners), and what took effect is of the body the  *)
(* key was reserved for (Happened).  An observation: whoever inserted the   *)
(* event records and links it (OneRecorder).  A run of an offboarding: the  *)
(* later stage is tried only where the earlier one was found.  An outcome:  *)
(* who evaluates holds its lock, and stores of what it read.  A sign-in and *)
(* a password: the rows a call has read may have moved, what it has         *)
(* consumed is its own.  A grant and a binding: what was signed stays what  *)
(* it was.  A connection: what a request has read of a credential was true  *)
(* of it (RequestOK).  A lease: its receipt is of a resolution that was     *)
(* saved, no earlier than the one authorised (Receipt).  Together they give *)
(* the types of all tables, and with the module on admission that budgets   *)
(* and freezes hold beside everything else.                                 *)
(***************************************************************************)
EXTENDS Governance, AdmissionProofs

-----------------------------------------------------------------------------
(* Keyed commands.                                                         *)
Entries == [status : {"in_flight", "completed"}, body : Bodies]

Running(c) == command[c].pc \in {"reserved", "done", "failed"}

CommandTypes ==
    /\ entry \in Entries \union {Null}
    /\ command \in [Callers -> [pc : {"idle", "called", "reserved", "conflict", "done", "failed"},
                                body : Bodies \union {Null}]]
    /\ \A c \in Callers : command[c].pc # "idle" => command[c].body \in Bodies
    /\ effects \in [Bodies -> Nat]
    /\ replies \subseteq Bodies \X Bodies

(* Who runs the operation holds the key, alone.                            *)
Owners ==
    /\ \A c \in Callers : Running(c) =>
          entry # Null /\ entry.status = "in_flight" /\ entry.body = command[c].body
    /\ \A c, d \in Callers : Running(c) /\ Running(d) => c = d

(* What took effect is of the body the key was reserved for, once; before  *)
(* the operation nothing did, and an answer tells of something that did.   *)
Happened ==
    /\ \A b \in Bodies : effects[b] # 0 =>
          effects[b] = 1 /\ entry # Null /\ entry.body = b
    /\ \A c \in Callers : command[c].pc \in {"reserved", "failed"} =>
          \A b \in Bodies : effects[b] = 0
    /\ \A c \in Callers : command[c].pc = "done" => effects[command[c].body] = 1
    /\ entry # Null /\ entry.status = "completed" => effects[entry.body] = 1
    /\ \A r \in replies : r[1] = r[2] /\ effects[r[2]] = 1

KeyInv == CommandTypes /\ Owners /\ Happened

LEMMA KeyGives == KeyInv => RunsOnce
BY DEF KeyInv, CommandTypes, Happened, RunsOnce, Commands!RunsOnce

LEMMA KeyInit == InitAll => KeyInv
<1>. SUFFICES ASSUME InitAll PROVE KeyInv
  OBVIOUS
<1>1. /\ entry = Null /\ effects = [b \in Bodies |-> 0] /\ replies = {}
      /\ command = [c \in Callers |-> [pc |-> "idle", body |-> Null]]
  BY DEF InitAll, Commands!Init, Commands!Nothing
<1>2. QED
  BY <1>1, GovernanceNull DEF KeyInv, CommandTypes, Owners, Happened, Running

(* A step that touches none of the tables of the commands.                 *)
LEMMA KeyRest ==
    ASSUME KeyInv, UNCHANGED <<entry, command, effects, replies>>
    PROVE  KeyInv'
BY DEF KeyInv, CommandTypes, Owners, Happened, Running

LEMMA KeyStep ==
    ASSUME KeyInv, NEW c \in Callers,
           \/ Commands!Call(c) \/ Commands!Reserve(c) \/ Commands!Replay(c)
           \/ Commands!Operate(c) \/ Commands!Fail(c) \/ Commands!Release(c)
           \/ Commands!Complete(c) \/ Commands!Crash(c)
    PROVE  KeyInv'
<1>. USE DEF KeyInv, CommandTypes, Owners, Happened, Running, Entries, Commands!At,
             Commands!Goto, Commands!Return, Commands!Nothing
<1>1. CASE Commands!Call(c)
  BY <1>1 DEF Commands!Call
<1>2. CASE Commands!Reserve(c)
  BY <1>2, GovernanceNull DEF Commands!Reserve, Commands!Reservable
<1>3. CASE Commands!Replay(c)
  BY <1>3 DEF Commands!Replay
<1>4. CASE Commands!Operate(c)
  BY <1>4 DEF Commands!Operate
<1>5. CASE Commands!Fail(c)
  BY <1>5 DEF Commands!Fail
<1>6. CASE Commands!Release(c)
  BY <1>6 DEF Commands!Release
<1>7. CASE Commands!Complete(c)
  BY <1>7, GovernanceNull DEF Commands!Complete
<1>8. CASE Commands!Crash(c)
  BY <1>8 DEF Commands!Crash
<1>9. QED
  BY <1>1, <1>2, <1>3, <1>4, <1>5, <1>6, <1>7, <1>8

(* Only the commands' own steps touch their tables.                        *)
LEMMA KeyAlways == SpecAll => []KeyInv
<1>1. ASSUME KeyInv, [NextAll]_everything
      PROVE  KeyInv'
  <2>1. CASE Commands!Next
    BY <1>1, <2>1, KeyStep DEF Commands!Next
  <2>2. CASE UNCHANGED keyed
    BY <1>1, <2>2, KeyRest DEF keyed
  <2>3. QED
    BY <1>1, <2>1, <2>2 DEF NextAll, everything, controls
<1>2. QED
  BY KeyInit, <1>1, PTL DEF SpecAll

(* A keyed command takes effect once, for one request, and is answered as  *)
(* done only to who asked for it, however callers repeat, race and die.    *)
THEOREM KeyTheorem == SpecAll => []RunsOnce
BY KeyAlways, KeyGives, PTL

-----------------------------------------------------------------------------
(* Pushed evidence and the relay.                                          *)
Standings == {"idle", "push", "fulfil", "checked", "inserted", "recorded", "taken", "mismatch"}
Pushes == [pc : Standings, source : Sources \union {Null}, event : Events \union {Null},
           topic : Topics \union {Null}, nonce : Nonces \union {Null}]

Observations == [topic : Topics, linked : BOOLEAN]
Questions == [status : {"issued", "fulfilled", "rejected", "expired"}, topic : Topics,
              expires : Nat, evidence : (Sources \X Events) \union {Null}]

TablesOK ==
    /\ ingested \in [Sources \X Events -> Observations \union {Null}]
    /\ recorded \in [Sources \X Events -> [Topics -> Nat]]
    /\ asked \in [Nonces -> Questions \union {Null}]
    /\ accepted \in [Nonces -> Nat]

PushTyped(j) ==
    /\ j \in Pushes
    /\ j.pc # "idle" => j.source \in Sources /\ j.event \in Events /\ j.topic \in Topics
    /\ j.pc \in {"fulfil", "mismatch"} => j.nonce \in Nonces

(* Who inserted an event holds what it says, and has recorded it or has not. *)
Recording(j) == j.pc \in {"inserted", "recorded"}
Pushed(j) == <<j.source, j.event>>

Records(j) ==
    Recording(j) =>
        /\ ingested[Pushed(j)] # Null
        /\ ingested[Pushed(j)].topic = j.topic /\ ~ingested[Pushed(j)].linked
        /\ recorded[Pushed(j)][j.topic] = IF j.pc = "recorded" THEN 1 ELSE 0

(* A question that was answered, or is being, is not open any more.        *)
Closed(n) == asked[n] # Null /\ asked[n].status # "issued"
Answers(j) == j.pc \notin {"idle", "fulfil"} /\ j.nonce # Null => Closed(j.nonce)

PushOK(j) == PushTyped(j) /\ Records(j) /\ Answers(j)

PushersOK == /\ DOMAIN pusher = Callers /\ pusher = [c \in Callers |-> pusher[c]]
             /\ \A c \in Callers : PushOK(pusher[c])

OneRecorder ==
    \A c, d \in Callers :
        Recording(pusher[c]) /\ Recording(pusher[d]) /\ Pushed(pusher[c]) = Pushed(pusher[d])
            => c = d

Counted(e) ==
    /\ \A t \in Topics : recorded[e][t] # 0 =>
          recorded[e][t] = 1 /\ ingested[e] # Null /\ ingested[e].topic = t
    /\ ingested[e] # Null /\ ingested[e].linked => recorded[e][ingested[e].topic] = 1

Taken(n) == accepted[n] # 0 => accepted[n] = 1 /\ Closed(n)

ReportInv ==
    /\ TablesOK /\ PushersOK /\ OneRecorder
    /\ \A e \in Sources \X Events : Counted(e)
    /\ \A n \in Nonces : Taken(n)

LEMMA ReportGives == ReportInv => ObservedOnce
BY DEF ReportInv, TablesOK, Counted, Taken, ObservedOnce, Reports!ObservedOnce, Observations

LEMMA IdlePush == PushOK(Reports!Idle) /\ ~Recording(Reports!Idle)
BY DEF PushOK, PushTyped, Records, Answers, Recording, Pushes, Standings, Reports!Idle

LEMMA ReportInit == InitAll => ReportInv
<1>. SUFFICES ASSUME InitAll PROVE ReportInv
  OBVIOUS
<1>1. /\ ingested = [e \in Sources \X Events |-> Null]
      /\ recorded = [e \in Sources \X Events |-> [topic \in Topics |-> 0]]
      /\ asked = [n \in Nonces |-> Null] /\ accepted = [n \in Nonces |-> 0]
      /\ pusher = [c \in Callers |-> Reports!Idle]
  BY DEF InitAll, Reports!Init
<1>2. TablesOK
  BY <1>1 DEF TablesOK
<1>3. PushersOK /\ OneRecorder
  BY <1>1, IdlePush DEF PushersOK, OneRecorder
<1>4. \A e \in Sources \X Events : Counted(e)
  BY <1>1 DEF Counted
<1>5. \A n \in Nonces : Taken(n)
  BY <1>1 DEF Taken
<1>6. QED
  BY <1>2, <1>3, <1>4, <1>5 DEF ReportInv

LEMMA ReportRest ==
    ASSUME ReportInv, UNCHANGED <<ingested, recorded, asked, accepted, pusher>>
    PROVE  ReportInv'
<1>1. TablesOK' /\ OneRecorder'
  BY DEF ReportInv, TablesOK, OneRecorder, Recording, Pushed
<1>2. PushersOK'
  BY DEF ReportInv, PushersOK, PushOK, PushTyped, Records, Answers, Closed, Recording, Pushed
<1>3. (\A e \in Sources \X Events : Counted(e)') /\ \A n \in Nonces : Taken(n)'
  BY DEF ReportInv, Counted, Taken, Closed
<1>4. QED
  BY <1>1, <1>2, <1>3 DEF ReportInv

(* One pusher becomes another; the others stand where they stood.          *)
LEMMA Becomes ==
    ASSUME PushersOK, NEW c \in Callers, NEW j, Reports!Become(c, j)
    PROVE  /\ DOMAIN pusher' = Callers /\ pusher' = [d \in Callers |-> pusher'[d]]
           /\ pusher'[c] = j /\ \A d \in Callers : d # c => pusher'[d] = pusher[d]
BY DEF PushersOK, Reports!Become

LEMMA GoesTo ==
    ASSUME NEW c \in Callers, PushTyped(pusher[c]), pusher[c].pc # "idle",
           NEW pc \in Standings \ {"fulfil", "mismatch", "idle"}
    PROVE  LET j == [pusher[c] EXCEPT !.pc = pc] IN
           /\ PushTyped(j) /\ j.pc = pc /\ Pushed(j) = Pushed(pusher[c])
           /\ j.topic = pusher[c].topic /\ j.nonce = pusher[c].nonce
BY DEF PushTyped, Pushes, Standings, Pushed

(* A pusher that records nothing moves, and the tables stay.               *)
LEMMA PushMoves ==
    ASSUME ReportInv, NEW c \in Callers, NEW j, Reports!Become(c, j), PushOK(j), ~Recording(j),
           UNCHANGED <<ingested, recorded, asked, accepted>>
    PROVE  ReportInv'
<1>1. /\ DOMAIN pusher' = Callers /\ pusher' = [d \in Callers |-> pusher'[d]]
      /\ pusher'[c] = j /\ \A d \in Callers : d # c => pusher'[d] = pusher[d]
  BY Becomes DEF ReportInv
<1>2. \A k : PushOK(k) => PushOK(k)'
  BY DEF PushOK, PushTyped, Records, Answers, Closed, Recording, Pushed
<1>3. PushersOK'
  BY <1>1, <1>2 DEF ReportInv, PushersOK, PushOK, PushTyped, Records, Answers, Closed, Recording, Pushed
<1>4. OneRecorder'
  BY <1>1 DEF ReportInv, OneRecorder, Recording, Pushed
<1>5. QED
  BY <1>3, <1>4 DEF ReportInv, TablesOK, Counted, Taken, Closed

LEMMA ReportMoves ==
    ASSUME ReportInv, NEW c \in Callers,
           \/ Reports!Submit(c) \/ Reports!Conclusive(c) \/ Reports!CheckSource(c)
           \/ Reports!Unverified(c) \/ Reports!Crash(c)
    PROVE  ReportInv'
<1>1. PushOK(pusher[c])
  BY DEF ReportInv, PushersOK
<1>2. UNCHANGED <<ingested, recorded, asked, accepted>>
  BY DEF Reports!Submit, Reports!Conclusive, Reports!CheckSource, Reports!Unverified, Reports!Crash
<1>3. CASE Reports!Submit(c)
  <2>1. PICK s \in Sources, event \in Events, topic \in Topics, n \in Nonces \union {Null} :
          Reports!Become(c, [pc |-> IF n = Null THEN "push" ELSE "fulfil",
                             source |-> s, event |-> event, topic |-> topic, nonce |-> n])
    BY <1>3 DEF Reports!Submit
  <2>. DEFINE j == [pc |-> IF n = Null THEN "push" ELSE "fulfil",
                    source |-> s, event |-> event, topic |-> topic, nonce |-> n]
  <2>2. PushOK(j) /\ ~Recording(j)
    BY DEF PushOK, PushTyped, Records, Answers, Recording, Pushes, Standings
  <2>3. QED
    BY <1>2, <2>1, <2>2, PushMoves
<1>4. CASE Reports!Return(c)
  BY <1>2, <1>4, IdlePush, PushMoves DEF Reports!Return
<1>5. CASE Reports!CheckSource(c) /\ Reports!Goto(c, "checked")
  <2>. DEFINE j == [pusher[c] EXCEPT !.pc = "checked"]
  <2>1. pusher[c].pc = "push"
    BY <1>5 DEF Reports!CheckSource, Reports!At
  <2>2. PushTyped(j) /\ j.pc = "checked" /\ j.nonce = pusher[c].nonce
    BY <1>1, <2>1, GoesTo DEF PushOK, Standings
  <2>3. PushOK(j) /\ ~Recording(j)
    BY <1>1, <2>1, <2>2 DEF PushOK, Records, Answers, Recording
  <2>4. QED
    BY <1>2, <1>5, <2>3, PushMoves DEF Reports!Goto
<1>6. QED
  BY <1>3, <1>4, <1>5 DEF Reports!Conclusive, Reports!CheckSource, Reports!Unverified, Reports!Crash

(* The event is a caller's to record once it inserted it.                  *)
LEMMA InsertKeeps ==
    ASSUME ReportInv, NEW c \in Callers, Reports!Insert(c)
    PROVE  ReportInv'
<1>. DEFINE p == pusher[c]
            e == Pushed(p)
<1>1. PushOK(p) /\ p.pc = "checked" /\ e \in Sources \X Events /\ Reports!Event(c) = e
  BY DEF ReportInv, PushersOK, PushOK, PushTyped, Reports!Insert, Reports!At, Reports!Event, Pushed
<1>2. CASE ~Reports!Unseen(e)
  <2>. DEFINE j == [p EXCEPT !.pc = "taken"]
  <2>1. PushTyped(j) /\ j.pc = "taken" /\ j.nonce = p.nonce
    BY <1>1, GoesTo DEF PushOK, Standings
  <2>2. PushOK(j) /\ ~Recording(j)
    BY <1>1, <2>1 DEF PushOK, Records, Answers, Recording
  <2>3. QED
    BY <1>1, <1>2, <2>2, PushMoves DEF Reports!Insert, Reports!Goto
<1>3. CASE Reports!Unseen(e)
  <2>. DEFINE new == [topic |-> p.topic, linked |-> FALSE]
  <2>0. PICK j : j = [p EXCEPT !.pc = "inserted"]
    OBVIOUS
  <2>1. /\ PushTyped(j) /\ j.pc = "inserted" /\ j.nonce = p.nonce
        /\ Pushed(j) = e /\ j.topic = p.topic
    BY <1>1, <2>0, GoesTo DEF PushOK, Standings
  <2>2. /\ DOMAIN pusher' = Callers /\ pusher' = [d \in Callers |-> pusher'[d]]
        /\ pusher'[c] = j /\ \A d \in Callers : d # c => pusher'[d] = pusher[d]
    BY <1>1, <1>3, <2>0, Becomes DEF ReportInv, Reports!Insert, Reports!Goto
  <2>3. /\ ingested[e] = Null /\ new \in Observations /\ new # Null
        /\ ingested' = [ingested EXCEPT ![e] = new]
        /\ UNCHANGED <<recorded, asked, accepted>>
    <3>1. ingested' = [ingested EXCEPT ![Reports!Event(c)] = new] /\ ingested[e] = Null
          /\ UNCHANGED <<recorded, asked, accepted>>
      BY <1>1, <1>3 DEF Reports!Insert, Reports!Unseen
    <3>2. new \in Observations
      BY <1>1 DEF Observations, PushOK, PushTyped
    <3>3. QED
      BY <1>1, <3>1, <3>2, GovernanceNull DEF Observations
  <2>4. /\ TablesOK' /\ ingested'[e] = new
        /\ \A f \in Sources \X Events : f # e => ingested'[f] = ingested[f]
    BY <1>1, <2>3 DEF ReportInv, TablesOK
  <2>5. \A t \in Topics : recorded[e][t] = 0
    BY <1>1, <2>3 DEF ReportInv, Counted
  <2>6. PushOK(j)'
    <3>1. new.topic = j.topic /\ ~new.linked /\ j.topic \in Topics /\ recorded'[e][j.topic] = 0
      BY <2>1, <2>3, <2>5 DEF PushTyped
    <3>2. Records(j)'
      BY <2>1, <2>3, <2>4, <3>1 DEF Records, Recording
    <3>3. PushTyped(j)' /\ Answers(j)'
      BY <1>1, <2>1, <2>3 DEF PushOK, PushTyped, Answers, Closed
    <3>4. QED
      BY <3>2, <3>3 DEF PushOK
  <2>7. ASSUME NEW d \in Callers, d # c
        PROVE  PushOK(pusher[d])' /\ (Recording(pusher[d]) => Pushed(pusher[d]) # e)
    <3>1. PushOK(pusher[d]) /\ pusher'[d] = pusher[d]
      BY <2>2, <2>7 DEF ReportInv, PushersOK
    <3>2. Recording(pusher[d]) => Pushed(pusher[d]) # e /\ Pushed(pusher[d]) \in Sources \X Events
      BY <2>3, <3>1 DEF PushOK, PushTyped, Records, Recording, Pushed
    <3>3. QED
      BY <2>3, <2>4, <3>1, <3>2
      DEF PushOK, PushTyped, Records, Answers, Closed, Recording
  <2>8. PushersOK' /\ OneRecorder'
    <3>1. PushersOK'
      BY <2>2, <2>6, <2>7 DEF PushersOK
    <3>2. \A d \in Callers : d # c /\ Recording(pusher'[d]) => Pushed(pusher'[d]) # Pushed(pusher'[c])
      BY <2>1, <2>2, <2>7
    <3>3. QED
      BY <2>2, <3>1, <3>2 DEF ReportInv, OneRecorder
  <2>9. ASSUME NEW f \in Sources \X Events PROVE Counted(f)'
    BY <2>3, <2>4, <2>5 DEF ReportInv, Counted
  <2>10. QED
    BY <2>3, <2>4, <2>8, <2>9 DEF ReportInv, Taken, Closed
<1>4. QED
  BY <1>2, <1>3

(* One more fact: the recorder's, of what it inserted.                     *)
LEMMA RecordKeeps ==
    ASSUME ReportInv, NEW c \in Callers, Reports!RecordFact(c)
    PROVE  ReportInv'
<1>. DEFINE p == pusher[c]
            e == Pushed(p)
<1>1. /\ PushOK(p) /\ p.pc = "inserted" /\ Recording(p) /\ e \in Sources \X Events
      /\ Reports!Event(c) = e /\ p.topic \in Topics
  BY DEF ReportInv, PushersOK, PushOK, PushTyped, Reports!RecordFact, Reports!At, Reports!Event,
     Pushed, Recording
<1>2. PICK j : j = [p EXCEPT !.pc = "recorded"]
  OBVIOUS
<1>3. /\ PushTyped(j) /\ j.pc = "recorded" /\ j.nonce = p.nonce
      /\ Pushed(j) = e /\ j.topic = p.topic
  BY <1>1, <1>2, GoesTo DEF PushOK, Standings
<1>4. /\ DOMAIN pusher' = Callers /\ pusher' = [d \in Callers |-> pusher'[d]]
      /\ pusher'[c] = j /\ \A d \in Callers : d # c => pusher'[d] = pusher[d]
  BY <1>1, <1>2, Becomes DEF ReportInv, Reports!RecordFact, Reports!Goto
<1>5. /\ ingested[e] # Null /\ ingested[e].topic = p.topic /\ ~ingested[e].linked
      /\ recorded[e][p.topic] = 0
  BY <1>1 DEF PushOK, Records
<1>6. /\ recorded' = [recorded EXCEPT ![e][p.topic] = @ + 1]
      /\ UNCHANGED <<ingested, asked, accepted>>
  BY <1>1 DEF Reports!RecordFact
<1>7. /\ TablesOK' /\ recorded'[e][p.topic] = 1
      /\ \A t \in Topics : t # p.topic => recorded'[e][t] = recorded[e][t]
      /\ \A f \in Sources \X Events : f # e => recorded'[f] = recorded[f]
  BY <1>1, <1>5, <1>6 DEF ReportInv, TablesOK
<1>8. PushOK(j)'
  <2>1. Records(j)'
    BY <1>1, <1>3, <1>5, <1>6, <1>7 DEF Records, Recording
  <2>2. PushTyped(j)' /\ Answers(j)'
    BY <1>1, <1>3, <1>6 DEF PushOK, PushTyped, Answers, Closed
  <2>3. QED
    BY <2>1, <2>2 DEF PushOK
<1>9. ASSUME NEW d \in Callers, d # c
      PROVE  PushOK(pusher[d])' /\ (Recording(pusher[d]) => Pushed(pusher[d]) # e)
  <2>1. PushOK(pusher[d]) /\ pusher'[d] = pusher[d]
    BY <1>4, <1>9 DEF ReportInv, PushersOK
  <2>2. Recording(pusher[d]) => Pushed(pusher[d]) # e /\ Pushed(pusher[d]) \in Sources \X Events
    BY <1>1, <1>9, <2>1 DEF ReportInv, OneRecorder, PushOK, PushTyped, Recording, Pushed
  <2>3. QED
    BY <1>6, <1>7, <2>1, <2>2
    DEF PushOK, PushTyped, Records, Answers, Closed, Recording
<1>10. PushersOK'
  BY <1>4, <1>8, <1>9 DEF PushersOK
<1>11. OneRecorder'
  <2>1. \A d \in Callers : d # c /\ Recording(pusher'[d]) => Pushed(pusher'[d]) # Pushed(pusher'[c])
    BY <1>3, <1>4, <1>9
  <2>2. QED
    BY <1>4, <2>1 DEF ReportInv, OneRecorder
<1>12. ASSUME NEW f \in Sources \X Events PROVE Counted(f)'
  BY <1>1, <1>5, <1>6, <1>7 DEF ReportInv, Counted
<1>13. QED
  BY <1>6, <1>7, <1>10, <1>11, <1>12 DEF ReportInv, Taken, Closed

(* What was recorded is linked, and its recorder is done with it.          *)
LEMMA LinkKeeps ==
    ASSUME ReportInv, NEW c \in Callers, Reports!LinkFact(c)
    PROVE  ReportInv'
<1>. DEFINE p == pusher[c]
            e == Pushed(p)
<1>1. /\ PushOK(p) /\ p.pc = "recorded" /\ Recording(p) /\ e \in Sources \X Events
      /\ Reports!Event(c) = e /\ p.topic \in Topics
  BY DEF ReportInv, PushersOK, PushOK, PushTyped, Reports!LinkFact, Reports!At, Reports!Event,
     Pushed, Recording
<1>2. PICK j : j = [p EXCEPT !.pc = "taken"]
  OBVIOUS
<1>3. PushTyped(j) /\ j.pc = "taken" /\ j.nonce = p.nonce /\ ~Recording(j)
  BY <1>1, <1>2, GoesTo DEF PushOK, Standings, Recording
<1>4. /\ DOMAIN pusher' = Callers /\ pusher' = [d \in Callers |-> pusher'[d]]
      /\ pusher'[c] = j /\ \A d \in Callers : d # c => pusher'[d] = pusher[d]
  BY <1>1, <1>2, Becomes DEF ReportInv, Reports!LinkFact, Reports!Goto
<1>5. /\ ingested[e] # Null /\ ingested[e].topic = p.topic /\ ingested[e] \in Observations
      /\ recorded[e][p.topic] = 1
  BY <1>1 DEF PushOK, Records, ReportInv, TablesOK
<1>6. PICK new : new = [ingested[e] EXCEPT !.linked = TRUE]
  OBVIOUS
<1>7. new \in Observations /\ new # Null /\ new.topic = p.topic
  BY <1>5, <1>6, GovernanceNull DEF Observations
<1>8. /\ ingested' = [ingested EXCEPT ![e] = new]
      /\ UNCHANGED <<recorded, asked, accepted>>
  BY <1>1, <1>6 DEF Reports!LinkFact
<1>9. /\ TablesOK' /\ ingested'[e] = new
      /\ \A f \in Sources \X Events : f # e => ingested'[f] = ingested[f]
  BY <1>1, <1>7, <1>8 DEF ReportInv, TablesOK
<1>10. PushOK(j)'
  BY <1>1, <1>3, <1>8 DEF PushOK, PushTyped, Records, Answers, Closed, Recording
<1>11. ASSUME NEW d \in Callers, d # c PROVE PushOK(pusher[d])'
  <2>1. PushOK(pusher[d]) /\ pusher'[d] = pusher[d]
    BY <1>4, <1>11 DEF ReportInv, PushersOK
  <2>2. Recording(pusher[d]) => Pushed(pusher[d]) # e /\ Pushed(pusher[d]) \in Sources \X Events
    BY <1>1, <1>11, <2>1 DEF ReportInv, OneRecorder, PushOK, PushTyped, Recording, Pushed
  <2>3. QED
    BY <1>8, <1>9, <2>1, <2>2
    DEF PushOK, PushTyped, Records, Answers, Closed, Recording
<1>12. PushersOK'
  BY <1>4, <1>10, <1>11 DEF PushersOK
<1>13. OneRecorder'
  BY <1>3, <1>4 DEF ReportInv, OneRecorder
<1>14. ASSUME NEW f \in Sources \X Events PROVE Counted(f)'
  BY <1>5, <1>7, <1>8, <1>9 DEF ReportInv, Counted
<1>15. QED
  BY <1>8, <1>9, <1>12, <1>13, <1>14 DEF ReportInv, Taken, Closed

-----------------------------------------------------------------------------
(* The questions to the relay: one that is closed stays closed.            *)
LEMMA QuestionKeeps ==
    ASSUME ReportInv, asked' \in [Nonces -> Questions \union {Null}],
           accepted' \in [Nonces -> Nat],
           \A n \in Nonces : Closed(n) => Closed(n)',
           \A n \in Nonces : Taken(n)',
           UNCHANGED <<ingested, recorded>>
    PROVE  /\ TablesOK' /\ \A e \in Sources \X Events : Counted(e)'
           /\ \A j \in Pushes : PushOK(j) => PushOK(j)'
<1>1. TablesOK' /\ \A e \in Sources \X Events : Counted(e)'
  BY DEF ReportInv, TablesOK, Counted
<1>2. ASSUME NEW j \in Pushes, PushOK(j) PROVE PushOK(j)'
  <2>1. PushTyped(j)' /\ Records(j)'
    BY <1>2 DEF PushOK, PushTyped, Records, Recording
  <2>2. j.nonce # Null => j.nonce \in Nonces
    BY <1>2 DEF Pushes
  <2>3. Answers(j)'
    BY <1>2, <2>2 DEF PushOK, Answers
  <2>4. QED
    BY <2>1, <2>3 DEF PushOK
<1>3. QED
  BY <1>1, <1>2

(* A pusher that records nothing moves with it, or nobody does.            *)
LEMMA AskKeeps ==
    ASSUME ReportInv, asked' \in [Nonces -> Questions \union {Null}],
           accepted' \in [Nonces -> Nat],
           \A n \in Nonces : Closed(n) => Closed(n)',
           \A n \in Nonces : Taken(n)',
           UNCHANGED <<ingested, recorded, pusher>>
    PROVE  ReportInv'
<1>1. \A c \in Callers : PushOK(pusher[c]) /\ pusher[c] \in Pushes /\ pusher'[c] = pusher[c]
  BY DEF ReportInv, PushersOK, PushOK, PushTyped
<1>2. PushersOK'
  BY <1>1, QuestionKeeps DEF ReportInv, PushersOK
<1>3. QED
  BY <1>2, QuestionKeeps DEF ReportInv, OneRecorder

LEMMA AnswerKeeps ==
    ASSUME ReportInv, asked' \in [Nonces -> Questions \union {Null}],
           accepted' \in [Nonces -> Nat],
           \A n \in Nonces : Closed(n) => Closed(n)',
           \A n \in Nonces : Taken(n)',
           UNCHANGED <<ingested, recorded>>,
           NEW c \in Callers, NEW j, Reports!Become(c, j), PushOK(j)', ~Recording(j)
    PROVE  ReportInv'
<1>1. /\ DOMAIN pusher' = Callers /\ pusher' = [d \in Callers |-> pusher'[d]]
      /\ pusher'[c] = j /\ \A d \in Callers : d # c => pusher'[d] = pusher[d]
  BY Becomes DEF ReportInv
<1>2. \A d \in Callers : PushOK(pusher[d]) /\ pusher[d] \in Pushes
  BY DEF ReportInv, PushersOK, PushOK, PushTyped
<1>3. PushersOK'
  BY <1>1, <1>2, QuestionKeeps DEF PushersOK
<1>4. OneRecorder'
  BY <1>1 DEF ReportInv, OneRecorder
<1>5. QED
  BY <1>3, <1>4, QuestionKeeps DEF ReportInv

LEMMA IdlePushLater == PushOK(Reports!Idle)'
BY DEF PushOK, PushTyped, Records, Answers, Recording, Pushes, Standings, Reports!Idle

LEMMA AcceptKeeps ==
    ASSUME ReportInv, NEW c \in Callers, Reports!Accept(c)
    PROVE  ReportInv'
<1>. DEFINE n == pusher[c].nonce
<1>1. /\ PushOK(pusher[c]) /\ pusher[c].pc = "taken" /\ Reports!Become(c, Reports!Idle)
      /\ UNCHANGED <<ingested, recorded, accepted>>
  BY DEF ReportInv, PushersOK, Reports!Accept, Reports!At, Reports!Return
<1>2. CASE n = Null
  BY <1>1, <1>2, IdlePush, PushMoves DEF Reports!Accept
<1>3. CASE n # Null
  <2>1. n \in Nonces /\ Closed(n) /\ asked[n] \in Questions /\ Reports!Event(c) \in Sources \X Events
    BY <1>1, <1>3 DEF PushOK, PushTyped, Pushes, Answers, Closed, ReportInv, TablesOK, Reports!Event
  <2>2. PICK new : new = [asked[n] EXCEPT !.evidence = Reports!Event(c)]
    OBVIOUS
  <2>3. new \in Questions /\ new # Null /\ new.status = asked[n].status
    BY <2>1, <2>2, GovernanceNull DEF Questions
  <2>4. asked' = [asked EXCEPT ![n] = new]
    BY <1>3, <2>2 DEF Reports!Accept
  <2>5. /\ asked' \in [Nonces -> Questions \union {Null}]
        /\ \A m \in Nonces : Closed(m) => Closed(m)'
    BY <2>1, <2>3, <2>4 DEF ReportInv, TablesOK, Closed
  <2>6. accepted' \in [Nonces -> Nat] /\ \A m \in Nonces : Taken(m)'
    BY <1>1, <2>5 DEF ReportInv, TablesOK, Taken
  <2>7. QED
    BY <1>1, <2>5, <2>6, IdlePush, IdlePushLater, AnswerKeeps
<1>4. QED
  BY <1>2, <1>3

LEMMA RejectKeeps ==
    ASSUME ReportInv, NEW c \in Callers, Reports!Reject(c)
    PROVE  ReportInv'
<1>. DEFINE n == pusher[c].nonce
<1>1. /\ PushOK(pusher[c]) /\ pusher[c].pc = "mismatch" /\ Reports!Become(c, Reports!Idle)
      /\ UNCHANGED <<ingested, recorded, accepted>>
  BY DEF ReportInv, PushersOK, Reports!Reject, Reports!At, Reports!Return
<1>2. n \in Nonces /\ asked[n] \in Questions
  <2>1. n \in Nonces /\ n # Null
    BY <1>1, GovernanceNull DEF PushOK, PushTyped
  <2>2. QED
    BY <1>1, <2>1 DEF PushOK, Answers, Closed, ReportInv, TablesOK
<1>3. PICK new : new = [asked[n] EXCEPT !.status = "rejected"]
  OBVIOUS
<1>4. new \in Questions /\ new # Null /\ new.status = "rejected"
  BY <1>2, <1>3, GovernanceNull DEF Questions
<1>5. asked' = [asked EXCEPT ![n] = new]
  BY <1>3 DEF Reports!Reject
<1>6. /\ asked' \in [Nonces -> Questions \union {Null}]
      /\ \A m \in Nonces : Closed(m) => Closed(m)'
  BY <1>2, <1>4, <1>5 DEF ReportInv, TablesOK, Closed
<1>7. accepted' \in [Nonces -> Nat] /\ \A m \in Nonces : Taken(m)'
  BY <1>1, <1>6 DEF ReportInv, TablesOK, Taken
<1>8. QED
  BY <1>1, <1>6, <1>7, IdlePush, IdlePushLater, AnswerKeeps

(* The nonce is open when it is taken, so that it was not taken before.    *)
LEMMA FulfilKeeps ==
    ASSUME ReportInv, NEW c \in Callers, Reports!Fulfil(c)
    PROVE  ReportInv'
<1>. DEFINE p == pusher[c]
<1>0. PICK n : n = p.nonce
  OBVIOUS
<1>1. /\ PushOK(p) /\ p.pc = "fulfil" /\ n \in Nonces
      /\ UNCHANGED <<ingested, recorded>>
  BY <1>0 DEF ReportInv, PushersOK, PushOK, PushTyped, Reports!Fulfil, Reports!At
<1>2. CASE ~Reports!Claimable(n)
  BY <1>0, <1>1, <1>2, IdlePush, PushMoves DEF Reports!Fulfil, Reports!Return
<1>3. CASE Reports!Claimable(n)
  <2>1. asked[n] \in Questions /\ asked[n].status = "issued" /\ accepted[n] = 0
    BY <1>1, <1>3 DEF Reports!Claimable, ReportInv, TablesOK, Taken, Closed
  <2>2. PICK new : new = [asked[n] EXCEPT !.status = "fulfilled"]
    OBVIOUS
  <2>3. new \in Questions /\ new # Null /\ new.status = "fulfilled"
    BY <2>1, <2>2, GovernanceNull DEF Questions
  <2>4. asked' = [asked EXCEPT ![n] = new] /\ accepted' = [accepted EXCEPT ![n] = @ + 1]
    BY <1>0, <1>3, <2>2 DEF Reports!Fulfil
  <2>5. /\ asked' \in [Nonces -> Questions \union {Null}] /\ accepted' \in [Nonces -> Nat]
        /\ Closed(n)' /\ \A m \in Nonces : Closed(m) => Closed(m)'
    BY <1>1, <2>3, <2>4 DEF ReportInv, TablesOK, Closed
  <2>6. \A m \in Nonces : Taken(m)'
    BY <1>1, <2>1, <2>4, <2>5 DEF ReportInv, TablesOK, Taken
  <2>7. PICK next \in {"push", "mismatch"} : Reports!Goto(c, next)
    BY <1>0, <1>3 DEF Reports!Fulfil
  <2>8. PICK j : j = [p EXCEPT !.pc = next]
    OBVIOUS
  <2>9. PushTyped(j) /\ j.pc = next /\ j.nonce = n
    BY <1>0, <1>1, <2>7, <2>8 DEF PushOK, PushTyped, Pushes, Standings
  <2>10. PushOK(j)' /\ ~Recording(j)
    BY <2>5, <2>7, <2>9 DEF PushOK, PushTyped, Records, Answers, Recording, Closed
  <2>11. QED
    BY <1>1, <2>5, <2>6, <2>7, <2>8, <2>10, AnswerKeeps DEF Reports!Goto
<1>4. QED
  BY <1>2, <1>3

LEMMA RelayKeeps ==
    ASSUME ReportInv, clock \in Nat,
           Reports!ExpireStale \/ \E n \in Nonces : Reports!IssueRequest(n)
    PROVE  ReportInv'
<1>1. UNCHANGED <<ingested, recorded, accepted, pusher>>
  BY DEF Reports!ExpireStale, Reports!IssueRequest
<1>2. /\ asked' \in [Nonces -> Questions \union {Null}]
      /\ \A m \in Nonces : Closed(m) => Closed(m)'
  <2>1. CASE Reports!ExpireStale
    <3>1. ASSUME NEW m \in Nonces
          PROVE  /\ asked'[m] \in Questions \union {Null} /\ (Closed(m) => asked'[m] = asked[m])
      <4>1. asked[m] \in Questions \union {Null}
        BY DEF ReportInv, TablesOK
      <4>2. asked'[m] \in {asked[m], [asked[m] EXCEPT !.status = "expired"]}
            /\ (asked'[m] # asked[m] => asked[m] # Null /\ ~Closed(m))
        BY <2>1 DEF Reports!ExpireStale, Closed
      <4>3. QED
        BY <4>1, <4>2 DEF Questions
    <3>2. asked' = [m \in Nonces |-> asked'[m]]
      BY <2>1 DEF Reports!ExpireStale
    <3>3. QED
      BY <3>1, <3>2 DEF Closed
  <2>2. ASSUME NEW n \in Nonces, Reports!IssueRequest(n)
        PROVE  /\ asked' \in [Nonces -> Questions \union {Null}]
               /\ \A m \in Nonces : Closed(m) => Closed(m)'
    <3>1. PICK topic \in Topics :
            asked' = [asked EXCEPT ![n] = [status |-> "issued", topic |-> topic,
                                           expires |-> clock + Term, evidence |-> Null]]
      BY <2>2 DEF Reports!IssueRequest
    <3>2. [status |-> "issued", topic |-> topic, expires |-> clock + Term, evidence |-> Null]
            \in Questions
      BY GovernanceBounds DEF Questions
    <3>3. asked[n] = Null
      BY <2>2 DEF Reports!IssueRequest
    <3>4. QED
      BY <3>1, <3>2, <3>3 DEF ReportInv, TablesOK, Closed
  <2>3. QED
    BY <2>1, <2>2
<1>3. accepted' \in [Nonces -> Nat] /\ \A m \in Nonces : Taken(m)'
  BY <1>1, <1>2 DEF ReportInv, TablesOK, Taken
<1>4. QED
  BY <1>1, <1>2, <1>3, AskKeeps

LEMMA ReportStep == ReportInv /\ clock \in Nat /\ Reports!Next => ReportInv' /\ clock' \in Nat
<1>. SUFFICES ASSUME ReportInv, clock \in Nat, Reports!Next PROVE ReportInv' /\ clock' \in Nat
  OBVIOUS
<1>1. CASE \E s \in Sources : Reports!RegisterSource(s) \/ Reports!RevokeSource(s)
  BY <1>1, ReportRest DEF Reports!RegisterSource, Reports!RevokeSource
<1>2. CASE Reports!Tick
  BY <1>2, ReportRest DEF Reports!Tick
<1>3. ASSUME NEW c \in Callers,
             \/ Reports!Submit(c) \/ Reports!Conclusive(c) \/ Reports!CheckSource(c)
             \/ Reports!Unverified(c) \/ Reports!Insert(c) \/ Reports!RecordFact(c)
             \/ Reports!LinkFact(c) \/ Reports!Accept(c) \/ Reports!Fulfil(c)
             \/ Reports!Reject(c) \/ Reports!Crash(c)
      PROVE  ReportInv' /\ clock' = clock
  <2>1. ReportInv'
    BY <1>3, ReportMoves, InsertKeeps, RecordKeeps, LinkKeeps, AcceptKeeps, FulfilKeeps, RejectKeeps
  <2>2. clock' = clock
    BY <1>3 DEF Reports!Submit, Reports!Conclusive, Reports!CheckSource, Reports!Unverified,
       Reports!Insert, Reports!RecordFact, Reports!LinkFact, Reports!Accept, Reports!Fulfil,
       Reports!Reject, Reports!Crash
  <2>3. QED
    BY <2>1, <2>2
<1>4. CASE Reports!ExpireStale \/ \E n \in Nonces : Reports!IssueRequest(n)
  BY <1>4, RelayKeeps DEF Reports!ExpireStale, Reports!IssueRequest
<1>5. QED
  BY <1>1, <1>2, <1>3, <1>4 DEF Reports!Next

(* Only where reports are followed does it matter what the clock is.       *)
ReportsFollowed == ReportInv /\ (busy = "reports" => clock \in Nat)

LEMMA ReportAlways == SpecAll => []ReportsFollowed
<1>1. InitAll => ReportsFollowed
  BY ReportInit DEF ReportsFollowed, InitAll, Reports!Init
<1>2. ASSUME ReportsFollowed, [NextAll]_everything
      PROVE  ReportsFollowed'
  <2>1. CASE busy = "reports" /\ Reports!Next /\ UNCHANGED busy
    BY <1>2, <2>1, ReportStep DEF ReportsFollowed
  <2>2. CASE UNCHANGED <<busy, reports>> /\ (busy = "reports" => UNCHANGED clock)
    BY <1>2, <2>2, ReportRest DEF ReportsFollowed, reports
  <2>3. QED
    BY <1>2, <2>1, <2>2 DEF NextAll, everything, controls
<1>3. QED
  BY <1>1, <1>2, PTL DEF SpecAll

(* An observation counts once and as what it first was, however it is      *)
(* retried, raced or replayed, and a question to the relay is answered once. *)
THEOREM ObservedTheorem == SpecAll => []ObservedOnce
BY ReportAlways, ReportGives, PTL DEF ReportsFollowed

-----------------------------------------------------------------------------
(* Offboarding runs.                                                       *)
Steps == {"idle", "find", "commit", "recover", "observe", "derive", "attach", "view", "compare"}

(* The tables of a run.                                                    *)
RunTypes ==
    /\ action \in [Departures!Stages ->
                     [status : {"absent", "not_started", "attempted"}, sent : Nat]]
    /\ \A s \in Departures!Stages : resolutions[s] \in Seq([satisfied : BOOLEAN, evidence : Nat])
    /\ \A s \in Departures!Stages : learnt[s] \in [count : Nat, found : BOOLEAN]
    /\ DOMAIN resolutions = Departures!Stages /\ DOMAIN learnt = Departures!Stages
    /\ holds \in [Departures!Stages -> BOOLEAN]
    /\ executor \in [Callers -> [pc : Steps, stage : Departures!Stages, saw : Nat]]

(* The suspension was sent, and found.                                     *)
Found == \E n \in DOMAIN resolutions["okta"] : resolutions["okta"][n].satisfied
Suspended == action["okta"].status = "attempted" /\ Found

(* What an executor knows of the action of the stage it is in.             *)
StandsAt(k) ==
    /\ k.pc \in {"commit", "recover"} => action[k.stage].status # "absent"
    /\ k.pc \in {"observe", "derive", "attach", "view", "compare"} =>
          action[k.stage].status = "attempted"
    /\ k.pc = "find" /\ k.stage = "github" => Suspended

RunInv ==
    /\ RunTypes
    /\ \A c \in Callers : StandsAt(executor[c])
    /\ \A s \in Departures!Stages :
          action[s].sent = IF action[s].status = "attempted" THEN 1 ELSE 0
    /\ action["github"].status # "absent" => Suspended

LEMMA RunGives == RunInv => StagesInOrder
BY DEF RunInv, RunTypes, Suspended, Found, StagesInOrder, Departures!StagesInOrder,
       Departures!Stages

LEMMA RunInit == InitAll => RunInv
BY DEF InitAll, Departures!Init, Departures!Stages, Departures!Idle, RunInv, RunTypes, Steps,
       StandsAt, Suspended

LEMMA RunRest ==
    ASSUME RunInv, UNCHANGED departures
    PROVE  RunInv'
BY DEF departures, RunInv, RunTypes, StandsAt, Suspended, Found

(* What is learnt or resolved adds to what is known; the actions stay.     *)
LEMMA AppendKeeps ==
    ASSUME NEW t \in Seq([satisfied : BOOLEAN, evidence : Nat]),
           NEW r \in [satisfied : BOOLEAN, evidence : Nat]
    PROVE  /\ Append(t, r) \in Seq([satisfied : BOOLEAN, evidence : Nat])
           /\ \A n \in DOMAIN t : n \in DOMAIN Append(t, r) /\ Append(t, r)[n] = t[n]
OBVIOUS

LEMMA LearnKeeps ==
    ASSUME RunInv, NEW s \in Departures!Stages,
           \/ Departures!Learn(s) /\ UNCHANGED resolutions
           \/ Departures!Resolve(s) /\ UNCHANGED learnt
    PROVE  /\ \A r \in Departures!Stages : /\ resolutions'[r] \in Seq([satisfied : BOOLEAN, evidence : Nat])
                                           /\ learnt'[r] \in [count : Nat, found : BOOLEAN]
           /\ DOMAIN resolutions' = Departures!Stages /\ DOMAIN learnt' = Departures!Stages
           /\ Found => Found'
<1>1. CASE Departures!Learn(s) /\ UNCHANGED resolutions
  BY <1>1 DEF Departures!Learn, RunInv, RunTypes, Found
<1>2. CASE Departures!Resolve(s) /\ UNCHANGED learnt
  <2>1. PICK r : r = [satisfied |-> learnt[s].found, evidence |-> learnt[s].count]
    OBVIOUS
  <2>2. r \in [satisfied : BOOLEAN, evidence : Nat]
    BY <2>1 DEF RunInv, RunTypes
  <2>3. resolutions' = [resolutions EXCEPT ![s] = Append(@, r)]
    BY <1>2, <2>1 DEF Departures!Resolve
  <2>4. /\ resolutions[s] \in Seq([satisfied : BOOLEAN, evidence : Nat])
        /\ DOMAIN resolutions = Departures!Stages
    BY DEF RunInv, RunTypes
  <2>5. \A q \in Departures!Stages : resolutions'[q] \in Seq([satisfied : BOOLEAN, evidence : Nat])
    BY <2>2, <2>3, <2>4, AppendKeeps DEF RunInv, RunTypes
  <2>6. Found => Found'
    <3>1. CASE s = "okta"
      BY <2>2, <2>3, <2>4, <3>1, AppendKeeps DEF Found
    <3>2. CASE s # "okta"
      BY <2>3, <3>2 DEF Found
    <3>3. QED
      BY <3>1, <3>2
  <2>7. QED
    BY <1>2, <2>3, <2>4, <2>5, <2>6 DEF RunInv, RunTypes
<1>3. QED
  BY <1>1, <1>2

(* An executor moves; the actions stay, and what was found.                *)
LEMMA ExecutorMoves ==
    ASSUME RunInv, NEW c \in Callers, NEW k \in [pc : Steps, stage : Departures!Stages, saw : Nat],
           StandsAt(k), Departures!Become(c, k),
           UNCHANGED <<action, holds, learnt, resolutions>>
    PROVE  RunInv'
BY DEF Departures!Become, RunInv, RunTypes, StandsAt, Suspended, Found

(* Where an executor can go from where it stands.                          *)
Executor == [pc : Steps, stage : Departures!Stages, saw : Nat]

LEMMA Goes ==
    ASSUME NEW j \in Executor, NEW pc \in Steps
    PROVE  LET k == [j EXCEPT !.pc = pc] IN
           k \in Executor /\ k.pc = pc /\ k.stage = j.stage
BY DEF Executor

LEMMA Enters ==
    ASSUME NEW j \in Executor, NEW s \in Departures!Stages
    PROVE  LET k == [j EXCEPT !.pc = "find", !.stage = s] IN
           k \in Executor /\ k.pc = "find" /\ k.stage = s
BY DEF Executor, Steps

LEMMA Sees ==
    ASSUME NEW j \in Executor, NEW n \in Nat
    PROVE  LET k == [j EXCEPT !.pc = "compare", !.saw = n] IN
           k \in Executor /\ k.pc = "compare" /\ k.stage = j.stage
BY DEF Executor, Steps

(* The claim of an action that was not sent sends it, once.                *)
LEMMA ClaimKeeps ==
    ASSUME RunInv, NEW c \in Callers, NEW s \in Departures!Stages, Departures!Claim(s),
           NEW k \in Executor, k.pc = "observe", k.stage = s, Departures!Become(c, k),
           UNCHANGED <<learnt, resolutions>>
    PROVE  RunInv'
<1>1. /\ action[s].status = "not_started" /\ action[s].sent = 0
      /\ action' = [action EXCEPT ![s] = [status |-> "attempted", sent |-> @.sent + 1]]
      /\ holds' \in [Departures!Stages -> BOOLEAN]
  BY DEF Departures!Claim, RunInv, RunTypes
<1>2. action'[s] = [status |-> "attempted", sent |-> 1]
      /\ \A r \in Departures!Stages : r # s => action'[r] = action[r]
  BY <1>1 DEF RunInv, RunTypes
<1>3. /\ RunTypes' /\ (Suspended => Suspended')
      /\ \A r \in Departures!Stages :
            /\ action'[r].sent = IF action'[r].status = "attempted" THEN 1 ELSE 0
            /\ action[r].status = "attempted" => action'[r].status = "attempted"
            /\ action[r].status # "absent" => action'[r].status # "absent"
  BY <1>1, <1>2
  DEF RunInv, RunTypes, Suspended, Found, Departures!Become, Departures!Stages, Executor
<1>4. \A i \in Executor : StandsAt(i) => StandsAt(i)'
  BY <1>3 DEF StandsAt, Executor
<1>5. \A d \in Callers : StandsAt(executor[d])'
  BY <1>2, <1>4 DEF RunInv, RunTypes, Departures!Become, StandsAt, Executor
<1>6. action'["github"].status # "absent" => action["github"].status # "absent"
  BY <1>1, <1>2 DEF Departures!Stages
<1>7. QED
  BY <1>3, <1>5, <1>6 DEF RunInv

LEMMA RunStep ==
    ASSUME RunInv, NEW c \in Callers, NEW s \in Departures!Stages,
           \/ Departures!Execute(c) \/ Departures!Crash(c)
           \/ Departures!Find(c, s) \/ Departures!PreflightFails(c, s)
           \/ Departures!Dispatch(c, s) \/ Departures!Recover(c, s)
           \/ Departures!Observe(c, s) \/ Departures!Derive(c, s) \/ Departures!Attach(c, s)
           \/ Departures!ReadResolution(c, s) \/ Departures!Compare(c, s)
    PROVE  RunInv'
<1>. USE DEF Departures!At, Departures!In, Departures!Goto, Departures!Enter, Departures!Return
<1>. DEFINE j == executor[c]
<1>1. j \in Executor /\ StandsAt(j) /\ {"okta", "github"} = Departures!Stages
  BY DEF RunInv, RunTypes, Executor, Departures!Stages
<1>2. \A k \in Executor :
         StandsAt(k) /\ Departures!Become(c, k) /\ UNCHANGED <<action, holds, learnt, resolutions>>
           => RunInv'
  BY ExecutorMoves DEF Executor
<1>3. Departures!Idle \in Executor /\ StandsAt(Departures!Idle)
  BY <1>1 DEF Departures!Idle, Executor, Steps, StandsAt
<1>4. CASE Departures!Execute(c)
  <2>1. PICK k : k = [j EXCEPT !.pc = "find", !.stage = "okta"]
    OBVIOUS
  <2>2. k \in Executor /\ StandsAt(k)
    BY <1>1, <2>1, Enters DEF StandsAt
  <2>3. QED
    BY <1>2, <1>4, <2>1, <2>2 DEF Departures!Execute
<1>5. CASE Departures!Crash(c) \/ Departures!PreflightFails(c, s)
  BY <1>2, <1>3, <1>5 DEF Departures!Crash, Departures!PreflightFails
<1>6. CASE Departures!Find(c, s) /\ action[s].status = "absent"
  <2>1. PICK k : k = [j EXCEPT !.pc = "commit"]
    OBVIOUS
  <2>2. k.pc = "commit" /\ k.stage = s /\ k \in Executor
    BY <1>1, <1>6, <2>1, Goes DEF Steps, Departures!Find
  <2>3. /\ executor' = [executor EXCEPT ![c] = k]
        /\ action' = [action EXCEPT ![s].status = "not_started"]
        /\ UNCHANGED <<holds, learnt, resolutions>>
    BY <1>6, <2>1 DEF Departures!Find, Departures!Become
  <2>4. /\ action'[s].status = "not_started" /\ action'[s].sent = action[s].sent
        /\ \A r \in Departures!Stages : r # s => action'[r] = action[r]
        /\ RunTypes'
    BY <1>6, <2>2, <2>3 DEF RunInv, RunTypes, Executor
  <2>5. Suspended => Suspended'
    BY <1>1, <1>6, <2>3, <2>4 DEF Suspended, Found
  <2>6. \A i \in Executor : StandsAt(i) => StandsAt(i)'
    BY <1>6, <2>4, <2>5 DEF StandsAt, Executor
  <2>7. StandsAt(k)'
    BY <2>2, <2>4 DEF StandsAt
  <2>8. \A d \in Callers : StandsAt(executor[d])'
    BY <2>3, <2>6, <2>7 DEF RunInv, RunTypes, Executor
  <2>9. action'["github"].status # "absent" => Suspended
    BY <1>1, <1>6, <2>4 DEF RunInv, StandsAt, Departures!Find
  <2>10. QED
    BY <1>6, <2>4, <2>5, <2>8, <2>9 DEF RunInv
<1>7. CASE Departures!Find(c, s) /\ action[s].status # "absent"
  <2>1. PICK k : k = [j EXCEPT !.pc = "recover"]
    OBVIOUS
  <2>2. k.pc = "recover" /\ k.stage = s /\ k \in Executor
    BY <1>1, <1>7, <2>1, Goes DEF Steps, Departures!Find
  <2>3. StandsAt(k)
    BY <1>7, <2>2 DEF StandsAt
  <2>4. QED
    BY <1>2, <1>7, <2>1, <2>2, <2>3 DEF Departures!Find
<1>8. CASE Departures!Dispatch(c, s) \/ Departures!Recover(c, s)
  <2>1. PICK k : k = [j EXCEPT !.pc = "observe"]
    OBVIOUS
  <2>2. k.pc = "observe" /\ k.stage = s /\ k \in Executor
    BY <1>1, <1>8, <2>1, Goes DEF Steps, Departures!Dispatch, Departures!Recover
  <2>3. CASE Departures!Claim(s) /\ Departures!Become(c, k)
    BY <1>8, <2>2, <2>3, ClaimKeeps DEF Departures!Dispatch, Departures!Recover
  <2>4. CASE action[s].status # "not_started" /\ UNCHANGED <<action, holds>>
             /\ Departures!Become(c, k)
    <3>1. action[s].status # "absent"
      BY <1>1, <1>8 DEF StandsAt, Departures!Dispatch, Departures!Recover
    <3>2. action[s].status = "attempted"
      BY <2>4, <3>1 DEF RunInv, RunTypes
    <3>3. StandsAt(k)
      BY <2>2, <3>2 DEF StandsAt
    <3>4. QED
      BY <1>2, <1>8, <2>2, <2>4, <3>3 DEF Departures!Dispatch, Departures!Recover
  <2>5. CASE Departures!Become(c, Departures!Idle) /\ UNCHANGED <<action, holds>>
    BY <1>2, <1>3, <1>8, <2>5 DEF Departures!Dispatch, Departures!Recover
  <2>6. QED
    BY <1>8, <2>1, <2>3, <2>4, <2>5 DEF Departures!Dispatch, Departures!Recover
<1>9. CASE Departures!Observe(c, s) \/ Departures!Derive(c, s)
  <2>1. PICK pc \in {"derive", "attach"} : Departures!Become(c, [j EXCEPT !.pc = pc])
    BY <1>9 DEF Departures!Observe, Departures!Derive
  <2>2. PICK k : k = [j EXCEPT !.pc = pc]
    OBVIOUS
  <2>3. k \in Executor /\ k.stage = s /\ k.pc = pc
    <3>1. pc \in Steps /\ j.stage = s
      BY <1>9 DEF Steps, Departures!Observe, Departures!Derive
    <3>2. QED
      BY <1>1, <2>2, <3>1, Goes
  <2>4. StandsAt(k)
    BY <1>1, <1>9, <2>3 DEF StandsAt, Departures!Observe, Departures!Derive
  <2>5. executor' = [executor EXCEPT ![c] = k] /\ UNCHANGED <<action, holds>>
    BY <1>9, <2>1, <2>2 DEF Departures!Observe, Departures!Derive, Departures!Become
  <2>6. RunTypes' /\ (Found => Found')
    BY <1>9, <2>3, <2>5, LearnKeeps
    DEF RunInv, RunTypes, Executor, Departures!Observe, Departures!Derive
  <2>7. QED
    BY <2>4, <2>5, <2>6 DEF RunInv, RunTypes, StandsAt, Suspended
<1>10. CASE Departures!Attach(c, s) \/ Departures!ReadResolution(c, s)
  <2>1. Departures!Latest(s) \in Nat
    BY DEF RunInv, RunTypes, Departures!Latest
  <2>2. CASE Departures!Attach(c, s)
    <3>1. PICK k : k = [j EXCEPT !.pc = "view"]
      OBVIOUS
    <3>2. k \in Executor /\ k.stage = s /\ k.pc = "view"
      BY <1>1, <2>2, <3>1, Goes DEF Steps, Departures!Attach
    <3>3. StandsAt(k)
      BY <1>1, <2>2, <3>2 DEF StandsAt, Departures!Attach
    <3>4. QED
      BY <1>2, <2>2, <3>1, <3>2, <3>3 DEF Departures!Attach
  <2>3. CASE Departures!ReadResolution(c, s)
    <3>1. PICK k : k = [j EXCEPT !.pc = "compare", !.saw = Departures!Latest(s)]
      OBVIOUS
    <3>2. k \in Executor /\ k.stage = s /\ k.pc = "compare"
      BY <1>1, <2>1, <2>3, <3>1, Sees DEF Departures!ReadResolution
    <3>3. StandsAt(k)
      BY <1>1, <2>3, <3>2 DEF StandsAt, Departures!ReadResolution
    <3>4. QED
      BY <1>2, <2>3, <3>1, <3>2, <3>3 DEF Departures!ReadResolution
  <2>4. QED
    BY <1>10, <2>2, <2>3
<1>11. CASE Departures!Compare(c, s)
  <2>1. PICK k : k = [j EXCEPT !.pc = "find", !.stage = "github"]
    OBVIOUS
  <2>2. k \in Executor /\ k.pc = "find" /\ k.stage = "github"
    BY <1>1, <2>1, Enters
  <2>3. CASE s = "okta" /\ Departures!StepAllowsContinuation(c, s)
    <3>1. Suspended
      BY <1>1, <1>11, <2>3
      DEF RunInv, RunTypes, StandsAt, Suspended, Found, Departures!Compare, Executor,
          Departures!StepAllowsContinuation, Departures!Supports, Departures!Latest
    <3>2. StandsAt(k)
      BY <2>2, <3>1 DEF StandsAt
    <3>3. QED
      BY <1>2, <1>11, <2>1, <2>2, <2>3, <3>2 DEF Departures!Compare
  <2>4. CASE ~(s = "okta" /\ Departures!StepAllowsContinuation(c, s))
    BY <1>2, <1>3, <1>11, <2>4 DEF Departures!Compare
  <2>5. QED
    BY <2>3, <2>4
<1>12. QED
  BY <1>4, <1>5, <1>6, <1>7, <1>8, <1>9, <1>10, <1>11

(* Others reconcile an action, and the provider drifts.                    *)
LEMMA RunDrifts ==
    ASSUME RunInv, NEW s \in Departures!Stages, Departures!Reobserve(s) \/ Departures!Drift(s)
    PROVE  RunInv'
<1>1. CASE Departures!Reobserve(s)
  BY <1>1, LearnKeeps DEF Departures!Reobserve, RunInv, RunTypes, StandsAt, Suspended
<1>2. CASE Departures!Drift(s)
  BY <1>2 DEF Departures!Drift, RunInv, RunTypes, StandsAt, Suspended, Found
<1>3. QED
  BY <1>1, <1>2

LEMMA RunAlways == SpecAll => []RunInv
<1>1. ASSUME RunInv, [NextAll]_everything
      PROVE  RunInv'
  <2>1. CASE Departures!Next
    <3>1. CASE \E s \in Departures!Stages : Departures!Reobserve(s) \/ Departures!Drift(s)
      BY <1>1, <3>1, RunDrifts
    <3>2. CASE \E c \in Callers : Departures!Execute(c) \/ Departures!Crash(c)
      <4>1. "okta" \in Departures!Stages
        BY DEF Departures!Stages
      <4>2. QED
        BY <1>1, <3>2, <4>1, RunStep
    <3>3. QED
      BY <1>1, <2>1, <3>1, <3>2, RunStep DEF Departures!Next
  <2>2. CASE UNCHANGED departures
    BY <1>1, <2>2, RunRest
  <2>3. QED
    BY <1>1, <2>1, <2>2 DEF NextAll, everything, controls
<1>2. QED
  BY RunInit, <1>1, PTL DEF SpecAll

(* Access on GitHub is removed only after the suspension was sent and      *)
(* found, and each is sent once, for any number of executors and crashes.  *)
THEOREM StagesTheorem == SpecAll => []StagesInOrder
BY RunAlways, RunGives, PTL

-----------------------------------------------------------------------------
(* Outcomes and their evidence.                                            *)
Sayings == {"satisfied", "unsatisfied", "indeterminate"}
Bases == [now : Nat, facts : SUBSET Truth!FactType]
Evaluations == [verdict : Sayings, basis : Bases]
Instanced == [verdict : Sayings, lifecycle : {"unborn", "open", "settled", "timed_out"},
              continuation : {"allowed", "hold"}, sequence : Nat, deadline : Nat]
Judge == [pc : {"idle", "observed", "slotted", "compared", "evaluating", "locked", "judged",
                "attesting", "signing"},
          provider : Providers \union {Null}, instance : Instances \union {Null},
          observed : [value : Values, at : Nat] \union {Null},
          incumbent : Truth!FactType \union {Null}, basis : Bases \union {Null},
          row : Instanced, read : Nat \union {Null}]

EvidenceTypes ==
    /\ busy = "outcomes" => clock \in Nat /\ crashes \in Nat
    /\ work \in Nat
    /\ facts \subseteq Truth!FactType
    /\ slot \in [Providers -> Callers \union {Null}]
    /\ latch \in [Instances -> Callers \union {Null}]
    /\ instance \in [Instances -> Instanced]
    /\ evaluated \in [Instances -> Seq(Evaluations)]
    /\ receipts \subseteq [instance : Instances, sequence : Nat, verdict : Sayings,
                           invariants : Nat]
    /\ worker \in [Callers -> Judge]

(* For all evidence in S there is as new evidence of the provider in T.    *)
Dominated(S, T) ==
    \A f \in S : \E g \in T : g.provider = f.provider /\ g.observed_at >= f.observed_at

CurrentFacts == {f \in facts : f.current}

(* Whoever holds a slot knows its current fact, whoever holds an instance  *)
(* its row, and what it is evaluated on is ahead of every evaluation.      *)
Observes(w) ==
    LET k == worker[w] IN
    /\ k.pc \in {"observed", "slotted", "compared"} => 
          k.provider \in Providers /\ k.observed \in [value : Values, at : Nat]
    /\ k.pc \in {"slotted", "compared"} => slot[k.provider] = w
    /\ k.pc = "compared" =>
          \/ k.incumbent = Null /\ Truth!Current(k.provider) = {}
          \/ k.incumbent # Null /\ Truth!Current(k.provider) = {k.incumbent}

Judges(w) ==
    LET k == worker[w] IN
    /\ k.pc \in {"evaluating", "locked", "judged", "attesting", "signing"} =>
          k.instance \in Instances /\ instance[k.instance].lifecycle # "unborn"
    /\ k.pc \in {"locked", "judged"} =>
          latch[k.instance] = w /\ k.row = instance[k.instance]
    /\ k.pc \in {"locked", "judged"} => k.basis \in Bases
    /\ k.pc = "judged" =>
          /\ Dominated(k.basis.facts, CurrentFacts)
          /\ \A n \in DOMAIN evaluated[k.instance] :
                Dominated(evaluated[k.instance][n].basis.facts, k.basis.facts)

Signs(w) ==
    LET k == worker[w] IN
    /\ k.pc \in {"attesting", "signing"} =>
          /\ k.row.sequence <= Len(evaluated[k.instance])
          /\ k.row.sequence > 0 =>
                k.row.verdict = evaluated[k.instance][k.row.sequence].verdict
    /\ k.pc = "signing" => k.read \in Nat

(* An instance counts its evaluations and says what the last one said.     *)
CountedIn(i) ==
    /\ instance[i].sequence = Len(evaluated[i])
    /\ instance[i].lifecycle = "unborn" => instance[i].sequence = 0
    /\ Len(evaluated[i]) # 0 => instance[i].verdict = evaluated[i][Len(evaluated[i])].verdict
    /\ instance[i].continuation = Truth!ContinuationFor(instance[i].verdict)

Advancing(i) ==
    \A n \in DOMAIN evaluated[i] :
        /\ Dominated(evaluated[i][n].basis.facts, CurrentFacts)
        /\ \A m \in 1..(n - 1) :
              Dominated(evaluated[i][m].basis.facts, evaluated[i][n].basis.facts)

Attested ==
    \A r \in receipts :
        /\ r.sequence <= Len(evaluated[r.instance])
        /\ r.sequence > 0 => r.verdict = evaluated[r.instance][r.sequence].verdict

OneLive == \A i, j \in Instances :
    instance[i].lifecycle = "open" /\ instance[j].lifecycle = "open" => i = j

EvidenceInv ==
    /\ EvidenceTypes /\ Truth!SlotHoldsNewest
    /\ \A w \in Callers : Observes(w) /\ Judges(w) /\ Signs(w)
    /\ \A i \in Instances : CountedIn(i) /\ Advancing(i)
    /\ Attested /\ OneLive

LEMMA EvidenceGives == EvidenceInv => Truth!SlotHoldsNewest /\ Truth!EvidenceAdvances
<1>. SUFFICES ASSUME EvidenceInv PROVE Truth!SlotHoldsNewest /\ Truth!EvidenceAdvances
  OBVIOUS
<1>1. ASSUME NEW i \in Instances, NEW n \in DOMAIN evaluated[i], NEW m \in 1..(n - 1),
             NEW p \in Providers, NEW earlier \in Truth!NewestOf(evaluated[i][m].basis, p)
      PROVE  \E later \in Truth!NewestOf(evaluated[i][n].basis, p) : later >= earlier
  <2>1. PICK f \in evaluated[i][m].basis.facts : f.provider = p /\ f.observed_at = earlier
    BY DEF Truth!NewestOf
  <2>2. Dominated(evaluated[i][m].basis.facts, evaluated[i][n].basis.facts)
    BY DEF EvidenceInv, Advancing
  <2>3. PICK g \in evaluated[i][n].basis.facts :
           g.provider = p /\ g.observed_at >= f.observed_at
    BY <2>1, <2>2 DEF Dominated
  <2>4. g.observed_at \in Truth!NewestOf(evaluated[i][n].basis, p)
    BY <2>3 DEF Truth!NewestOf
  <2>5. QED
    BY <2>1, <2>3, <2>4
<1>2. QED
  BY <1>1 DEF EvidenceInv, Truth!EvidenceAdvances

LEMMA DominatedThrough ==
    ASSUME NEW S \in SUBSET Truth!FactType, NEW T \in SUBSET Truth!FactType,
           NEW U \in SUBSET Truth!FactType, Dominated(S, T), Dominated(T, U)
    PROVE  Dominated(S, U)
<1>1. ASSUME NEW f \in S
      PROVE  \E g \in U : g.provider = f.provider /\ g.observed_at >= f.observed_at
  <2>1. PICK g \in T : g.provider = f.provider /\ g.observed_at >= f.observed_at
    BY DEF Dominated
  <2>2. PICK h \in U : h.provider = g.provider /\ h.observed_at >= g.observed_at
    BY DEF Dominated
  <2>3. f.observed_at \in Nat /\ g.observed_at \in Nat /\ h.observed_at \in Nat
    BY DEF Truth!FactType
  <2>4. QED
    BY <2>1, <2>2, <2>3
<1>2. QED
  BY <1>1 DEF Dominated

LEMMA DominatedItself ==
    ASSUME NEW S \in SUBSET Truth!FactType
    PROVE  Dominated(S, S)
<1>1. ASSUME NEW f \in S
      PROVE  f.provider = f.provider /\ f.observed_at >= f.observed_at
  <2>1. f.observed_at \in Nat
    BY DEF Truth!FactType
  <2>2. QED
    BY <2>1
<1>2. QED
  BY <1>1 DEF Dominated

LEMMA EvidenceInit == InitAll => EvidenceInv
<1>. SUFFICES ASSUME InitAll PROVE EvidenceInv
  OBVIOUS
<1>1. /\ clock = 0 /\ facts = {} /\ receipts = {} /\ work = 0 /\ crashes = 0
      /\ slot = [p \in Providers |-> Null] /\ latch = [i \in Instances |-> Null]
      /\ instance = [i \in Instances |-> Truth!Unborn]
      /\ evaluated = [i \in Instances |-> <<>>]
      /\ worker = [w \in Callers |-> Truth!Idle]
  BY DEF InitAll, Truth!Init
<1>2. Truth!Unborn \in Instanced
  BY DEF Truth!Unborn, Instanced, Sayings
<1>3. Truth!Idle \in Judge /\ Truth!Idle.pc = "idle"
  BY <1>2 DEF Truth!Idle, Judge
<1>4. EvidenceTypes
  BY <1>1, <1>2, <1>3 DEF EvidenceTypes
<1>5. \A w \in Callers : Observes(w) /\ Judges(w) /\ Signs(w)
  BY <1>1, <1>3 DEF Observes, Judges, Signs
<1>6. \A i \in Instances : CountedIn(i) /\ Advancing(i)
  BY <1>1 DEF CountedIn, Advancing, Truth!Unborn, Truth!ContinuationFor
<1>7. Truth!SlotHoldsNewest
  BY <1>1 DEF Truth!SlotHoldsNewest
<1>8. Attested /\ OneLive
  BY <1>1 DEF Attested, OneLive, Truth!Unborn
<1>9. QED
  BY <1>4, <1>5, <1>6, <1>7, <1>8 DEF EvidenceInv

LEMMA JudgeStep ==
    ASSUME NEW w \in Callers, NEW k \in Judge, EvidenceTypes, Truth!Become(w, k)
    PROVE  /\ worker' \in [Callers -> Judge] /\ worker'[w] = k
           /\ \A d \in Callers \ {w} : worker'[d] = worker[d]
<1>1. worker \in [Callers -> Judge]
  BY DEF EvidenceTypes
<1>2. worker' = [worker EXCEPT ![w] = k]
  BY DEF Truth!Become
<1>3. QED
  BY <1>1, <1>2

LEMMA IdleJudge == Truth!Idle \in Judge /\ Truth!Idle.pc = "idle"
  BY DEF Truth!Idle, Truth!Unborn, Judge, Instanced, Sayings

(* One worker moves, and takes or releases locks; the tables stay.         *)
LEMMA JudgeMoves ==
    ASSUME EvidenceInv, NEW w \in Callers, NEW k \in Judge, Truth!Become(w, k),
           UNCHANGED <<facts, instance, evaluated>>,
           receipts' \subseteq [instance : Instances, sequence : Nat, verdict : Sayings,
                                invariants : Nat], Attested',
           UNCHANGED busy, clock' = clock, crashes' \in {crashes, crashes + 1},
           work' \in {work, work + 1},
           slot' \in [Providers -> Callers \union {Null}],
           latch' \in [Instances -> Callers \union {Null}],
           \A p \in Providers : slot[p] \notin {Null, w} => slot'[p] = slot[p],
           \A i \in Instances : latch[i] \notin {Null, w} => latch'[i] = latch[i],
           Observes(w)', Judges(w)', Signs(w)'
    PROVE  EvidenceInv'
<1>1. EvidenceTypes /\ Truth!SlotHoldsNewest /\ OneLive
  BY DEF EvidenceInv
<1>2. /\ worker' \in [Callers -> Judge] /\ worker'[w] = k
      /\ \A d \in Callers \ {w} : worker'[d] = worker[d]
  BY <1>1, JudgeStep
<1>3. EvidenceTypes'
  BY <1>1, <1>2 DEF EvidenceTypes
<1>4. Truth!SlotHoldsNewest' /\ OneLive'
  BY <1>1 DEF Truth!SlotHoldsNewest, Truth!Current, OneLive
<1>5. ASSUME NEW d \in Callers PROVE Observes(d)' /\ Judges(d)' /\ Signs(d)'
  <2>1. CASE d = w
    BY <2>1
  <2>2. CASE d # w
    <3>1. Observes(d) /\ Judges(d) /\ Signs(d) /\ worker'[d] = worker[d]
      BY <1>2, <2>2 DEF EvidenceInv
    <3>2. Observes(d)'
      BY <2>2, <3>1, AdmissionNull DEF Observes, Truth!Current
    <3>3. Judges(d)'
      BY <2>2, <3>1, AdmissionNull DEF Judges, CurrentFacts
    <3>4. Signs(d)'
      BY <3>1 DEF Signs
    <3>5. QED
      BY <3>2, <3>3, <3>4
  <2>3. QED
    BY <2>1, <2>2
<1>6. ASSUME NEW i \in Instances PROVE CountedIn(i)' /\ Advancing(i)'
  <2>1. CountedIn(i) /\ Advancing(i)
    BY DEF EvidenceInv
  <2>2. QED
    BY <2>1 DEF CountedIn, Advancing, CurrentFacts, Truth!ContinuationFor
<1>7. QED
  BY <1>3, <1>4, <1>5, <1>6 DEF EvidenceInv

(* A worker that begins, goes on or ends; with no lock gained or lost.      *)
LEMMA JudgeOnly ==
    ASSUME EvidenceInv, NEW w \in Callers, NEW k \in Judge, Truth!Become(w, k),
           UNCHANGED <<busy, clock, crashes, facts, instance, evaluated, receipts, slot, latch>>,
           work' \in {work, work + 1}, Observes(w)', Judges(w)', Signs(w)'
    PROVE  EvidenceInv'
<1>1. EvidenceTypes /\ Attested
  BY DEF EvidenceInv
<1>2. Attested'
  BY <1>1 DEF Attested
<1>3. QED
  BY <1>1, <1>2, JudgeMoves DEF EvidenceTypes

LEMMA EvidenceObserve ==
    ASSUME EvidenceInv, NEW w \in Callers, Truth!Observe(w), UNCHANGED busy
    PROVE  EvidenceInv'
<1>1. PICK p \in Providers, v \in Values, at \in 0..clock :
         Truth!Become(w, [Truth!Idle EXCEPT !.pc = "observed", !.provider = p,
                                           !.observed = [value |-> v, at |-> at]])
  BY DEF Truth!Observe
<1>2. PICK k : k = [Truth!Idle EXCEPT !.pc = "observed", !.provider = p,
                                     !.observed = [value |-> v, at |-> at]]
  OBVIOUS
<1>3. UNCHANGED <<clock, crashes, facts, instance, evaluated, receipts, slot, latch>>
      /\ work' = work + 1
  BY DEF Truth!Observe, Truth!Begins, Truth!store
<1>4. at \in Nat
  OBVIOUS
<1>5. k \in Judge /\ k.pc = "observed" /\ k.provider = p /\ k.observed = [value |-> v, at |-> at]
  BY <1>2, <1>4, IdleJudge DEF Judge
<1>6. [value |-> v, at |-> at] \in [value : Values, at : Nat]
  BY <1>4
<1>7. worker'[w] = k
  BY <1>1, <1>2, <1>5, JudgeStep DEF EvidenceInv
<1>8. Observes(w)' /\ Judges(w)' /\ Signs(w)'
  BY <1>4, <1>5, <1>6, <1>7 DEF Observes, Judges, Signs
<1>9. QED
  BY <1>1, <1>2, <1>3, <1>5, <1>8, JudgeOnly

LEMMA EvidenceSlot ==
    ASSUME EvidenceInv, NEW w \in Callers, Truth!LockSlot(w), UNCHANGED busy
    PROVE  EvidenceInv'
<1>1. PICK k : k = [worker[w] EXCEPT !.pc = "slotted"]
  OBVIOUS
<1>2. /\ worker[w].pc = "observed" /\ slot[worker[w].provider] = Null
      /\ slot' = [slot EXCEPT ![worker[w].provider] = w] /\ Truth!Become(w, k)
      /\ UNCHANGED <<clock, facts, instance, evaluated, receipts, latch, work, crashes>>
  BY <1>1 DEF Truth!LockSlot, Truth!At, Truth!Goto, Truth!store
<1>3. EvidenceTypes /\ Observes(w) /\ Attested
  BY DEF EvidenceInv
<1>4. /\ worker[w] \in Judge /\ worker[w].provider \in Providers /\ worker[w].observed \in [value : Values, at : Nat]
  BY <1>2, <1>3 DEF EvidenceTypes, Observes
<1>5. /\ k \in Judge /\ k.pc = "slotted" /\ k.provider = worker[w].provider
      /\ k.observed = worker[w].observed
  BY <1>1, <1>4 DEF Judge
<1>6. /\ slot' \in [Providers -> Callers \union {Null}] /\ slot'[k.provider] = w
      /\ \A p \in Providers : slot[p] # Null => slot'[p] = slot[p]
  BY <1>2, <1>3, <1>4, <1>5 DEF EvidenceTypes
<1>7. worker'[w] = k
  BY <1>2, <1>3, <1>5, JudgeStep
<1>8. Observes(w)' /\ Judges(w)' /\ Signs(w)'
  BY <1>4, <1>5, <1>6, <1>7 DEF Observes, Judges, Signs
<1>9. Attested'
  BY <1>2, <1>3 DEF Attested
<1>10. QED
  BY <1>2, <1>3, <1>5, <1>6, <1>8, <1>9, JudgeMoves DEF EvidenceTypes

(* Of a provider that was heard at most one fact is current.               *)
LEMMA CurrentIsOne ==
    ASSUME EvidenceInv, NEW p \in Providers, Truth!Current(p) # {}
    PROVE  LET f == CHOOSE f \in Truth!Current(p) : TRUE IN
           f \in Truth!FactType /\ Truth!Current(p) = {f}
<1>1. {f \in facts : f.provider = p} # {}
  BY DEF Truth!Current
<1>2. PICK f \in Truth!Current(p) : Truth!Current(p) = {f}
  BY <1>1 DEF EvidenceInv, Truth!SlotHoldsNewest
<1>3. (CHOOSE g \in Truth!Current(p) : TRUE) = f
  BY <1>2
<1>4. f \in Truth!FactType
  BY DEF EvidenceInv, EvidenceTypes, Truth!Current
<1>5. QED
  BY <1>2, <1>3, <1>4

LEMMA EvidenceIncumbent ==
    ASSUME EvidenceInv, NEW w \in Callers, Truth!ReadIncumbent(w), UNCHANGED busy
    PROVE  EvidenceInv'
<1>1. PICK p : p = worker[w].provider
  OBVIOUS
<1>2. PICK old : old = IF Truth!Current(p) = {} THEN Null
                       ELSE CHOOSE f \in Truth!Current(p) : TRUE
  OBVIOUS
<1>3. PICK k : k = [worker[w] EXCEPT !.pc = "compared", !.incumbent = old]
  OBVIOUS
<1>4. /\ worker[w].pc = "slotted" /\ Truth!Become(w, k)
      /\ UNCHANGED <<clock, facts, instance, evaluated, receipts, slot, latch, work, crashes>>
  BY <1>1, <1>2, <1>3 DEF Truth!ReadIncumbent, Truth!At, Truth!store
<1>5. /\ worker[w] \in Judge /\ p \in Providers /\ worker[w].observed \in [value : Values, at : Nat] /\ slot[p] = w
  BY <1>1, <1>4 DEF EvidenceInv, EvidenceTypes, Observes
<1>6. /\ old \in Truth!FactType \union {Null}
      /\ \/ old = Null /\ Truth!Current(p) = {}
         \/ old # Null /\ Truth!Current(p) = {old}
  <2>1. CASE Truth!Current(p) = {}
    BY <2>1, <1>2
  <2>2. CASE Truth!Current(p) # {}
    <3>1. old \in Truth!FactType /\ Truth!Current(p) = {old}
      BY <2>2, <1>2, <1>5, CurrentIsOne
    <3>2. Null \notin Truth!FactType
      BY GovernanceNull DEF Truth!FactType
    <3>3. QED
      BY <3>1, <3>2
  <2>3. QED
    BY <2>1, <2>2
<1>7. /\ k \in Judge /\ k.pc = "compared" /\ k.provider = p /\ k.incumbent = old
      /\ k.observed = worker[w].observed
  BY <1>1, <1>3, <1>5, <1>6 DEF Judge
<1>8. worker'[w] = k
  BY <1>4, <1>7, JudgeStep DEF EvidenceInv
<1>9. Observes(w)' /\ Judges(w)' /\ Signs(w)'
  BY <1>4, <1>5, <1>6, <1>7, <1>8 DEF Observes, Judges, Signs, Truth!Current
<1>10. QED
  BY <1>4, <1>7, <1>9, JudgeOnly

LEMMA EvidenceStart ==
    ASSUME EvidenceInv, NEW w \in Callers, Truth!StartEvaluation(w), UNCHANGED busy
    PROVE  EvidenceInv'
<1>1. PICK i \in Instances :
         /\ instance[i].lifecycle # "unborn"
         /\ Truth!Become(w, [Truth!Idle EXCEPT !.pc = "evaluating", !.instance = i])
  BY DEF Truth!StartEvaluation
<1>2. PICK k : k = [Truth!Idle EXCEPT !.pc = "evaluating", !.instance = i]
  OBVIOUS
<1>3. UNCHANGED <<clock, crashes, facts, instance, evaluated, receipts, slot, latch>>
      /\ work' = work + 1
  BY DEF Truth!StartEvaluation, Truth!Begins, Truth!store
<1>4. k \in Judge /\ k.pc = "evaluating" /\ k.instance = i
  BY <1>2, IdleJudge DEF Judge
<1>5. worker'[w] = k
  BY <1>1, <1>2, <1>4, JudgeStep DEF EvidenceInv
<1>6. Observes(w)' /\ Judges(w)' /\ Signs(w)'
  BY <1>1, <1>3, <1>4, <1>5 DEF Observes, Judges, Signs
<1>7. QED
  BY <1>1, <1>2, <1>3, <1>4, <1>6, JudgeOnly

LEMMA EvidenceLock ==
    ASSUME EvidenceInv, NEW w \in Callers, Truth!LockInstance(w), UNCHANGED busy,
           busy = "outcomes"
    PROVE  EvidenceInv'
<1>1. PICK i : i = worker[w].instance
  OBVIOUS
<1>. PICK b : b = [now |-> clock, facts |-> {}]
  OBVIOUS
<1>2. PICK k : k = [worker[w] EXCEPT !.pc = "locked", !.row = instance[i], !.basis = b]
  OBVIOUS
<1>3. /\ worker[w].pc = "evaluating" /\ latch[i] = Null
      /\ latch' = [latch EXCEPT ![i] = w] /\ Truth!Become(w, k)
      /\ UNCHANGED <<clock, facts, instance, evaluated, receipts, slot, work, crashes>>
  BY <1>1, <1>2 DEF Truth!LockInstance, Truth!At, Truth!store
<1>4. EvidenceTypes /\ Judges(w) /\ Attested
  BY DEF EvidenceInv
<1>5. worker[w] \in Judge /\ i \in Instances /\ instance[i].lifecycle # "unborn"
  BY <1>1, <1>3, <1>4 DEF EvidenceTypes, Judges
<1>. b \in Bases
  BY <1>4 DEF Bases, EvidenceTypes
<1>6. /\ k \in Judge /\ k.pc = "locked" /\ k.instance = i /\ k.row = instance[i]
      /\ k.basis \in Bases
  BY <1>1, <1>2, <1>4, <1>5 DEF Judge, EvidenceTypes
<1>7. /\ latch' \in [Instances -> Callers \union {Null}] /\ latch'[i] = w
      /\ \A j \in Instances : latch[j] # Null => latch'[j] = latch[j]
  BY <1>3, <1>4, <1>5 DEF EvidenceTypes
<1>8. worker'[w] = k
  BY <1>3, <1>4, <1>6, JudgeStep
<1>9. Observes(w)' /\ Judges(w)' /\ Signs(w)'
  BY <1>3, <1>5, <1>6, <1>7, <1>8 DEF Observes, Judges, Signs
<1>10. Attested'
  BY <1>3, <1>4 DEF Attested
<1>11. QED
  BY <1>3, <1>4, <1>6, <1>7, <1>9, <1>10, JudgeMoves DEF EvidenceTypes

LEMMA EvidenceBasis ==
    ASSUME EvidenceInv, NEW w \in Callers, Truth!ReadFacts(w), UNCHANGED busy,
           busy = "outcomes"
    PROVE  EvidenceInv'
<1>1. PICK a, b : a = worker[w].basis /\ b = [a EXCEPT !.facts = Truth!CurrentFacts]
  OBVIOUS
<1>2. PICK k : k = [worker[w] EXCEPT !.pc = "judged", !.basis = b]
  OBVIOUS
<1>3. /\ worker[w].pc = "locked" /\ Truth!Become(w, k)
      /\ UNCHANGED <<clock, facts, instance, evaluated, receipts, slot, latch, work, crashes>>
  BY <1>1, <1>2 DEF Truth!ReadFacts, Truth!At, Truth!store
<1>4. EvidenceTypes /\ Judges(w)
  BY DEF EvidenceInv
<1>5. b \in Bases /\ b.facts = CurrentFacts
  BY <1>1, <1>3, <1>4 DEF EvidenceTypes, Judges, Truth!CurrentFacts, Bases, CurrentFacts
<1>6. /\ worker[w] \in Judge /\ worker[w].instance \in Instances
      /\ instance[worker[w].instance].lifecycle # "unborn"
      /\ latch[worker[w].instance] = w /\ worker[w].row = instance[worker[w].instance]
  BY <1>3, <1>4 DEF EvidenceTypes, Judges
<1>7. /\ k \in Judge /\ k.pc = "judged" /\ k.instance = worker[w].instance
      /\ k.row = worker[w].row /\ k.basis = b
  BY <1>2, <1>5, <1>6 DEF Judge
<1>8. worker'[w] = k
  BY <1>3, <1>4, <1>7, JudgeStep
<1>9. Dominated(CurrentFacts, CurrentFacts)
  BY <1>4, DominatedItself DEF EvidenceTypes, CurrentFacts
<1>10. \A n \in DOMAIN evaluated[k.instance] :
          Dominated(evaluated[k.instance][n].basis.facts, CurrentFacts)
  BY <1>6, <1>7 DEF EvidenceInv, Advancing
<1>11. CurrentFacts' = CurrentFacts
  BY <1>3 DEF CurrentFacts
<1>12. Judges(w)'
  BY <1>3, <1>5, <1>6, <1>7, <1>8, <1>9, <1>10, <1>11 DEF Judges
<1>13. Observes(w)' /\ Signs(w)'
  BY <1>7, <1>8 DEF Observes, Signs
<1>14. QED
  BY <1>3, <1>7, <1>12, <1>13, JudgeOnly

LEMMA EvidenceReads ==
    ASSUME EvidenceInv, NEW w \in Callers, Truth!ReadInstance(w), UNCHANGED busy
    PROVE  EvidenceInv'
<1>1. PICK i \in Instances :
         /\ instance[i].lifecycle # "unborn"
         /\ Truth!Become(w, [Truth!Idle EXCEPT !.pc = "attesting", !.instance = i,
                                               !.row = instance[i]])
  BY DEF Truth!ReadInstance
<1>2. PICK k : k = [Truth!Idle EXCEPT !.pc = "attesting", !.instance = i, !.row = instance[i]]
  OBVIOUS
<1>3. UNCHANGED <<clock, crashes, facts, instance, evaluated, receipts, slot, latch>>
      /\ work' = work + 1
  BY DEF Truth!ReadInstance, Truth!Begins, Truth!store
<1>4. /\ instance[i] \in Instanced /\ CountedIn(i)
      /\ evaluated[i] \in Seq(Evaluations) /\ Len(evaluated[i]) \in Nat
  <2>1. instance[i] \in Instanced /\ CountedIn(i) /\ evaluated[i] \in Seq(Evaluations)
    BY DEF EvidenceInv, EvidenceTypes
  <2>2. QED
    BY <2>1, LenProperties
<1>5. k \in Judge /\ k.pc = "attesting" /\ k.instance = i /\ k.row = instance[i]
  BY <1>2, <1>4, IdleJudge DEF Judge
<1>6. worker'[w] = k
  BY <1>1, <1>2, <1>5, JudgeStep DEF EvidenceInv
<1>7. /\ instance[i].sequence <= Len(evaluated[i])
      /\ instance[i].sequence > 0 =>
            instance[i].verdict = evaluated[i][instance[i].sequence].verdict
  BY <1>4 DEF CountedIn
<1>8. Observes(w)' /\ Judges(w)'
  BY <1>1, <1>3, <1>5, <1>6 DEF Observes, Judges
<1>9. Signs(w)'
  BY <1>3, <1>5, <1>6, <1>7 DEF Signs
<1>10. QED
  BY <1>1, <1>2, <1>3, <1>5, <1>8, <1>9, JudgeOnly

LEMMA EvidenceGone ==
    ASSUME EvidenceInv, NEW w \in Callers, Truth!Return(w), UNCHANGED busy,
           UNCHANGED <<clock, facts, instance, evaluated>>,
           receipts' \subseteq [instance : Instances, sequence : Nat, verdict : Sayings,
                                invariants : Nat], Attested',
           crashes' \in {crashes, crashes + 1}, work' = work,
           slot' \in [Providers -> Callers \union {Null}],
           latch' \in [Instances -> Callers \union {Null}],
           \A p \in Providers : slot[p] \notin {Null, w} => slot'[p] = slot[p],
           \A i \in Instances : latch[i] \notin {Null, w} => latch'[i] = latch[i]
    PROVE  EvidenceInv'
<1>1. Truth!Become(w, Truth!Idle)
  BY DEF Truth!Return
<1>2. worker'[w] = Truth!Idle
  BY <1>1, IdleJudge, JudgeStep DEF EvidenceInv
<1>3. Observes(w)' /\ Judges(w)' /\ Signs(w)'
  BY <1>2, IdleJudge DEF Observes, Judges, Signs
<1>4. QED
  BY <1>1, <1>3, IdleJudge, JudgeMoves

LEMMA EvidenceNewest ==
    ASSUME EvidenceInv, NEW w \in Callers, Truth!ReadEvaluation(w), UNCHANGED busy
    PROVE  EvidenceInv'
<1>1. PICK i : i = worker[w].instance
  OBVIOUS
<1>2. /\ worker[w].pc = "attesting"
      /\ UNCHANGED <<clock, facts, instance, evaluated, receipts, slot, latch, work, crashes>>
  BY DEF Truth!ReadEvaluation, Truth!At, Truth!store
<1>3. EvidenceTypes /\ Judges(w) /\ Signs(w) /\ Attested
  BY DEF EvidenceInv
<1>4. CASE Truth!Return(w)
  <2>1. Attested'
    BY <1>2, <1>3 DEF Attested
  <2>2. QED
    BY <1>2, <1>3, <1>4, <2>1, EvidenceGone DEF EvidenceTypes
<1>5. CASE Truth!Become(w, [worker[w] EXCEPT !.pc = "signing", !.read = Len(evaluated[i])])
  <2>1. PICK k : k = [worker[w] EXCEPT !.pc = "signing", !.read = Len(evaluated[i])]
    OBVIOUS
  <2>2. worker[w] \in Judge /\ i \in Instances /\ instance[i].lifecycle # "unborn"
    BY <1>1, <1>2, <1>3 DEF EvidenceTypes, Judges
  <2>3. Len(evaluated[i]) \in Nat
    <3>1. evaluated[i] \in Seq(Evaluations)
      BY <2>2, <1>3 DEF EvidenceTypes
    <3>2. QED
      BY <3>1, LenProperties
  <2>4. /\ k \in Judge /\ k.pc = "signing" /\ k.instance = i /\ k.row = worker[w].row
        /\ k.read = Len(evaluated[i])
    BY <1>1, <2>1, <2>2, <2>3 DEF Judge
  <2>5. worker'[w] = k
    BY <1>3, <1>5, <2>1, <2>4, JudgeStep
  <2>6. Observes(w)' /\ Judges(w)'
    BY <1>2, <2>2, <2>4, <2>5 DEF Observes, Judges
  <2>7. Signs(w)'
    BY <1>1, <1>2, <1>3, <2>3, <2>4, <2>5 DEF Signs
  <2>8. QED
    BY <1>2, <1>5, <2>1, <2>4, <2>6, <2>7, JudgeOnly
<1>6. QED
  BY <1>1, <1>4, <1>5 DEF Truth!ReadEvaluation

LEMMA EvidenceReceipt ==
    ASSUME EvidenceInv, NEW w \in Callers, Truth!IssueReceipt(w), UNCHANGED busy
    PROVE  EvidenceInv'
<1>1. PICK k : k = worker[w]
  OBVIOUS
<1>2. PICK r : r = [instance |-> k.instance, sequence |-> k.row.sequence,
                    verdict |-> k.row.verdict, invariants |-> k.read]
  OBVIOUS
<1>3. /\ k.pc = "signing" /\ Truth!Return(w) /\ receipts' \in {receipts, receipts \union {r}}
      /\ UNCHANGED <<clock, facts, instance, evaluated, slot, latch, work, crashes>>
  BY <1>1, <1>2 DEF Truth!IssueReceipt, Truth!At
<1>4. EvidenceTypes /\ Judges(w) /\ Signs(w) /\ Attested
  BY DEF EvidenceInv
<1>5. /\ k.instance \in Instances /\ k.read \in Nat /\ k.row \in Instanced
      /\ k.row.sequence <= Len(evaluated[k.instance])
      /\ k.row.sequence > 0 =>
            k.row.verdict = evaluated[k.instance][k.row.sequence].verdict
  BY <1>1, <1>3, <1>4 DEF EvidenceTypes, Judges, Signs, Judge
<1>6. r \in [instance : Instances, sequence : Nat, verdict : Sayings, invariants : Nat]
  BY <1>2, <1>5 DEF Instanced
<1>7. receipts' \subseteq [instance : Instances, sequence : Nat, verdict : Sayings,
                           invariants : Nat]
  BY <1>3, <1>4, <1>6 DEF EvidenceTypes
<1>8. Attested'
  BY <1>2, <1>3, <1>4, <1>5 DEF Attested
<1>9. QED
  BY <1>3, <1>4, <1>7, <1>8, EvidenceGone DEF EvidenceTypes

LEMMA EvidenceCrash ==
    ASSUME EvidenceInv, NEW w \in Callers, Truth!Crash(w), UNCHANGED busy
    PROVE  EvidenceInv'
<1>1. /\ Truth!Return(w) /\ crashes' = crashes + 1
      /\ UNCHANGED <<clock, facts, instance, evaluated, receipts, work>>
      /\ slot' = [p \in Providers |-> IF slot[p] = w THEN Null ELSE slot[p]]
      /\ latch' = [i \in Instances |-> IF latch[i] = w THEN Null ELSE latch[i]]
  BY DEF Truth!Crash, Truth!store
<1>2. EvidenceTypes /\ Attested
  BY DEF EvidenceInv
<1>3. /\ slot' \in [Providers -> Callers \union {Null}]
      /\ latch' \in [Instances -> Callers \union {Null}]
      /\ \A p \in Providers : slot[p] \notin {Null, w} => slot'[p] = slot[p]
      /\ \A i \in Instances : latch[i] \notin {Null, w} => latch'[i] = latch[i]
  BY <1>1, <1>2 DEF EvidenceTypes
<1>4. Attested'
  BY <1>1, <1>2 DEF Attested
<1>5. QED
  BY <1>1, <1>2, <1>3, <1>4, EvidenceGone DEF EvidenceTypes

-----------------------------------------------------------------------------
(* Recording: the fact that was current gives way only to a later one.     *)
LEMMA SlotMoves ==
    ASSUME EvidenceInv, NEW w \in Callers, Truth!RecordFact(w)
    PROVE  LET p == worker[w].provider IN
           /\ p \in Providers /\ slot[p] = w
           /\ facts' \subseteq Truth!FactType
           /\ Truth!SlotHoldsNewest'
           /\ \A q \in Providers : q # p => Truth!Current(q)' = Truth!Current(q)
           /\ Dominated(CurrentFacts, CurrentFacts')
<1>1. PICK k : k = worker[w]
  OBVIOUS
<1>2. PICK p : p = k.provider
  OBVIOUS
<1>3. PICK F : F = Truth!Fact(w)
  OBVIOUS
<1>4. EvidenceTypes /\ Observes(w) /\ Truth!SlotHoldsNewest /\ k.pc = "compared"
  BY <1>1 DEF EvidenceInv, Truth!RecordFact, Truth!At
<1>5. /\ k \in Judge /\ p \in Providers /\ slot[p] = w
      /\ k.observed \in [value : Values, at : Nat]
      /\ \/ k.incumbent = Null /\ Truth!Current(p) = {}
         \/ k.incumbent # Null /\ Truth!Current(p) = {k.incumbent}
  BY <1>1, <1>2, <1>4 DEF EvidenceTypes, Observes
<1>6. /\ F.provider = p /\ F.observed_at = k.observed.at /\ F.observed_at \in Nat
      /\ F.current = ~Truth!Stale(w) /\ F \in Truth!FactType
  <2>1. F = [subject |-> Subject, provider |-> p, property |-> Property,
             value |-> k.observed.value, observed_at |-> k.observed.at,
             fresh_until |-> k.observed.at + Freshness, authoritative |-> TRUE,
             current |-> ~Truth!Stale(w)]
    BY <1>1, <1>2, <1>3 DEF Truth!Fact
  <2>2. k.observed.at + Freshness \in Nat
    BY <1>5, GovernanceBounds
  <2>3. Truth!Stale(w) \in BOOLEAN
    BY DEF Truth!Stale
  <2>4. QED
    BY <2>1, <2>2, <2>3, <1>5 DEF Truth!FactType
<1>7. \A f \in facts : f \in Truth!FactType /\ f.observed_at \in Nat
  BY <1>4 DEF EvidenceTypes, Truth!FactType
<1>8. CASE k.incumbent = Null
  <2>1. Truth!Current(p) = {} /\ ~Truth!Stale(w) /\ facts' = facts \union {F} /\ F.current
    BY <1>1, <1>3, <1>5, <1>6, <1>8 DEF Truth!RecordFact, Truth!Stale
  <2>2. {f \in facts : f.provider = p} = {}
    BY <1>4, <1>5, <2>1 DEF Truth!SlotHoldsNewest
  <2>3. \A q \in Providers : q # p => Truth!Current(q)' = Truth!Current(q)
    BY <2>1, <1>6 DEF Truth!Current
  <2>4. Truth!Current(p)' = {F}
    BY <2>1, <2>2, <1>6 DEF Truth!Current
  <2>5. ASSUME NEW q \in Providers, {f \in facts' : f.provider = q} # {}
        PROVE  \E f \in Truth!Current(q)' :
                  /\ Truth!Current(q)' = {f}
                  /\ \A g \in {h \in facts' : h.provider = q} : g.observed_at <= f.observed_at
    <3>1. CASE q = p
      BY <3>1, <2>1, <2>2, <2>4, <1>6
    <3>2. CASE q # p
      <4>1. {f \in facts' : f.provider = q} = {f \in facts : f.provider = q}
        BY <3>2, <2>1, <1>6
      <4>2. QED
        BY <3>2, <4>1, <2>3, <2>5, <1>4 DEF Truth!SlotHoldsNewest
    <3>3. QED
      BY <3>1, <3>2
  <2>6. CurrentFacts \subseteq CurrentFacts'
    BY <2>1 DEF CurrentFacts
  <2>7. Dominated(CurrentFacts, CurrentFacts')
    <3>1. Dominated(CurrentFacts, CurrentFacts)
      BY <1>4, DominatedItself DEF EvidenceTypes, CurrentFacts
    <3>2. QED
      BY <3>1, <2>6 DEF Dominated
  <2>8. facts' \subseteq Truth!FactType
    BY <2>1, <1>6, <1>7
  <2>9. Truth!SlotHoldsNewest'
    BY <2>5 DEF Truth!SlotHoldsNewest
  <2>10. QED
    BY <1>1, <1>2, <1>5, <2>3, <2>7, <2>8, <2>9
<1>9. CASE k.incumbent # Null
  <2>1. PICK old : old = k.incumbent
    OBVIOUS
  <2>2. /\ Truth!Current(p) = {old} /\ old \in facts /\ old.current /\ old.provider = p
        /\ old \in Truth!FactType
        /\ Truth!Stale(w) <=> F.observed_at <= old.observed_at
    BY <1>1, <1>5, <1>6, <1>7, <1>9, <2>1 DEF Truth!Current, Truth!Stale
  <2>3. \A g \in facts : g.provider = p => g.observed_at <= old.observed_at
    <3>1. {f \in facts : f.provider = p} # {}
      BY <2>2
    <3>2. QED
      BY <3>1, <2>2, <1>4, <1>5 DEF Truth!SlotHoldsNewest
  <2>4. PICK past : past = [old EXCEPT !.current = FALSE]
    OBVIOUS
  <2>5. /\ past.provider = p /\ ~past.current /\ past.observed_at = old.observed_at
        /\ past \in Truth!FactType
    BY <2>2, <2>4 DEF Truth!FactType
  <2>6. facts' = IF Truth!Stale(w) THEN facts \union {F}
                 ELSE ((facts \ {old}) \union {past}) \union {F}
    BY <1>1, <1>3, <1>9, <2>1, <2>4 DEF Truth!RecordFact
  <2>7. facts' \subseteq Truth!FactType
    BY <2>6, <2>5, <1>6, <1>7
  <2>8. \A q \in Providers : q # p => Truth!Current(q)' = Truth!Current(q)
    BY <2>2, <2>5, <2>6, <1>6 DEF Truth!Current
  <2>9. Truth!Current(p)' = IF Truth!Stale(w) THEN {old} ELSE {F}
    BY <2>2, <2>5, <2>6, <1>6 DEF Truth!Current
  <2>10. PICK newest : newest = IF Truth!Stale(w) THEN old ELSE F
    OBVIOUS
  <2>11. /\ Truth!Current(p)' = {newest} /\ newest.observed_at >= old.observed_at
         /\ newest.observed_at >= F.observed_at /\ newest \in Truth!FactType
         /\ newest \in CurrentFacts' /\ newest.provider = p
    <3>1. old.observed_at \in Nat
      BY <2>2 DEF Truth!FactType
    <3>2. CASE Truth!Stale(w)
      <4>1. newest = old /\ F.observed_at <= old.observed_at /\ old \in facts'
        BY <3>2, <2>2, <2>6, <2>10
      <4>2. QED
        BY <3>1, <3>2, <4>1, <2>2, <2>9 DEF CurrentFacts
    <3>3. CASE ~Truth!Stale(w)
      <4>1. newest = F /\ ~(F.observed_at <= old.observed_at) /\ F \in facts' /\ F.current
        BY <3>3, <2>2, <2>6, <2>10, <1>6
      <4>2. F.observed_at >= old.observed_at
        BY <3>1, <4>1, <1>6
      <4>3. QED
        BY <3>3, <4>1, <4>2, <2>9, <1>6 DEF CurrentFacts
    <3>4. QED
      BY <3>2, <3>3
  <2>12. ASSUME NEW q \in Providers, {f \in facts' : f.provider = q} # {}
         PROVE  \E f \in Truth!Current(q)' :
                  /\ Truth!Current(q)' = {f}
                  /\ \A g \in {h \in facts' : h.provider = q} : g.observed_at <= f.observed_at
    <3>1. CASE q = p
      <4>1. ASSUME NEW g \in facts', g.provider = p
            PROVE  g.observed_at <= newest.observed_at
        <5>1. /\ g.observed_at \in Nat /\ old.observed_at \in Nat
              /\ newest.observed_at \in Nat /\ F.observed_at \in Nat
          BY <4>1, <2>2, <2>7, <2>11, <1>6 DEF Truth!FactType
        <5>2. g \in facts \/ g = past \/ g = F
          BY <4>1, <2>6
        <5>3. g.observed_at <= old.observed_at \/ g.observed_at = F.observed_at
          BY <5>1, <5>2, <4>1, <2>3, <2>5
        <5>4. QED
          BY <5>1, <5>3, <2>11
      <4>2. QED
        BY <3>1, <4>1, <2>11
    <3>2. CASE q # p
      <4>1. {f \in facts' : f.provider = q} = {f \in facts : f.provider = q}
        BY <3>2, <2>2, <2>5, <2>6, <1>6
      <4>2. QED
        BY <3>2, <4>1, <2>8, <2>12, <1>4 DEF Truth!SlotHoldsNewest
    <3>3. QED
      BY <3>1, <3>2
  <2>13. ASSUME NEW f \in CurrentFacts
         PROVE  \E g \in CurrentFacts' :
                   g.provider = f.provider /\ g.observed_at >= f.observed_at
    <3>1. CASE f = old
      BY <3>1, <2>2, <2>11
    <3>2. CASE f # old
      <4>1. f \in CurrentFacts' /\ f.observed_at \in Nat
        BY <3>2, <2>6, <1>7 DEF CurrentFacts
      <4>2. QED
        BY <4>1
    <3>3. QED
      BY <3>1, <3>2
  <2>14. Dominated(CurrentFacts, CurrentFacts')
    BY <2>13 DEF Dominated
  <2>15. Truth!SlotHoldsNewest'
    BY <2>12 DEF Truth!SlotHoldsNewest
  <2>16. QED
    BY <1>1, <1>2, <1>5, <2>7, <2>8, <2>14, <2>15
<1>10. QED
  BY <1>8, <1>9

LEMMA EvidenceRecord ==
    ASSUME EvidenceInv, NEW w \in Callers, Truth!RecordFact(w), UNCHANGED busy
    PROVE  EvidenceInv'
<1>1. PICK p : p = worker[w].provider
  OBVIOUS
<1>2. /\ p \in Providers /\ slot[p] = w /\ facts' \subseteq Truth!FactType
      /\ Truth!SlotHoldsNewest'
      /\ \A q \in Providers : q # p => Truth!Current(q)' = Truth!Current(q)
      /\ Dominated(CurrentFacts, CurrentFacts')
  BY <1>1, SlotMoves
<1>3. /\ slot' = [slot EXCEPT ![p] = Null] /\ Truth!Become(w, Truth!Idle)
      /\ UNCHANGED <<clock, latch, instance, evaluated, receipts, work, crashes>>
  BY <1>1 DEF Truth!RecordFact, Truth!Return
<1>4. EvidenceTypes /\ OneLive /\ Attested
  BY DEF EvidenceInv
<1>5. /\ worker' \in [Callers -> Judge] /\ worker'[w] = Truth!Idle
      /\ \A d \in Callers \ {w} : worker'[d] = worker[d]
  BY <1>3, <1>4, IdleJudge, JudgeStep
<1>6. slot' \in [Providers -> Callers \union {Null}]
      /\ \A q \in Providers : q # p => slot'[q] = slot[q]
  BY <1>2, <1>3, <1>4 DEF EvidenceTypes
<1>7. EvidenceTypes'
  BY <1>2, <1>3, <1>4, <1>5, <1>6 DEF EvidenceTypes
<1>8. CurrentFacts \subseteq Truth!FactType /\ CurrentFacts' \subseteq Truth!FactType
  BY <1>2, <1>4 DEF EvidenceTypes, CurrentFacts
<1>9. ASSUME NEW d \in Callers PROVE Observes(d)' /\ Judges(d)' /\ Signs(d)'
  <2>1. CASE d = w
    BY <2>1, <1>5, IdleJudge DEF Observes, Judges, Signs
  <2>2. CASE d # w
    <3>1. PICK k : k = worker[d]
      OBVIOUS
    <3>2. Observes(d) /\ Judges(d) /\ Signs(d) /\ worker'[d] = k
      BY <1>5, <2>2, <3>1 DEF EvidenceInv
    <3>3. k.pc \in {"slotted", "compared"} => /\ k.provider # p /\ slot'[k.provider] = d
                                             /\ Truth!Current(k.provider)' = Truth!Current(k.provider)
      BY <1>2, <1>6, <2>2, <3>1, <3>2 DEF Observes
    <3>4. Observes(d)'
      BY <3>1, <3>2, <3>3 DEF Observes
    <3>5. k.pc = "judged" => Dominated(k.basis.facts, CurrentFacts')
      <4>1. SUFFICES ASSUME k.pc = "judged" PROVE Dominated(k.basis.facts, CurrentFacts')
        OBVIOUS
      <4>2. k.basis.facts \subseteq Truth!FactType /\ Dominated(k.basis.facts, CurrentFacts)
        BY <3>1, <3>2, <4>1 DEF Judges, Bases
      <4>3. QED
        BY <4>2, <1>2, <1>8, DominatedThrough
    <3>6. Judges(d)'
      BY <3>1, <3>2, <3>5, <1>3 DEF Judges
    <3>7. Signs(d)'
      BY <3>1, <3>2, <1>3 DEF Signs
    <3>8. QED
      BY <3>4, <3>6, <3>7
  <2>3. QED
    BY <2>1, <2>2
<1>10. ASSUME NEW i \in Instances PROVE CountedIn(i)' /\ Advancing(i)'
  <2>1. CountedIn(i) /\ Advancing(i)
    BY DEF EvidenceInv
  <2>2. CountedIn(i)'
    BY <2>1, <1>3 DEF CountedIn, Truth!ContinuationFor
  <2>3. ASSUME NEW n \in DOMAIN evaluated[i]
        PROVE  Dominated(evaluated[i][n].basis.facts, CurrentFacts')
    <3>1. evaluated[i] \in Seq(Evaluations)
      BY <1>4 DEF EvidenceTypes
    <3>2. evaluated[i][n] \in Evaluations
      BY <3>1, LenProperties, ElementOfSeq
    <3>3. evaluated[i][n].basis.facts \subseteq Truth!FactType
          /\ Dominated(evaluated[i][n].basis.facts, CurrentFacts)
      BY <2>1, <3>2 DEF Advancing, Evaluations, Bases
    <3>4. QED
      BY <3>3, <1>2, <1>8, DominatedThrough
  <2>4. Advancing(i)'
    BY <2>1, <2>3, <1>3 DEF Advancing
  <2>5. QED
    BY <2>2, <2>4
<1>11. Attested' /\ OneLive'
  BY <1>3, <1>4 DEF Attested, OneLive
<1>12. QED
  BY <1>2, <1>7, <1>9, <1>10, <1>11 DEF EvidenceInv

-----------------------------------------------------------------------------
LEMMA EvidenceOpen ==
    ASSUME EvidenceInv, NEW i \in Instances, Truth!OpenInstance(i), UNCHANGED busy,
           busy = "outcomes"
    PROVE  EvidenceInv'
<1>1. PICK new : new = [Truth!Unborn EXCEPT !.lifecycle = "open", !.deadline = clock + Deadline]
  OBVIOUS
<1>2. /\ instance[i].lifecycle = "unborn" /\ work' = work + 1
      /\ \A j \in Instances : instance[j].lifecycle # "open"
      /\ instance' = [instance EXCEPT ![i] = new]
      /\ UNCHANGED <<clock, facts, slot, latch, evaluated, receipts, worker, crashes>>
  BY <1>1 DEF Truth!OpenInstance, Truth!Live
<1>3. EvidenceTypes /\ CountedIn(i) /\ Attested /\ Truth!SlotHoldsNewest
  BY DEF EvidenceInv
<1>4. clock + Deadline \in Nat
  <2>1. Deadline \in Nat
    BY GovernanceBounds
  <2>2. clock \in Nat
    BY <1>3 DEF EvidenceTypes
  <2>3. QED
    BY <2>1, <2>2
<1>5. /\ new \in Instanced /\ new.lifecycle = "open" /\ new.sequence = 0
      /\ new.verdict = "indeterminate" /\ new.continuation = "hold"
  BY <1>1, <1>4 DEF Truth!Unborn, Instanced, Sayings
<1>6. /\ instance' \in [Instances -> Instanced] /\ instance'[i] = new
      /\ \A j \in Instances : j # i => instance'[j] = instance[j]
  BY <1>2, <1>3, <1>5 DEF EvidenceTypes
<1>7. EvidenceTypes'
  BY <1>2, <1>3, <1>6 DEF EvidenceTypes
<1>8. Len(evaluated[i]) = 0
  BY <1>2, <1>3 DEF CountedIn
<1>9. ASSUME NEW j \in Instances PROVE CountedIn(j)' /\ Advancing(j)'
  <2>1. CountedIn(j) /\ Advancing(j)
    BY DEF EvidenceInv
  <2>2. Advancing(j)'
    BY <2>1, <1>2 DEF Advancing, CurrentFacts
  <2>3. CountedIn(j)'
    BY <2>1, <1>2, <1>5, <1>6, <1>8 DEF CountedIn, Truth!ContinuationFor
  <2>4. QED
    BY <2>2, <2>3
<1>10. ASSUME NEW d \in Callers PROVE Observes(d)' /\ Judges(d)' /\ Signs(d)'
  <2>1. Observes(d) /\ Judges(d) /\ Signs(d) /\ worker'[d] = worker[d]
    BY <1>2 DEF EvidenceInv
  <2>2. worker[d].pc \in {"evaluating", "locked", "judged", "attesting", "signing"} =>
           /\ worker[d].instance \in Instances /\ worker[d].instance # i
           /\ instance'[worker[d].instance] = instance[worker[d].instance]
    BY <2>1, <1>2, <1>6 DEF Judges
  <2>3. Observes(d)'
    BY <2>1, <1>2 DEF Observes, Truth!Current
  <2>4. Judges(d)'
    BY <2>1, <2>2, <1>2 DEF Judges, CurrentFacts
  <2>5. Signs(d)'
    BY <2>1, <1>2 DEF Signs
  <2>6. QED
    BY <2>3, <2>4, <2>5
<1>11. OneLive'
  BY <1>2, <1>6 DEF OneLive
<1>12. Attested' /\ Truth!SlotHoldsNewest'
  BY <1>2, <1>3 DEF Attested, Truth!SlotHoldsNewest, Truth!Current
<1>13. QED
  BY <1>7, <1>9, <1>10, <1>11, <1>12 DEF EvidenceInv

(* The evaluation that is written rests on evidence that was current after *)
(* the instance was locked, and so after every earlier evaluation.         *)
LEMMA EvidenceWrite ==
    ASSUME EvidenceInv, NEW w \in Callers, Truth!WriteEvaluation(w), UNCHANGED busy
    PROVE  EvidenceInv'
<1>1. PICK k : k = worker[w]
  OBVIOUS
<1>2. PICK i : i = k.instance
  OBVIOUS
<1>3. /\ k.pc = "judged" /\ Truth!Written(i, k.row, k.basis)
      /\ latch' = [latch EXCEPT ![i] = Null] /\ Truth!Return(w)
      /\ UNCHANGED <<clock, facts, slot, receipts, work, crashes>>
  BY <1>1, <1>2 DEF Truth!WriteEvaluation, Truth!At
<1>4. EvidenceTypes /\ Judges(w) /\ Attested /\ Truth!SlotHoldsNewest /\ OneLive
  BY DEF EvidenceInv
<1>5. /\ i \in Instances /\ instance[i].lifecycle # "unborn" /\ latch[i] = w
      /\ k.row = instance[i] /\ k.basis \in Bases /\ Dominated(k.basis.facts, CurrentFacts)
      /\ \A n \in DOMAIN evaluated[i] :
            Dominated(evaluated[i][n].basis.facts, k.basis.facts)
  BY <1>1, <1>2, <1>3, <1>4 DEF Judges
<1>6. /\ latch' \in [Instances -> Callers \union {Null}]
      /\ \A j \in Instances : j # i => latch'[j] = latch[j]
  BY <1>3, <1>4, <1>5 DEF EvidenceTypes
<1>7. CASE UNCHANGED <<instance, evaluated>>
  <2>1. Attested'
    BY <1>3, <1>4, <1>7 DEF Attested
  <2>2. \A j \in Instances : latch[j] \notin {Null, w} => latch'[j] = latch[j]
    BY <1>5, <1>6
  <2>3. QED
    BY <1>3, <1>4, <1>6, <1>7, <2>1, <2>2, EvidenceGone DEF EvidenceTypes
<1>8. CASE ~UNCHANGED <<instance, evaluated>>
  <2>1. PICK v : v = Truth!VerdictOf(k.basis)
    OBVIOUS
  <2>2. PICK new : new = [k.row EXCEPT !.verdict = v,
                            !.lifecycle = Truth!Lifecycle(v, k.row, k.basis.now),
                            !.continuation = Truth!ContinuationFor(v),
                            !.sequence = k.row.sequence + 1]
    OBVIOUS
  <2>3. PICK e : e = [verdict |-> v, basis |-> k.basis]
    OBVIOUS
  <2>4. k.row \in Instanced
    BY <1>4, <1>5 DEF EvidenceTypes
  <2>5. /\ instance' = [instance EXCEPT ![i] = new]
        /\ evaluated' = [evaluated EXCEPT ![i] = Append(evaluated[i], e)]
        /\ new.lifecycle = "open" => Truth!Live \ {i} = {}
    BY <1>8, <1>3, <1>4, <1>5, <2>1, <2>2, <2>3, <2>4
    DEF Truth!Written, EvidenceTypes, Instanced
  <2>6. v \in Sayings
    BY <2>1 DEF Truth!VerdictOf, Truth!EvaluateOutcome, Truth!CombineVerdict, Sayings
  <2>7. Truth!Lifecycle(v, k.row, k.basis.now) \in {"open", "settled", "timed_out"}
    BY DEF Truth!Lifecycle
  <2>8. Truth!ContinuationFor(v) \in {"allowed", "hold"}
    BY DEF Truth!ContinuationFor
  <2>9. /\ new \in Instanced /\ new.lifecycle # "unborn" /\ new.verdict = v
        /\ new.sequence = instance[i].sequence + 1
        /\ new.continuation = Truth!ContinuationFor(v)
    <3>1. k.row.sequence + 1 \in Nat
      BY <2>4 DEF Instanced
    <3>2. /\ new \in Instanced /\ new.verdict = v /\ new.sequence = k.row.sequence + 1
          /\ new.lifecycle = Truth!Lifecycle(v, k.row, k.basis.now)
          /\ new.continuation = Truth!ContinuationFor(v)
      BY <2>2, <2>4, <2>6, <2>7, <2>8, <3>1 DEF Instanced
    <3>3. QED
      BY <1>5, <2>7, <3>2
  <2>10. e \in Evaluations /\ e.verdict = v /\ e.basis = k.basis
    BY <1>5, <2>3, <2>6 DEF Evaluations
  <2>11. PICK length : length = Len(evaluated[i])
    OBVIOUS
  <2>12. /\ evaluated[i] \in Seq(Evaluations) /\ length \in Nat
         /\ DOMAIN evaluated[i] = 1..length
    <3>1. evaluated[i] \in Seq(Evaluations)
      BY <1>4, <1>5 DEF EvidenceTypes
    <3>2. QED
      BY <2>11, <3>1, LenProperties
  <2>13. /\ Append(evaluated[i], e) \in Seq(Evaluations)
         /\ Len(Append(evaluated[i], e)) = length + 1
         /\ \A n \in 1..length : Append(evaluated[i], e)[n] = evaluated[i][n]
         /\ Append(evaluated[i], e)[length + 1] = e
    BY <2>10, <2>11, <2>12, AppendProperties
  <2>14. /\ instance' \in [Instances -> Instanced] /\ instance'[i] = new
         /\ \A j \in Instances : j # i => instance'[j] = instance[j]
    BY <1>4, <1>5, <2>5, <2>9 DEF EvidenceTypes
  <2>15. /\ evaluated' \in [Instances -> Seq(Evaluations)]
         /\ \A j \in Instances : j # i => evaluated'[j] = evaluated[j]
         /\ Len(evaluated'[i]) = length + 1 /\ DOMAIN evaluated'[i] = 1..(length + 1)
         /\ \A n \in 1..length : evaluated'[i][n] = evaluated[i][n]
         /\ evaluated'[i][length + 1] = e
    <3>1. /\ evaluated' \in [Instances -> Seq(Evaluations)]
          /\ evaluated'[i] = Append(evaluated[i], e)
          /\ \A j \in Instances : j # i => evaluated'[j] = evaluated[j]
      BY <1>4, <1>5, <2>5, <2>13 DEF EvidenceTypes
    <3>2. QED
      BY <3>1, <2>13, LenProperties
  <2>16. /\ worker' \in [Callers -> Judge] /\ worker'[w] = Truth!Idle
         /\ \A d \in Callers \ {w} : worker'[d] = worker[d]
    BY <1>3, <1>4, IdleJudge, JudgeStep DEF Truth!Return
  <2>17. EvidenceTypes'
    BY <1>3, <1>4, <1>6, <2>14, <2>15, <2>16 DEF EvidenceTypes
  <2>18. CurrentFacts' = CurrentFacts
    BY <1>3 DEF CurrentFacts
  <2>19. ASSUME NEW j \in Instances PROVE CountedIn(j)' /\ Advancing(j)'
    <3>1. CountedIn(j) /\ Advancing(j)
      BY DEF EvidenceInv
    <3>2. CASE j # i
      BY <3>1, <3>2, <2>14, <2>15, <2>18 DEF CountedIn, Advancing, Truth!ContinuationFor
    <3>3. CASE j = i
      <4>1. CountedIn(i)'
        BY <3>1, <3>3, <2>9, <2>10, <2>11, <2>12, <2>14, <2>15
        DEF CountedIn, Truth!ContinuationFor
      <4>2. ASSUME NEW n \in DOMAIN evaluated'[i]
            PROVE  /\ Dominated(evaluated'[i][n].basis.facts, CurrentFacts)
                   /\ \A m \in 1..(n - 1) :
                         Dominated(evaluated'[i][m].basis.facts, evaluated'[i][n].basis.facts)
        <5>1. CASE n \in 1..length
          <6>1. evaluated'[i][n] = evaluated[i][n] /\ n \in DOMAIN evaluated[i]
            BY <5>1, <2>12, <2>15
          <6>2. \A m \in 1..(n - 1) : evaluated'[i][m] = evaluated[i][m]
            BY <5>1, <2>12, <2>15
          <6>3. QED
            BY <3>1, <3>3, <6>1, <6>2 DEF Advancing
        <5>2. CASE n = length + 1
          <6>1. evaluated'[i][n].basis = k.basis
            BY <5>2, <2>10, <2>15
          <6>2. \A m \in 1..(n - 1) : /\ evaluated'[i][m] = evaluated[i][m]
                                      /\ m \in DOMAIN evaluated[i]
            BY <5>2, <2>12, <2>15
          <6>3. QED
            BY <1>5, <6>1, <6>2
        <5>3. QED
          BY <5>1, <5>2, <2>12, <2>15
      <4>3. Advancing(i)'
        BY <4>2, <2>18 DEF Advancing
      <4>4. QED
        BY <3>3, <4>1, <4>3
    <3>4. QED
      BY <3>2, <3>3
  <2>20. ASSUME NEW j \in Instances, NEW n \in Nat, n <= Len(evaluated[j])
         PROVE  /\ n <= Len(evaluated'[j])
                /\ n > 0 => evaluated'[j][n] = evaluated[j][n]
    BY <2>20, <2>11, <2>12, <2>15
  <2>21. ASSUME NEW d \in Callers PROVE Observes(d)' /\ Judges(d)' /\ Signs(d)'
    <3>1. CASE d = w
      BY <3>1, <2>16, IdleJudge DEF Observes, Judges, Signs
    <3>2. CASE d # w
      <4>1. Observes(d) /\ Judges(d) /\ Signs(d) /\ worker'[d] = worker[d]
        BY <2>16, <3>2 DEF EvidenceInv
      <4>2. worker[d].pc \in {"locked", "judged"} => worker[d].instance # i
        BY <3>2, <4>1, <1>5 DEF Judges
      <4>3. Observes(d)'
        BY <4>1, <1>3 DEF Observes, Truth!Current
      <4>4. Judges(d)'
        <5>1. PICK j : j = worker[d].instance
          OBVIOUS
        <5>2. worker[d].pc \in {"evaluating", "locked", "judged", "attesting", "signing"} =>
                 j \in Instances /\ instance'[j].lifecycle # "unborn"
          BY <4>1, <5>1, <2>9, <2>14 DEF Judges
        <5>3. worker[d].pc \in {"locked", "judged"} =>
                 /\ latch'[j] = d /\ worker[d].row = instance'[j]
                 /\ evaluated'[j] = evaluated[j]
          BY <4>1, <4>2, <5>1, <5>2, <1>6, <2>14, <2>15 DEF Judges
        <5>4. QED
          BY <4>1, <5>1, <5>2, <5>3, <2>18 DEF Judges
      <4>5. Signs(d)'
        <5>1. worker[d].pc \in {"attesting", "signing"} =>
                 worker[d].instance \in Instances /\ worker[d].row.sequence \in Nat
          BY <4>1, <1>4 DEF Judges, EvidenceTypes, Judge, Instanced
        <5>2. QED
          BY <4>1, <5>1, <2>20 DEF Signs
      <4>6. QED
        BY <4>3, <4>4, <4>5
    <3>3. QED
      BY <3>1, <3>2
  <2>22. Attested'
    <3>1. \A r \in receipts : r.instance \in Instances /\ r.sequence \in Nat
      BY <1>4 DEF EvidenceTypes
    <3>2. QED
      BY <1>3, <1>4, <3>1, <2>20 DEF Attested
  <2>23. OneLive'
    <3>1. new.lifecycle = "open" => \A j \in Instances : j # i => instance[j].lifecycle # "open"
      BY <2>5 DEF Truth!Live
    <3>2. QED
      BY <1>4, <3>1, <2>14 DEF OneLive
  <2>24. Truth!SlotHoldsNewest'
    BY <1>3, <1>4 DEF Truth!SlotHoldsNewest, Truth!Current
  <2>25. QED
    BY <2>17, <2>19, <2>21, <2>22, <2>23, <2>24 DEF EvidenceInv
<1>9. QED
  BY <1>7, <1>8

(* Nothing of the outcomes moves; the clock may.                           *)
LEMMA EvidenceRest ==
    ASSUME EvidenceInv, UNCHANGED <<busy, outcomes>>,
           busy = "outcomes" => clock' \in {clock, clock + 1} /\ crashes' = crashes
    PROVE  EvidenceInv'
<1>1. UNCHANGED <<facts, slot, latch, instance, evaluated, receipts, worker, work>>
  BY DEF outcomes
<1>2. EvidenceTypes'
  BY <1>1 DEF EvidenceInv, EvidenceTypes
<1>3. ASSUME NEW d \in Callers PROVE Observes(d)' /\ Judges(d)' /\ Signs(d)'
  <2>1. Observes(d) /\ Judges(d) /\ Signs(d)
    BY DEF EvidenceInv
  <2>2. QED
    BY <1>1, <2>1 DEF Observes, Judges, Signs, Truth!Current, CurrentFacts
<1>4. ASSUME NEW i \in Instances PROVE CountedIn(i)' /\ Advancing(i)'
  <2>1. CountedIn(i) /\ Advancing(i)
    BY DEF EvidenceInv
  <2>2. QED
    BY <1>1, <2>1 DEF CountedIn, Advancing, CurrentFacts, Truth!ContinuationFor
<1>5. Truth!SlotHoldsNewest' /\ Attested' /\ OneLive'
  BY <1>1 DEF EvidenceInv, Truth!SlotHoldsNewest, Truth!Current, Attested, OneLive
<1>6. QED
  BY <1>2, <1>3, <1>4, <1>5 DEF EvidenceInv

LEMMA EvidenceStep == EvidenceInv /\ [NextAll]_everything => EvidenceInv'
<1>. SUFFICES ASSUME EvidenceInv, [NextAll]_everything PROVE EvidenceInv'
  OBVIOUS
<1>1. CASE busy = "outcomes" /\ Truth!Next /\ UNCHANGED busy
  <2>1. CASE Truth!Tick
    BY <1>1, <2>1, EvidenceRest DEF Truth!Tick, Truth!store, outcomes
  <2>2. ASSUME NEW w \in Callers, Truth!Evaluate(w) PROVE EvidenceInv'
    BY <1>1, <2>2, EvidenceLock, EvidenceBasis, EvidenceWrite DEF Truth!Evaluate
  <2>3. QED
    BY <1>1, <2>1, <2>2, EvidenceObserve, EvidenceSlot, EvidenceIncumbent, EvidenceRecord,
       EvidenceStart, EvidenceReads, EvidenceNewest, EvidenceReceipt, EvidenceCrash,
       EvidenceOpen DEF Truth!Next
<1>2. CASE busy # "outcomes" /\ UNCHANGED <<busy, outcomes>>
  BY <1>2, EvidenceRest
<1>3. CASE UNCHANGED <<busy, outcomes, clock, crashes>>
  BY <1>3, EvidenceRest
<1>4. QED
  <2>1. CASE NextAll /\ busy = "outcomes"
    BY <2>1, <1>1 DEF NextAll
  <2>2. CASE NextAll /\ busy # "outcomes"
    BY <2>2, <1>2 DEF NextAll, controls
  <2>3. CASE UNCHANGED everything
    BY <2>3, <1>3 DEF everything, controls
  <2>4. QED
    BY <2>1, <2>2, <2>3

LEMMA EvidenceAlways == SpecAll => []EvidenceInv
<1>1. QED
  BY EvidenceInit, EvidenceStep, PTL DEF SpecAll

(* Of each provider the newest observation is the current fact, and no      *)
(* evaluation of an outcome rests on older evidence than an earlier one.   *)
THEOREM EvidenceTheorem == SpecAll => []EvidenceAdvances
<1>1. EvidenceInv => EvidenceAdvances
  BY EvidenceGives DEF EvidenceAdvances
<1>2. QED
  BY <1>1, EvidenceAlways, PTL

-----------------------------------------------------------------------------
(* Google sign-in.                                                         *)
Mailboxes == {Mails[u] : u \in DOMAIN Mails} \union {MailOf[s] : s \in Subjects}
SomeUser == Google!Users \union {Null}
Attempts == [linking : SomeUser, consumed : BOOLEAN]
Handoffs == [subject : Subjects, consumed : BOOLEAN]
Rows == [subject : Subjects, user : Google!Users, live : BOOLEAN]
Calling == [pc : {"idle", "exchanging", "reading", "subject", "email", "resolved", "bound",
                  "naming"},
            linking : SomeUser, subject : Subjects \union {Null}, bySubject : SomeUser,
            byEmail : SomeUser, gone : SUBSET Nat]

AccountTypes ==
    /\ accounts \in Seq(Mailboxes)
    /\ bindings \in Seq(Rows)
    /\ DOMAIN attempt = States
    /\ \A s \in States : attempt[s] # Null => attempt[s] \in Attempts
    /\ DOMAIN handle = Handles
    /\ \A h \in Handles : handle[h] # Null => handle[h] \in Handoffs
    /\ DOMAIN call = Callers
    /\ call = [c \in Callers |-> call[c]]

(* The account was bound to the user while the callback ran: the binding   *)
(* is none of those that had ended before.                                 *)
Held(subject, user, gone) ==
    \E i \in DOMAIN bindings \ gone : bindings[i].subject = subject /\ bindings[i].user = user

CallOK(k) ==
    /\ k \in Calling
    /\ \A i \in k.gone : i \in DOMAIN bindings /\ ~bindings[i].live
    /\ k.pc \notin {"idle", "exchanging"} => k.subject \in Subjects
    /\ k.pc \in {"email", "resolved"} /\ k.bySubject # Null =>
          Held(k.subject, k.bySubject, k.gone)
    /\ k.pc = "bound" => Held(k.subject, k.linking, k.gone) /\ k.linking # Null

OneToOne ==
    \A i, j \in Google!Live :
        bindings[i].subject = bindings[j].subject \/ bindings[i].user = bindings[j].user => i = j

SignInv ==
    /\ AccountTypes
    /\ \A c \in Callers : CallOK(call[c])
    /\ OneToOne
    /\ \A s \in sessions : Held(s.subject, s.user, s.gone)
    /\ \A s \in sessions : s.subject \in Subjects

LEMMA SignGives == SignInv => Google!IdentitiesHold
BY DEF SignInv, OneToOne, Held, Google!IdentitiesHold

LEMMA SignInit == InitAll => SignInv
<1>. SUFFICES ASSUME InitAll PROVE SignInv
  OBVIOUS
<1>1. /\ accounts = Mails /\ attempt = [s \in States |-> Null] /\ bindings = <<>>
      /\ handle = [h \in Handles |-> Null] /\ sessions = {} 
      /\ call = [c \in Callers |-> Google!Idle]
  BY DEF InitAll, Google!Init
<1>2. AccountTypes
  BY <1>1, GovernanceMails DEF AccountTypes, Mailboxes
<1>3. CallOK(Google!Idle)
  BY <1>1 DEF CallOK, Google!Idle, Calling, SomeUser
<1>4. OneToOne
  BY <1>1 DEF OneToOne, Google!Live
<1>5. QED
  BY <1>1, <1>2, <1>3, <1>4 DEF SignInv

LEMMA SignRest ==
    ASSUME SignInv, UNCHANGED google
    PROVE  SignInv'
BY DEF google, SignInv, AccountTypes, CallOK, Held, OneToOne, Google!Live, Calling, SomeUser, Rows, Attempts,
       Google!Users

(* Accounts and bindings are only added; a binding that ended stays ended. *)
Onwards ==
    /\ Google!Users \subseteq Google!Users'
    /\ DOMAIN bindings \subseteq DOMAIN bindings'
    /\ \A i \in DOMAIN bindings :
          /\ bindings'[i].subject = bindings[i].subject /\ bindings'[i].user = bindings[i].user
          /\ bindings'[i].live => bindings[i].live

LEMMA HeldStays ==
    ASSUME Onwards, NEW subject, NEW user, NEW gone, Held(subject, user, gone)
    PROVE  Held(subject, user, gone)'
BY DEF Onwards, Held

LEMMA CallStays ==
    ASSUME Onwards, NEW k, CallOK(k)
    PROVE  CallOK(k)'
<1>1. k \in Calling'
  BY DEF Onwards, CallOK, Calling, SomeUser
<1>2. QED
  BY <1>1, HeldStays DEF Onwards, CallOK

(* One call becomes another, and its answer may be a session.              *)
LEMMA CallsMove ==
    ASSUME SignInv, Onwards, AccountTypes', OneToOne', NEW c \in Callers, NEW k, CallOK(k)',
           Google!Become(c, k),
           \A s \in sessions' : s \in sessions \/ (Held(s.subject, s.user, s.gone)' /\ s.subject \in Subjects)
    PROVE  SignInv'
<1>1. \A d \in Callers : call'[d] = IF d = c THEN k ELSE call[d]
  BY DEF Google!Become, SignInv, AccountTypes
<1>2. \A d \in Callers : CallOK(call[d])'
  BY <1>1, CallStays DEF SignInv
<1>3. \A s \in sessions' : Held(s.subject, s.user, s.gone)' /\ s.subject \in Subjects
  BY HeldStays DEF SignInv
<1>4. QED
  BY <1>2, <1>3 DEF SignInv

(* Nothing but calls, attempts, hand-offs and sessions change.             *)
LEMMA Undisturbed ==
    ASSUME SignInv, UNCHANGED <<accounts, bindings>>
    PROVE  Onwards /\ OneToOne' /\ \A k : CallOK(k) => CallOK(k)'
<1>1. Onwards /\ OneToOne'
  BY DEF Onwards, SignInv, OneToOne, Google!Live, Google!Users
<1>2. QED
  BY <1>1, CallStays

LEMMA CallSteps ==
    ASSUME SignInv, NEW c \in Callers, NEW k, CallOK(k), Google!Become(c, k),
           UNCHANGED <<accounts, bindings, attempt, handle, sessions>>
    PROVE  SignInv'
<1>1. AccountTypes'
  BY DEF SignInv, AccountTypes, Google!Become, SomeUser, Rows, Attempts, Google!Users
<1>2. QED
  BY <1>1, Undisturbed, CallsMove

(* A binding of an account and a user that have none: still one to one, and *)
(* it had not ended before.                                                *)
LEMMA BoundKeeps ==
    ASSUME SignInv, NEW subject \in Subjects, NEW user \in Google!Users',
           ~Google!Clash(subject, user), Google!Bound(subject, user),
           Google!Users \subseteq Google!Users'
    PROVE  /\ Onwards /\ OneToOne' /\ bindings' \in Seq(Rows)'
           /\ \A gone : gone \subseteq DOMAIN bindings => Held(subject, user, gone)'
<1>1. PICK row : row = [subject |-> subject, user |-> user, live |-> TRUE]
  OBVIOUS
<1>2. row \in Rows' /\ bindings \in Seq(Rows')
  <2>1. Rows \subseteq Rows' /\ row \in Rows'
    BY <1>1 DEF Rows
  <2>2. QED
    BY <2>1, SeqMonotonic DEF SignInv, AccountTypes
<1>3. bindings' = Append(bindings, row)
  BY <1>1 DEF Google!Bound
<1>4. /\ bindings' \in Seq(Rows') /\ Len(bindings') = Len(bindings) + 1
      /\ DOMAIN bindings = 1..Len(bindings) /\ DOMAIN bindings' = 1..Len(bindings')
      /\ Len(bindings) \in Nat
      /\ \A i \in DOMAIN bindings : bindings'[i] = bindings[i]
      /\ bindings'[Len(bindings')] = row
  BY <1>2, <1>3
<1>5. Onwards
  BY <1>4 DEF Onwards
<1>6. OneToOne'
  BY <1>1, <1>4 DEF OneToOne, Google!Live, SignInv, Google!Clash
<1>7. ASSUME NEW gone, gone \subseteq DOMAIN bindings
      PROVE  Held(subject, user, gone)'
  BY <1>1, <1>4, <1>7 DEF Held
<1>8. QED
  BY <1>4, <1>5, <1>6, <1>7

LEMMA AttemptSteps ==
    ASSUME SignInv,
           Google!BeginAttempt \/ \E c \in Callers : Google!ConsumeAttempt(c)
    PROVE  SignInv'
<1>1. UNCHANGED <<accounts, bindings, handle, sessions>>
  BY DEF Google!BeginAttempt, Google!ConsumeAttempt
<1>2. SomeUser' = SomeUser /\ Rows' = Rows /\ Attempts' = Attempts
  BY <1>1 DEF SomeUser, Rows, Attempts, Google!Users
<1>3. CASE Google!BeginAttempt
  <2>1. PICK s \in States, linking \in SomeUser :
           attempt' = [attempt EXCEPT ![s] = [linking |-> linking, consumed |-> FALSE]]
    BY <1>3 DEF Google!BeginAttempt, Google!LoginAttempt, SomeUser
  <2>2. \A t \in States : attempt'[t] # Null => attempt'[t] \in Attempts
    <3>1. PICK new : new = [linking |-> linking, consumed |-> FALSE]
      OBVIOUS
    <3>2. \A t \in States : attempt'[t] = IF t = s THEN new ELSE attempt[t]
      BY <2>1, <3>1 DEF SignInv, AccountTypes
    <3>3. new \in Attempts
      BY <3>1 DEF Attempts
    <3>4. QED
      BY <3>2, <3>3 DEF SignInv, AccountTypes
  <2>3. AccountTypes' /\ call' = call
    BY <1>1, <1>2, <1>3, <2>1, <2>2 DEF SignInv, AccountTypes, Google!BeginAttempt
  <2>4. QED
    BY <1>1, <2>3, Undisturbed DEF SignInv, Held
<1>4. ASSUME NEW c \in Callers, Google!ConsumeAttempt(c)
      PROVE  SignInv'
  <2>1. PICK s \in States :
          /\ attempt[s] # Null
          /\ attempt' = [attempt EXCEPT ![s].consumed = TRUE]
          /\ Google!Become(c, [Google!Idle EXCEPT !.pc = "exchanging", !.linking = attempt[s].linking,
                                           !.gone = DOMAIN bindings \ Google!Live])
    BY <1>4 DEF Google!ConsumeAttempt
  <2>2. PICK k : k = [Google!Idle EXCEPT !.pc = "exchanging", !.linking = attempt[s].linking,
                                           !.gone = DOMAIN bindings \ Google!Live]
    OBVIOUS
  <2>3. DOMAIN bindings \subseteq Nat /\ attempt[s].linking \in SomeUser
    BY <2>1 DEF SignInv, AccountTypes, Attempts
  <2>4. k \in Calling /\ k.pc = "exchanging" /\ k.gone = DOMAIN bindings \ Google!Live
    BY <2>2, <2>3 DEF Google!Idle, Calling, SomeUser
  <2>5. CallOK(k)
    BY <2>4 DEF CallOK, Google!Live
  <2>6. \A t \in States : attempt'[t] # Null => attempt'[t] \in Attempts
    <3>1. [attempt[s] EXCEPT !.consumed = TRUE] \in Attempts
      BY <2>1 DEF SignInv, AccountTypes, Attempts
    <3>2. QED
      BY <2>1, <3>1 DEF SignInv, AccountTypes
  <2>7. AccountTypes'
    BY <1>1, <1>2, <2>1, <2>6 DEF SignInv, AccountTypes, Google!Become
  <2>8. QED
    BY <1>1, <2>1, <2>2, <2>5, <2>7, Undisturbed, CallsMove
<1>5. QED
  BY <1>3, <1>4

(* Who is found by the Google account holds a live binding of it.          *)
LEMMA UserOfHolds ==
    ASSUME SignInv, NEW subject, Google!UserOf(subject) # Null,
           NEW gone, \A i \in gone : ~bindings[i].live
    PROVE  Held(subject, Google!UserOf(subject), gone)
<1>1. PICK i : i = CHOOSE j \in Google!Live : bindings[j].subject = subject
  OBVIOUS
<1>2. i \in Google!Live /\ bindings[i].subject = subject /\ bindings[i].user = Google!UserOf(subject)
  BY <1>1 DEF Google!UserOf
<1>3. QED
  BY <1>2 DEF Held, Google!Live

LEMMA UsersFound ==
    ASSUME SignInv, NEW subject, NEW mail
    PROVE  Google!UserOf(subject) \in SomeUser /\ Google!UserWith(mail) \in SomeUser
<1>1. Google!UserOf(subject) \in SomeUser
  <2>1. PICK i : i = CHOOSE j \in Google!Live : bindings[j].subject = subject
    OBVIOUS
  <2>2. \A j \in Google!Live : bindings[j].user \in Google!Users
    <3>1. ASSUME NEW j \in DOMAIN bindings PROVE bindings[j] \in Rows
      BY ElementOfSeq, LenProperties DEF SignInv, AccountTypes
    <3>2. QED
      BY <3>1 DEF Google!Live, Rows
  <2>3. QED
    BY <2>1, <2>2 DEF Google!UserOf, SomeUser
<1>2. Google!UserWith(mail) \in SomeUser
  <2>1. PICK found : found = {u \in Google!Users : accounts[u] = mail}
    OBVIOUS
  <2>2. found = {} \/ \E u \in found : \A v \in found : u <= v
    <3>1. found \subseteq Nat
      BY <2>1 DEF SignInv, AccountTypes, Google!Users
    <3>2. QED
      BY <3>1, NatLeast
  <2>3. QED
    BY <2>1, <2>2 DEF Google!UserWith, SomeUser
<1>3. QED
  BY <1>1, <1>2

LEMMA ReadSteps ==
    ASSUME SignInv, NEW c \in Callers,
           \/ Google!Verify(c) \/ Google!Rejected(c) \/ Google!ReadSubject(c)
           \/ Google!ReadEmail(c) \/ Google!Refuse(c) \/ Google!Abandon(c)
    PROVE  SignInv'
<1>. DEFINE k == call[c]
<1>. USE DEF Google!At
<1>1. UNCHANGED <<accounts, bindings, attempt, handle, sessions>>
  BY DEF Google!Verify, Google!Rejected, Google!ReadSubject, Google!ReadEmail, Google!Refuse,
         Google!Abandon
<1>2. CallOK(k) /\ k \in Calling
  BY DEF SignInv, CallOK
<1>3. CallOK(Google!Idle)
  BY DEF CallOK, Google!Idle, Calling, SomeUser
<1>4. CASE Google!Return(c)
  BY <1>1, <1>3, <1>4, CallSteps DEF Google!Return
<1>5. CASE Google!Verify(c)
  <2>1. PICK subject \in Subjects : Google!Become(c, [k EXCEPT !.pc = "reading", !.subject = subject])
    BY <1>5 DEF Google!Verify
  <2>2. PICK j : j = [k EXCEPT !.pc = "reading", !.subject = subject]
    OBVIOUS
  <2>3. j \in Calling /\ j.pc = "reading" /\ j.subject \in Subjects /\ j.gone = k.gone
    BY <1>2, <2>2 DEF Calling
  <2>4. CallOK(j)
    BY <1>2, <2>3 DEF CallOK
  <2>5. QED
    BY <1>1, <2>1, <2>2, <2>4, CallSteps
<1>6. CASE Google!ReadSubject(c)
  <2>1. Google!UserOf(k.subject) \in SomeUser
    BY UsersFound
  <2>. PICK pc : pc = IF k.pc = "reading" THEN "email" ELSE "resolved"
    OBVIOUS
  <2>2. PICK j : j = [k EXCEPT !.pc = pc, !.bySubject = Google!UserOf(k.subject)]
    OBVIOUS
  <2>3. /\ j \in Calling /\ j.pc \in {"email", "resolved"} /\ j.subject = k.subject /\ j.gone = k.gone
        /\ j.bySubject = Google!UserOf(k.subject)
    BY <1>2, <2>1, <2>2 DEF Calling
  <2>4. j.bySubject # Null => Held(j.subject, j.bySubject, j.gone)
    BY <1>2, <2>3, UserOfHolds DEF CallOK
  <2>5. CallOK(j)
    BY <1>2, <1>6, <2>3, <2>4 DEF CallOK, Google!ReadSubject
  <2>6. QED
    BY <1>1, <1>6, <2>2, <2>5, CallSteps DEF Google!ReadSubject
<1>7. CASE Google!ReadEmail(c)
  <2>1. Google!UserWith(MailOf[k.subject]) \in SomeUser
    BY UsersFound
  <2>. PICK pc : pc = IF k.pc = "reading" THEN "subject" ELSE "resolved"
    OBVIOUS
  <2>2. PICK j : j = [k EXCEPT !.pc = pc, !.byEmail = Google!UserWith(MailOf[k.subject])]
    OBVIOUS
  <2>3. /\ j \in Calling /\ j.pc = pc /\ j.subject = k.subject /\ j.gone = k.gone
        /\ j.bySubject = k.bySubject
    BY <1>2, <2>1, <2>2 DEF Calling
  <2>4. CallOK(j)
    BY <1>2, <1>7, <2>3 DEF CallOK, Google!ReadEmail
  <2>5. QED
    BY <1>1, <1>7, <2>2, <2>4, CallSteps DEF Google!ReadEmail
<1>8. QED
  BY <1>4, <1>5, <1>6, <1>7 DEF Google!Rejected, Google!Refuse, Google!Abandon

(* A verified identity waits for a name, and is taken up once.             *)
LEMMA HandleSteps ==
    ASSUME SignInv, NEW c \in Callers, Google!Park(c) \/ Google!ConsumeHandle(c)
    PROVE  SignInv'
<1>. USE DEF Google!At
<1>1. UNCHANGED <<accounts, bindings, attempt, sessions>>
  BY DEF Google!Park, Google!ConsumeHandle
<1>2. SomeUser' = SomeUser /\ Rows' = Rows /\ Attempts' = Attempts
  BY <1>1 DEF SomeUser, Rows, Attempts, Google!Users
<1>3. CallOK(Google!Idle)
  BY DEF CallOK, Google!Idle, Calling, SomeUser
<1>4. CASE Google!Park(c)
  <2>1. PICK h \in Handles :
           handle' = [handle EXCEPT ![h] = [subject |-> call[c].subject, consumed |-> FALSE]]
    BY <1>4 DEF Google!Park
  <2>2. PICK new : new = [subject |-> call[c].subject, consumed |-> FALSE]
    OBVIOUS
  <2>3. new \in Handoffs
    <3>1. CallOK(call[c]) /\ call[c].pc = "resolved"
      BY <1>4 DEF SignInv, Google!Park
    <3>2. call[c].subject \in Subjects
      BY <3>1 DEF CallOK
    <3>3. QED
      BY <2>2, <3>2 DEF Handoffs
  <2>4. DOMAIN handle' = Handles /\ \A g \in Handles : handle'[g] # Null => handle'[g] \in Handoffs
    BY <2>1, <2>2, <2>3 DEF SignInv, AccountTypes
  <2>5. AccountTypes' /\ Google!Become(c, Google!Idle)
    BY <1>1, <1>2, <1>4, <2>4 DEF SignInv, AccountTypes, Google!Park, Google!Return, Google!Become
  <2>6. QED
    BY <1>1, <1>3, <2>5, Undisturbed, CallsMove
<1>5. CASE Google!ConsumeHandle(c)
  <2>1. PICK h \in Handles :
          /\ handle[h] # Null
          /\ handle' = [handle EXCEPT ![h].consumed = TRUE]
          /\ Google!Become(c, [Google!Idle EXCEPT !.pc = "naming", !.subject = handle[h].subject,
                                           !.gone = DOMAIN bindings \ Google!Live])
    BY <1>5 DEF Google!ConsumeHandle
  <2>2. PICK k : k = [Google!Idle EXCEPT !.pc = "naming", !.subject = handle[h].subject,
                                           !.gone = DOMAIN bindings \ Google!Live]
    OBVIOUS
  <2>3. DOMAIN bindings \subseteq Nat /\ handle[h].subject \in Subjects /\ handle[h] \in Handoffs
    BY <2>1 DEF SignInv, AccountTypes, Handoffs
  <2>4. /\ k \in Calling /\ k.pc = "naming" /\ k.gone = DOMAIN bindings \ Google!Live
        /\ k.subject \in Subjects
    BY <2>2, <2>3 DEF Google!Idle, Calling, SomeUser
  <2>5. CallOK(k)
    BY <2>4 DEF CallOK, Google!Live
  <2>6. DOMAIN handle' = Handles /\ \A g \in Handles : handle'[g] # Null => handle'[g] \in Handoffs
    <3>1. [handle[h] EXCEPT !.consumed = TRUE] \in Handoffs
      BY <2>3 DEF Handoffs
    <3>2. QED
      BY <2>1, <3>1 DEF SignInv, AccountTypes
  <2>7. AccountTypes'
    BY <1>1, <1>2, <2>1, <2>6 DEF SignInv, AccountTypes, Google!Become
  <2>8. QED
    BY <1>1, <2>1, <2>2, <2>5, <2>7, Undisturbed, CallsMove
<1>6. QED
  BY <1>4, <1>5

(* Whoever is resolved as signed in, and connects nothing, is the user the *)
(* account was found to be bound to.                                       *)
LEMMA Resolved ==
    ASSUME NEW k, Google!ResolveLink(k).kind = "signed_in"
    PROVE  /\ Google!Connects(k) => Google!ResolveLink(k).user = k.linking /\ k.linking # Null
           /\ ~Google!Connects(k) => Google!ResolveLink(k).user = k.bySubject /\ k.bySubject # Null
BY DEF Google!ResolveLink, Google!Connects

(* A session is of a user the account was held by.                         *)
LEMMA SessionStep ==
    ASSUME SignInv, NEW c \in Callers, Google!CreateSession(c)
    PROVE  SignInv'
<1>. USE DEF Google!At
<1>. DEFINE k == call[c]
<1>1. CallOK(k)
  BY DEF SignInv
<1>2. PICK user : Google!StartedBy(c, user) /\ Held(k.subject, user, k.gone) /\ k.subject \in Subjects
  <2>1. CASE k.pc = "resolved"
    BY <1>1, <2>1, Resolved DEF CallOK, Google!CreateSession, Google!Outcome
  <2>2. CASE k.pc = "bound"
    BY <1>1, <2>2 DEF CallOK, Google!CreateSession
  <2>3. QED
    BY <2>1, <2>2 DEF Google!CreateSession
<1>3. /\ UNCHANGED <<accounts, bindings, attempt, handle>>
      /\ sessions' = sessions \union {[user |-> user, subject |-> k.subject, gone |-> k.gone]}
      /\ Google!Become(c, Google!Idle)
  BY <1>2 DEF Google!StartedBy, Google!Return
<1>4. CallOK(Google!Idle)
  BY DEF CallOK, Google!Idle, Calling, SomeUser
<1>5. AccountTypes'
  BY <1>3 DEF SignInv, AccountTypes, Google!Become, SomeUser, Rows, Attempts, Google!Users
<1>6. \A s \in sessions' :
         s \in sessions \/ (Held(s.subject, s.user, s.gone) /\ s.subject \in Subjects)
  BY <1>2, <1>3
<1>7. \A s \in sessions' :
         s \in sessions \/ (Held(s.subject, s.user, s.gone)' /\ s.subject \in Subjects)
  BY <1>3, <1>6 DEF Held
<1>8. QED
  BY <1>3, <1>4, <1>5, <1>7, Undisturbed, CallsMove

LEMMA BindStep ==
    ASSUME SignInv, NEW c \in Callers, Google!BindIdentity(c)
    PROVE  SignInv'
<1>. USE DEF Google!At
<1>0. PICK k : k = call[c]
  OBVIOUS
<1>1. /\ CallOK(k) /\ k \in Calling /\ k.pc = "resolved" /\ k.subject \in Subjects
      /\ k.gone \subseteq DOMAIN bindings
  BY <1>0 DEF SignInv, CallOK, Google!BindIdentity
<1>2. UNCHANGED <<accounts, attempt, handle, sessions>>
  BY DEF Google!BindIdentity
<1>3. Google!Outcome(c).user = k.linking /\ k.linking \in Google!Users
  BY <1>0, <1>1, Resolved DEF Google!BindIdentity, Google!Outcome, Calling, SomeUser
<1>4. CASE Google!Become(c, Google!Idle) /\ UNCHANGED bindings
  <2>1. CallOK(Google!Idle)
    BY DEF CallOK, Google!Idle, Calling, SomeUser
  <2>2. QED
    BY <1>2, <1>4, <2>1, CallSteps
<1>5. CASE /\ ~Google!Clash(k.subject, k.linking) /\ Google!Bound(k.subject, k.linking)
           /\ Google!Become(c, [k EXCEPT !.pc = "bound", !.linking = k.linking])
  <2>1. Google!Users' = Google!Users /\ SomeUser' = SomeUser /\ Attempts' = Attempts
        /\ Calling' = Calling
    BY <1>2 DEF SomeUser, Google!Users, Attempts, Calling
  <2>2. /\ Onwards /\ OneToOne' /\ bindings' \in Seq(Rows)'
        /\ Held(k.subject, k.linking, k.gone)'
    BY <1>1, <1>3, <1>5, <2>1, BoundKeeps
  <2>3. PICK j : j = [k EXCEPT !.pc = "bound", !.linking = k.linking]
    OBVIOUS
  <2>4. /\ j \in Calling /\ j.pc = "bound" /\ j.subject = k.subject /\ j.linking = k.linking
        /\ j.gone = k.gone
    BY <1>1, <2>3 DEF Calling
  <2>5. CallOK(j)'
    <3>1. CallOK(k)' /\ k.linking # Null
      BY <1>0, <1>1, <2>2, CallStays, Resolved DEF Google!BindIdentity, Google!Outcome
    <3>2. QED
      BY <1>1, <2>1, <2>2, <2>4, <3>1 DEF CallOK
  <2>6. AccountTypes'
    BY <1>2, <1>5, <2>1, <2>2 DEF SignInv, AccountTypes, Google!Become
  <2>7. QED
    BY <1>2, <1>5, <2>2, <2>3, <2>5, <2>6, CallsMove
<1>6. QED
  BY <1>0, <1>3, <1>4, <1>5 DEF Google!BindIdentity, Google!Return

(* The workspace of a new user, who has no binding yet, or nothing.        *)
LEMMA BootstrapStep ==
    ASSUME SignInv, NEW c \in Callers, Google!CreateBootstrap(c)
    PROVE  SignInv'
<1>. USE DEF Google!At
<1>0. PICK k, user : k = call[c] /\ user = Len(accounts) + 1
  OBVIOUS
<1>1. /\ CallOK(k) /\ k \in Calling /\ k.pc = "naming" /\ k.subject \in Subjects
      /\ k.gone \subseteq DOMAIN bindings
  BY <1>0 DEF SignInv, CallOK, Google!CreateBootstrap
<1>2. UNCHANGED <<attempt, handle, sessions>>
  BY DEF Google!CreateBootstrap
<1>3. CASE Google!Become(c, Google!Idle) /\ UNCHANGED <<accounts, bindings>>
  <2>1. CallOK(Google!Idle)
    BY DEF CallOK, Google!Idle, Calling, SomeUser
  <2>2. QED
    BY <1>2, <1>3, <2>1, CallSteps
<1>4. CASE /\ ~Google!Clash(k.subject, user) /\ Google!Bound(k.subject, user)
           /\ accounts' = Append(accounts, MailOf[k.subject])
           /\ Google!Become(c, [k EXCEPT !.pc = "bound", !.linking = user])
  <2>1. /\ accounts' \in Seq(Mailboxes) /\ user \in Google!Users'
        /\ Google!Users \subseteq Google!Users'
    <3>1. accounts \in Seq(Mailboxes) /\ MailOf[k.subject] \in Mailboxes
      BY <1>1 DEF SignInv, AccountTypes, Mailboxes
    <3>2. QED
      BY <1>0, <1>4, <3>1 DEF Google!Users
  <2>2. /\ Onwards /\ OneToOne' /\ bindings' \in Seq(Rows)'
        /\ Held(k.subject, user, k.gone)'
    BY <1>1, <1>4, <2>1, BoundKeeps
  <2>3. PICK j : j = [k EXCEPT !.pc = "bound", !.linking = user]
    OBVIOUS
  <2>4. CallOK(k)' /\ user # Null
    <3>1. CallOK(k)'
      BY <1>1, <2>2, CallStays
    <3>2. user \in Nat
      BY <1>0 DEF SignInv, AccountTypes
    <3>3. QED
      BY <3>1, <3>2, AdmissionNull
  <2>5. /\ j \in Calling' /\ j.pc = "bound" /\ j.subject = k.subject /\ j.linking = user
        /\ j.gone = k.gone
    <3>1. k \in Calling' /\ user \in SomeUser'
      BY <2>1, <2>4 DEF CallOK, SomeUser
    <3>2. QED
      BY <2>3, <3>1 DEF Calling
  <2>6. CallOK(j)'
    BY <1>1, <2>2, <2>4, <2>5 DEF CallOK
  <2>7. Attempts \subseteq Attempts'
    BY <2>1 DEF Attempts, SomeUser
  <2>8. AccountTypes'
    BY <1>2, <1>4, <2>1, <2>2, <2>7 DEF SignInv, AccountTypes, Google!Become
  <2>9. QED
    BY <1>2, <1>4, <2>2, <2>3, <2>6, <2>8, CallsMove
<1>5. QED
  BY <1>0, <1>3, <1>4 DEF Google!CreateBootstrap, Google!Return

LEMMA DisconnectStep ==
    ASSUME SignInv, Google!Disconnect
    PROVE  SignInv'
<1>1. PICK i \in Google!Live : bindings' = [bindings EXCEPT ![i].live = FALSE]
  BY DEF Google!Disconnect
<1>2. UNCHANGED <<accounts, attempt, handle, sessions, call>>
  BY DEF Google!Disconnect
<1>3. PICK row : row = [bindings[i] EXCEPT !.live = FALSE]
  OBVIOUS
<1>4. i \in DOMAIN bindings /\ bindings \in Seq(Rows) /\ bindings[i] \in Rows
  <2>1. i \in DOMAIN bindings /\ bindings \in Seq(Rows)
    BY DEF Google!Live, SignInv, AccountTypes
  <2>2. QED
    BY <2>1, ElementOfSeq, LenProperties
<1>5. row \in Rows /\ row.subject = bindings[i].subject /\ row.user = bindings[i].user /\ ~row.live
  BY <1>3, <1>4 DEF Rows
<1>6. /\ bindings' \in Seq(Rows) /\ DOMAIN bindings' = DOMAIN bindings /\ bindings'[i] = row
      /\ \A j \in DOMAIN bindings : j # i => bindings'[j] = bindings[j]
  BY <1>1, <1>3, <1>4, <1>5
<1>7. Onwards
  BY <1>2, <1>5, <1>6 DEF Onwards, Google!Users
<1>8. OneToOne'
  BY <1>5, <1>6 DEF SignInv, OneToOne, Google!Live
<1>9. Rows' = Rows /\ Attempts' = Attempts
  BY <1>2 DEF Rows, Attempts, SomeUser, Google!Users
<1>10. AccountTypes'
  BY <1>2, <1>6, <1>9 DEF SignInv, AccountTypes
<1>11. \A c \in Callers : CallOK(call[c])'
  <2>1. ASSUME NEW c \in Callers PROVE CallOK(call[c])'
    <3>1. PICK k : k = call[c]
      OBVIOUS
    <3>2. CallOK(k)'
      BY <1>7, <3>1, CallStays DEF SignInv
    <3>3. QED
      BY <1>2, <3>1, <3>2
  <2>2. QED
    BY <2>1
<1>12. \A s \in sessions' : Held(s.subject, s.user, s.gone)' /\ s.subject \in Subjects
  BY <1>2, <1>7, HeldStays DEF SignInv
<1>13. QED
  BY <1>8, <1>10, <1>11, <1>12 DEF SignInv

LEMMA SignAlways == SpecAll => []SignInv
<1>1. ASSUME SignInv, [NextAll]_everything
      PROVE  SignInv'
  <2>1. CASE Google!Next
    BY <1>1, <2>1, AttemptSteps, ReadSteps, HandleSteps, SessionStep, BindStep, BootstrapStep,
       DisconnectStep DEF Google!Next
  <2>2. CASE UNCHANGED google
    BY <1>1, <2>2, SignRest
  <2>3. QED
    BY <1>1, <2>1, <2>2 DEF NextAll, everything, tenancy
<1>2. QED
  BY SignInit, <1>1, PTL DEF SpecAll

-----------------------------------------------------------------------------
(* Passwords.                                                              *)
Links == [at : Nat, under : Nat, consumed : BOOLEAN, invalidated : BOOLEAN, changed : Nat]

Enter == [pc : {"idle", "admitting", "superseding", "issuing", "changing"}, link : Nat]

PasswordTypes ==
    /\ password \in Nat /\ clock \in Nat
    /\ links \in Seq(Links)
    /\ entering \in [Callers -> Enter]

(* Whoever changes the password with a link consumed it, and is alone.     *)
ChangersOK ==
    /\ \A c \in Callers : entering[c].pc = "changing" =>
          /\ entering[c].link \in DOMAIN links
          /\ links[entering[c].link].consumed /\ links[entering[c].link].changed = 0
    /\ \A c, d \in Callers : entering[c].pc = "changing" /\ entering[d].pc = "changing"
          /\ entering[c].link = entering[d].link => c = d

(* Requests that were admitted and have not issued their link yet.         *)
Pending == {c \in Callers : entering[c].pc \in {"superseding", "issuing"}}

LimitOK ==
    Cardinality(Resets!Recent) + Cardinality(Pending)
        <= MAX_REQUESTS_PER_HOUR - 1 + Cardinality(Callers)

LinkOK(l) ==
    /\ l.changed <= 1 /\ (l.changed = 1 => l.consumed)
    /\ Resets!Usable(l) => l.under = password

PasswordInv ==
    /\ PasswordTypes /\ ChangersOK /\ LimitOK
    /\ \A i \in DOMAIN links : LinkOK(links[i])
    /\ admitted \subseteq {password}

(* While another part is followed nothing happens here.                    *)
Untouched == links = <<>> /\ admitted = {}
PasswordsFollowed == IF busy = "passwords" THEN PasswordInv ELSE Untouched

(* Passwords counts as this module does.                                   *)
LEMMA SameCount == ASSUME NEW S PROVE Resets!Cardinality(S) = Cardinality(S)
  BY DEF Resets!Cardinality, Cardinality

LEMMA RecentFinite ==
    ASSUME PasswordTypes
    PROVE  IsFiniteSet(Resets!Recent) /\ Cardinality(Resets!Recent) \in Nat
<1>1. DOMAIN links = 1..Len(links) /\ Len(links) \in Nat
  BY DEF PasswordTypes
<1>2. IsFiniteSet(DOMAIN links)
  BY <1>1, FS_Interval
<1>3. Resets!Recent \subseteq DOMAIN links
  BY DEF Resets!Recent
<1>4. QED
  BY <1>2, <1>3, FS_Subset, FS_CardinalityType

LEMMA PendingFinite ==
    /\ IsFiniteSet(Pending) /\ Cardinality(Pending) \in Nat
    /\ Cardinality(Pending) <= Cardinality(Callers) /\ Cardinality(Callers) \in Nat
<1>1. Pending \subseteq Callers
  BY DEF Pending
<1>2. QED
  BY <1>1, GovernanceCallers, FS_Subset, FS_CardinalityType

LEMMA PasswordGives == PasswordsFollowed => Resets!PasswordHolds
<1>1. CASE busy = "passwords"
  <2>1. SUFFICES ASSUME PasswordInv PROVE Resets!PasswordHolds
    BY <1>1 DEF PasswordsFollowed
  <2>2. Cardinality(Resets!Recent) <= MAX_REQUESTS_PER_HOUR - 1 + Cardinality(Callers)
    BY <2>1, RecentFinite, PendingFinite, GovernanceCallers DEF PasswordInv, LimitOK
  <2>3. ASSUME NEW i \in DOMAIN links
        PROVE  /\ links[i].changed <= 1 /\ (links[i].changed = 1 => links[i].consumed)
               /\ Resets!Usable(links[i]) => links[i].under = password
    <3>1. LinkOK(links[i])
      BY <2>1 DEF PasswordInv
    <3>2. QED
      BY <3>1 DEF LinkOK
  <2>4. admitted \subseteq {password}
    BY <2>1 DEF PasswordInv
  <2>5. QED
    BY <2>2, <2>3, <2>4, SameCount DEF Resets!PasswordHolds
<1>2. CASE busy # "passwords"
  <2>1. SUFFICES ASSUME Untouched PROVE Resets!PasswordHolds
    BY <1>2 DEF PasswordsFollowed
  <2>2. Resets!Recent = {} /\ Cardinality(Resets!Recent) = 0
    BY <2>1, FS_EmptySet DEF Resets!Recent, Untouched
  <2>3. Cardinality(Resets!Recent) <= MAX_REQUESTS_PER_HOUR - 1 + Cardinality(Callers)
    BY <2>2, PendingFinite, GovernanceCallers
  <2>4. DOMAIN links = {} /\ admitted \subseteq {password}
    BY <2>1 DEF Untouched
  <2>5. QED
    BY <2>3, <2>4, SameCount DEF Resets!PasswordHolds
<1>3. QED
  BY <1>1, <1>2

LEMMA PasswordInit == InitAll => PasswordsFollowed
<1>. SUFFICES ASSUME InitAll PROVE PasswordsFollowed
  OBVIOUS
<1>1. /\ password = 0 /\ links = <<>> /\ admitted = {} /\ clock = 0
      /\ entering = [c \in Callers |-> [pc |-> "idle", link |-> 0]]
  BY DEF InitAll, Resets!Init, Resets!Idle
<1>2. PasswordTypes /\ ChangersOK
  BY <1>1 DEF PasswordTypes, Enter, ChangersOK
<1>3. Resets!Recent = {} /\ Pending = {}
  BY <1>1 DEF Resets!Recent, Pending
<1>4. LimitOK
  BY <1>3, FS_EmptySet, PendingFinite, GovernanceCallers DEF LimitOK
<1>5. QED
  BY <1>1, <1>2, <1>4 DEF PasswordsFollowed, PasswordInv, Untouched

LEMMA LinksTyped ==
    ASSUME NEW all \in Seq(Links)
    PROVE  /\ DOMAIN all = 1..Len(all) /\ Len(all) \in Nat
           /\ \A i \in DOMAIN all : all[i] \in Links
  BY LenProperties, ElementOfSeq

(* What superseding does to the links there are.                           *)
LEMMA SupersededLinks ==
    ASSUME NEW all \in Seq(Links)
    PROVE  /\ Resets!Superseded(all) \in Seq(Links)
           /\ DOMAIN Resets!Superseded(all) = DOMAIN all
           /\ \A i \in DOMAIN all :
                 /\ Resets!Superseded(all)[i].at = all[i].at
                 /\ Resets!Superseded(all)[i].consumed = all[i].consumed
                 /\ Resets!Superseded(all)[i].changed = all[i].changed
                 /\ ~Resets!Usable(Resets!Superseded(all)[i])
<1>1. /\ DOMAIN all = 1..Len(all) /\ Len(all) \in Nat
      /\ \A i \in DOMAIN all : all[i] \in Links
  BY LenProperties, ElementOfSeq
<1>2. ASSUME NEW i \in DOMAIN all
      PROVE  (IF ~all[i].consumed THEN [all[i] EXCEPT !.invalidated = TRUE] ELSE all[i]) \in Links
  BY <1>1 DEF Links
<1>3. Resets!Superseded(all) \in Seq(Links) /\ DOMAIN Resets!Superseded(all) = DOMAIN all
  BY <1>1, <1>2, IsASeq DEF Resets!Superseded
<1>4. ASSUME NEW i \in DOMAIN all
      PROVE  /\ Resets!Superseded(all)[i].at = all[i].at
             /\ Resets!Superseded(all)[i].consumed = all[i].consumed
             /\ Resets!Superseded(all)[i].changed = all[i].changed
             /\ ~Resets!Usable(Resets!Superseded(all)[i])
  <2>1. all[i] \in Links
    BY <1>1
  <2>2. Resets!Superseded(all)[i]
          = IF ~all[i].consumed THEN [all[i] EXCEPT !.invalidated = TRUE] ELSE all[i]
    BY DEF Resets!Superseded
  <2>3. QED
    BY <2>1, <2>2 DEF Links, Resets!Usable
<1>5. QED
  BY <1>3, <1>4

(* Fewer links of the last hour and fewer requests keep to the limit.      *)
LEMMA LimitKept ==
    ASSUME PasswordTypes, LimitOK, Resets!Recent' \subseteq Resets!Recent,
           Pending' \subseteq Pending
    PROVE  LimitOK'
<1>1. /\ Cardinality((Resets!Recent)') <= Cardinality(Resets!Recent)
      /\ Cardinality((Resets!Recent)') \in Nat /\ Cardinality(Resets!Recent) \in Nat
  BY RecentFinite, FS_Subset, FS_CardinalityType
<1>2. /\ Cardinality(Pending') <= Cardinality(Pending)
      /\ Cardinality(Pending') \in Nat /\ Cardinality(Pending) \in Nat
  BY PendingFinite, FS_Subset, FS_CardinalityType
<1>3. QED
  BY <1>1, <1>2, PendingFinite, GovernanceCallers DEF LimitOK

(* A step that leaves the links and the password alone, and lets nobody     *)
(* in to change it.                                                        *)
LEMMA LinksAlone ==
    ASSUME PasswordInv, UNCHANGED <<password, links>>, clock' = clock \/ clock' = clock + 1,
           entering' \in [Callers -> Enter],
           \A c \in Callers : entering'[c].pc = "changing" => entering'[c] = entering[c],
           Cardinality(Resets!Recent) < MAX_REQUESTS_PER_HOUR \/ Pending' \subseteq Pending,
           admitted' \subseteq {password}
    PROVE  PasswordInv'
<1>1. PasswordTypes'
  BY DEF PasswordInv, PasswordTypes
<1>2. ChangersOK'
  BY DEF PasswordInv, ChangersOK
<1>3. Resets!Recent' \subseteq Resets!Recent
  <2>1. links \in Seq(Links) /\ clock \in Nat
    BY DEF PasswordInv, PasswordTypes
  <2>2. \A i \in DOMAIN links : links[i].at \in Nat
    BY <2>1, LinksTyped DEF Links
  <2>3. Term \in Nat
    BY GovernanceBounds
  <2>4. QED
    BY <2>1, <2>2, <2>3 DEF Resets!Recent
<1>4. LimitOK'
  <2>1. CASE Pending' \subseteq Pending
    BY <1>3, <2>1, LimitKept DEF PasswordInv
  <2>2. CASE Cardinality(Resets!Recent) < MAX_REQUESTS_PER_HOUR
    <3>1. /\ Cardinality((Resets!Recent)') <= Cardinality(Resets!Recent)
          /\ Cardinality((Resets!Recent)') \in Nat /\ Cardinality(Resets!Recent) \in Nat
      BY <1>3, RecentFinite, FS_Subset, FS_CardinalityType DEF PasswordInv
    <3>2. /\ Cardinality(Pending') \in Nat /\ Cardinality(Pending') <= Cardinality(Callers)
          /\ Cardinality(Callers) \in Nat
      <4>1. Pending' \subseteq Callers
        BY DEF Pending
      <4>2. QED
        BY <4>1, GovernanceCallers, FS_Subset, FS_CardinalityType
    <3>3. QED
      BY <2>2, <3>1, <3>2, GovernanceCallers DEF LimitOK
  <2>3. QED
    BY <2>1, <2>2
<1>5. \A i \in DOMAIN links' : LinkOK(links[i])'
  BY DEF PasswordInv, LinkOK, Resets!Usable
<1>6. QED
  BY <1>1, <1>2, <1>4, <1>5 DEF PasswordInv

LEMMA EnterStep ==
    ASSUME NEW c \in Callers, NEW pc, NEW i, PasswordTypes, Resets!Become(c, pc, i),
           pc \in {"idle", "admitting", "superseding", "issuing", "changing"}, i \in Nat
    PROVE  /\ entering' \in [Callers -> Enter]
           /\ entering'[c] = [pc |-> pc, link |-> i]
           /\ \A d \in Callers \ {c} : entering'[d] = entering[d]
<1>1. entering \in [Callers -> Enter]
  BY DEF PasswordTypes
<1>2. entering' = [entering EXCEPT ![c] = [pc |-> pc, link |-> i]]
  BY DEF Resets!Become
<1>3. [pc |-> pc, link |-> i] \in Enter
  BY DEF Enter
<1>4. QED
  BY <1>1, <1>2, <1>3

(* Logins, counting, abandoning, the clock: nothing happens to the links.   *)
LEMMA PasswordQuiet ==
    ASSUME PasswordInv, NEW c \in Callers,
           \/ Resets!Compare(c) \/ Resets!InsertSession(c) \/ Resets!CountRecent(c)
           \/ Resets!Abandon(c)
    PROVE  PasswordInv'
<1>1. PasswordTypes /\ admitted \subseteq {password}
  BY DEF PasswordInv
<1>2. \E pc \in {"idle", "admitting", "superseding"} :
         /\ Resets!Become(c, pc, 0) /\ UNCHANGED <<password, links, clock>>
         /\ admitted' \subseteq {password}
         /\ pc = "superseding" => Cardinality(Resets!Recent) < MAX_REQUESTS_PER_HOUR
  <2>1. CASE Resets!Compare(c)
    BY <2>1, <1>1 DEF Resets!Compare, Resets!Begin
  <2>2. CASE Resets!InsertSession(c)
    BY <2>2, <1>1 DEF Resets!InsertSession, Resets!Return
  <2>3. CASE Resets!CountRecent(c)
    BY <2>3, <1>1, SameCount DEF Resets!CountRecent, Resets!Begin
  <2>4. CASE Resets!Abandon(c)
    BY <2>4, <1>1 DEF Resets!Abandon, Resets!Return
  <2>5. QED
    BY <2>1, <2>2, <2>3, <2>4
<1>3. PICK pc \in {"idle", "admitting", "superseding"} :
         /\ Resets!Become(c, pc, 0) /\ UNCHANGED <<password, links, clock>>
         /\ admitted' \subseteq {password}
         /\ pc = "superseding" => Cardinality(Resets!Recent) < MAX_REQUESTS_PER_HOUR
  BY <1>2
<1>4. /\ entering' \in [Callers -> Enter]
      /\ entering'[c] = [pc |-> pc, link |-> 0]
      /\ \A d \in Callers \ {c} : entering'[d] = entering[d]
  BY <1>1, <1>3, EnterStep
<1>5. entering'[c].pc = pc
  BY <1>4
<1>6. pc # "superseding" => Pending' \subseteq Pending
  BY <1>3, <1>4, <1>5 DEF Pending
<1>7. \A d \in Callers : entering'[d].pc = "changing" => entering'[d] = entering[d]
  BY <1>3, <1>4, <1>5
<1>8. QED
  BY <1>3, <1>4, <1>6, <1>7, LinksAlone

LEMMA PasswordDelete == PasswordInv /\ Resets!DeleteSession => PasswordInv'
<1>. SUFFICES ASSUME PasswordInv, Resets!DeleteSession PROVE PasswordInv'
  OBVIOUS
<1>1. UNCHANGED <<password, links, entering, clock>> /\ admitted' \subseteq admitted
  BY DEF Resets!DeleteSession
<1>2. Pending' \subseteq Pending
  BY <1>1 DEF Pending
<1>3. QED
  BY <1>1, <1>2, LinksAlone DEF PasswordInv, PasswordTypes

LEMMA PasswordTick == PasswordInv /\ Resets!Tick => PasswordInv'
<1>. SUFFICES ASSUME PasswordInv, Resets!Tick PROVE PasswordInv'
  OBVIOUS
<1>1. UNCHANGED <<password, links, entering, admitted>> /\ clock' = clock + 1
  BY DEF Resets!Tick
<1>2. Pending' \subseteq Pending
  BY <1>1 DEF Pending
<1>3. QED
  BY <1>1, <1>2, LinksAlone DEF PasswordInv, PasswordTypes

LEMMA PasswordSupersede ==
    ASSUME PasswordInv, NEW c \in Callers, Resets!SupersedeLinks(c)
    PROVE  PasswordInv'
<1>1. /\ PasswordTypes /\ links \in Seq(Links) /\ entering[c].pc = "superseding"
      /\ links' = Resets!Superseded(links) /\ Resets!Become(c, "issuing", 0)
      /\ UNCHANGED <<password, admitted, clock>>
  BY DEF PasswordInv, PasswordTypes, Resets!SupersedeLinks, Resets!At
<1>2. /\ entering' \in [Callers -> Enter]
      /\ entering'[c] = [pc |-> "issuing", link |-> 0]
      /\ \A d \in Callers \ {c} : entering'[d] = entering[d]
  BY <1>1, EnterStep
<1>3. /\ links' \in Seq(Links) /\ DOMAIN links' = DOMAIN links
      /\ \A i \in DOMAIN links :
            /\ links'[i].at = links[i].at /\ links'[i].consumed = links[i].consumed
            /\ links'[i].changed = links[i].changed /\ ~Resets!Usable(links'[i])
  BY <1>1, SupersededLinks
<1>4. PasswordTypes'
  BY <1>1, <1>2, <1>3 DEF PasswordTypes
<1>5. ChangersOK'
  <2>1. \A d \in Callers : entering'[d].pc = "changing" => d # c /\ entering'[d] = entering[d]
    BY <1>2
  <2>2. QED
    BY <2>1, <1>3 DEF PasswordInv, ChangersOK
<1>6. Resets!Recent' \subseteq Resets!Recent
  BY <1>1, <1>3 DEF Resets!Recent
<1>7. Pending' \subseteq Pending
  BY <1>1, <1>2 DEF Pending
<1>8. LimitOK'
  BY <1>1, <1>6, <1>7, LimitKept DEF PasswordInv
<1>9. \A i \in DOMAIN links' : LinkOK(links[i])'
  <2>1. \A i \in DOMAIN links :
           links[i].changed <= 1 /\ (links[i].changed = 1 => links[i].consumed)
    BY DEF PasswordInv, LinkOK
  <2>2. QED
    BY <2>1, <1>3 DEF LinkOK
<1>10. QED
  BY <1>1, <1>4, <1>5, <1>8, <1>9 DEF PasswordInv

LEMMA PasswordIssue ==
    ASSUME PasswordInv, NEW c \in Callers, Resets!IssueLink(c)
    PROVE  PasswordInv'
<1>. DEFINE link == [at |-> clock, under |-> password, consumed |-> FALSE,
                     invalidated |-> FALSE, changed |-> 0]
<1>1. /\ PasswordTypes /\ links \in Seq(Links) /\ entering[c].pc = "issuing"
      /\ links' = Append(links, link) /\ Resets!Become(c, "idle", 0)
      /\ UNCHANGED <<password, admitted, clock>>
  BY DEF PasswordInv, PasswordTypes, Resets!IssueLink, Resets!At, Resets!Return
<1>2. /\ entering' \in [Callers -> Enter]
      /\ entering'[c] = [pc |-> "idle", link |-> 0]
      /\ \A d \in Callers \ {c} : entering'[d] = entering[d]
  BY <1>1, EnterStep
<1>3. link \in Links
  BY <1>1 DEF PasswordTypes, Links
<1>4. /\ links' \in Seq(Links) /\ DOMAIN links' = DOMAIN links \union {Len(links) + 1}
      /\ \A i \in DOMAIN links : links'[i] = links[i]
      /\ links'[Len(links) + 1] = link /\ Len(links) + 1 \notin DOMAIN links
  <2>1. DOMAIN links = 1..Len(links) /\ Len(links) \in Nat
    BY <1>1, LinksTyped
  <2>2. /\ links' \in Seq(Links) /\ Len(links') = Len(links) + 1
        /\ \A i \in 1..Len(links) : links'[i] = links[i]
        /\ links'[Len(links) + 1] = link
    BY <1>1, <1>3, AppendProperties
  <2>3. DOMAIN links' = 1..(Len(links) + 1)
    BY <2>2, LinksTyped
  <2>4. QED
    BY <2>1, <2>2, <2>3
<1>5. PasswordTypes'
  BY <1>1, <1>2, <1>4 DEF PasswordTypes
<1>6. ChangersOK'
  <2>1. \A d \in Callers : entering'[d].pc = "changing" => d # c /\ entering'[d] = entering[d]
    BY <1>2
  <2>2. QED
    BY <2>1, <1>4 DEF PasswordInv, ChangersOK
<1>7. Resets!Recent' \subseteq Resets!Recent \union {Len(links) + 1}
  BY <1>1, <1>4 DEF Resets!Recent
<1>8. Pending' = Pending \ {c} /\ c \in Pending
  BY <1>1, <1>2 DEF Pending
<1>9. LimitOK'
  <2>. DEFINE more == Resets!Recent \union {Len(links) + 1}
  <2>1. /\ IsFiniteSet(more) /\ Cardinality(more) <= Cardinality(Resets!Recent) + 1
        /\ Cardinality(more) \in Nat /\ Cardinality(Resets!Recent) \in Nat
    <3>1. IsFiniteSet(Resets!Recent) /\ Cardinality(Resets!Recent) \in Nat
      BY <1>1, RecentFinite
    <3>2. /\ IsFiniteSet(more)
          /\ Cardinality(more) = IF Len(links) + 1 \in Resets!Recent THEN Cardinality(Resets!Recent)
                                 ELSE Cardinality(Resets!Recent) + 1
      BY <3>1, FS_AddElement
    <3>. HIDE DEF more
    <3>3. QED
      BY <3>1, <3>2
  <2>2. /\ Cardinality((Resets!Recent)') <= Cardinality(more)
        /\ Cardinality((Resets!Recent)') \in Nat
    BY <1>7, <2>1, FS_Subset, FS_CardinalityType
  <2>3. /\ Cardinality(Pending') = Cardinality(Pending) - 1 /\ Cardinality(Pending') \in Nat
        /\ Cardinality(Pending) \in Nat /\ Cardinality(Callers) \in Nat
    BY <1>8, PendingFinite, FS_RemoveElement, FS_CardinalityType
  <2>4. Cardinality(Resets!Recent) + Cardinality(Pending)
          <= MAX_REQUESTS_PER_HOUR - 1 + Cardinality(Callers)
    BY DEF PasswordInv, LimitOK
  <2>. HIDE DEF more
  <2>5. QED
    BY <2>1, <2>2, <2>3, <2>4, GovernanceCallers DEF LimitOK
<1>10. \A i \in DOMAIN links' : LinkOK(links[i])'
  <2>1. \A i \in DOMAIN links : LinkOK(links[i])
    BY DEF PasswordInv
  <2>2. QED
    BY <2>1, <1>1, <1>4 DEF LinkOK
<1>11. QED
  BY <1>1, <1>5, <1>6, <1>9, <1>10 DEF PasswordInv

LEMMA PasswordConsume ==
    ASSUME PasswordInv, NEW c \in Callers, Resets!ConsumeLink(c)
    PROVE  PasswordInv'
<1>1. PICK i \in DOMAIN links :
         /\ Resets!Usable(links[i]) /\ Resets!Begin(c, "changing", i)
         /\ links' = [links EXCEPT ![i].consumed = TRUE]
  BY DEF Resets!ConsumeLink
<1>2. /\ PasswordTypes /\ links \in Seq(Links) /\ entering[c].pc = "idle"
      /\ Resets!Become(c, "changing", i) /\ UNCHANGED <<password, admitted, clock>>
  BY <1>1 DEF PasswordInv, PasswordTypes, Resets!Begin, Resets!At
<1>3. DOMAIN links = 1..Len(links) /\ links[i] \in Links /\ i \in Nat
  BY <1>2, LinksTyped
<1>4. /\ entering' \in [Callers -> Enter]
      /\ entering'[c] = [pc |-> "changing", link |-> i]
      /\ \A d \in Callers \ {c} : entering'[d] = entering[d]
  BY <1>2, <1>3, EnterStep
<1>5. [links[i] EXCEPT !.consumed = TRUE] \in Links
  BY <1>3 DEF Links
<1>6. /\ links' \in Seq(Links) /\ DOMAIN links' = DOMAIN links
      /\ links'[i] = [links[i] EXCEPT !.consumed = TRUE]
      /\ \A j \in DOMAIN links : j # i => links'[j] = links[j]
  <2>1. links' = [links EXCEPT ![i] = [links[i] EXCEPT !.consumed = TRUE]]
    BY <1>1
  <2>2. QED
    BY <2>1, <1>2, <1>3, <1>5, ExceptSeq
<1>7. /\ links'[i].at = links[i].at /\ links'[i].under = links[i].under
      /\ links'[i].changed = links[i].changed /\ links'[i].consumed
  BY <1>3, <1>6 DEF Links
<1>8. LinkOK(links[i]) /\ ~links[i].consumed /\ links[i].changed \in Nat
  BY <1>1, <1>3 DEF PasswordInv, Resets!Usable, Links
<1>9. links[i].changed = 0
  BY <1>8 DEF LinkOK
<1>10. PasswordTypes'
  BY <1>2, <1>4, <1>6 DEF PasswordTypes
<1>11. ChangersOK'
  <2>1. \A d \in Callers : entering'[d].pc = "changing" /\ d # c =>
           entering'[d] = entering[d] /\ entering[d].link # i
    BY <1>4, <1>8 DEF PasswordInv, ChangersOK
  <2>2. \A d \in Callers : entering'[d].pc = "changing" =>
           /\ entering'[d].link \in DOMAIN links'
           /\ links'[entering'[d].link].consumed /\ links'[entering'[d].link].changed = 0
    <3>1. entering'[c].link = i /\ i \in DOMAIN links' /\ links'[i].consumed /\ links'[i].changed = 0
      BY <1>4, <1>6, <1>7, <1>9
    <3>2. ASSUME NEW d \in Callers, d # c, entering'[d].pc = "changing"
          PROVE  /\ entering'[d].link \in DOMAIN links'
                 /\ links'[entering'[d].link].consumed /\ links'[entering'[d].link].changed = 0
      <4>1. /\ entering[d].link \in DOMAIN links /\ entering[d].link # i
            /\ links[entering[d].link].consumed /\ links[entering[d].link].changed = 0
            /\ entering'[d] = entering[d]
        BY <3>2, <2>1 DEF PasswordInv, ChangersOK
      <4>2. QED
        BY <4>1, <1>6
    <3>3. QED
      BY <3>1, <3>2
  <2>3. \A d, e \in Callers : entering'[d].pc = "changing" /\ entering'[e].pc = "changing"
          /\ entering'[d].link = entering'[e].link => d = e
    BY <2>1, <1>4 DEF PasswordInv, ChangersOK
  <2>4. QED
    BY <2>2, <2>3 DEF ChangersOK
<1>12. Resets!Recent' \subseteq Resets!Recent
  BY <1>2, <1>6, <1>7 DEF Resets!Recent
<1>13. Pending' \subseteq Pending
  BY <1>4 DEF Pending
<1>14. LimitOK'
  BY <1>2, <1>12, <1>13, LimitKept DEF PasswordInv
<1>15. \A j \in DOMAIN links' : LinkOK(links[j])'
  <2>1. LinkOK(links[i])'
    BY <1>7, <1>9 DEF LinkOK, Resets!Usable
  <2>2. ASSUME NEW j \in DOMAIN links, j # i PROVE LinkOK(links[j])'
    <3>1. LinkOK(links[j])
      BY DEF PasswordInv
    <3>2. QED
      BY <3>1, <2>2, <1>2, <1>6 DEF LinkOK
  <2>3. QED
    BY <2>1, <2>2, <1>6
<1>16. QED
  BY <1>2, <1>10, <1>11, <1>14, <1>15 DEF PasswordInv

LEMMA PasswordChange ==
    ASSUME PasswordInv, NEW c \in Callers, Resets!ChangePassword(c)
    PROVE  PasswordInv'
<1>1. PICK i : i = entering[c].link
  OBVIOUS
<1>2. /\ PasswordTypes /\ links \in Seq(Links) /\ entering[c].pc = "changing"
      /\ password' = password + 1 /\ admitted' = {} /\ UNCHANGED clock
      /\ links' = Resets!Superseded([links EXCEPT ![i].changed = @ + 1])
      /\ Resets!Become(c, "idle", 0)
  BY <1>1 DEF PasswordInv, PasswordTypes, Resets!ChangePassword, Resets!At, Resets!Return
<1>3. i \in DOMAIN links /\ links[i].consumed /\ links[i].changed = 0
  BY <1>1, <1>2 DEF PasswordInv, ChangersOK
<1>4. DOMAIN links = 1..Len(links) /\ links[i] \in Links
  BY <1>2, <1>3, LinksTyped
<1>5. /\ entering' \in [Callers -> Enter]
      /\ entering'[c] = [pc |-> "idle", link |-> 0]
      /\ \A d \in Callers \ {c} : entering'[d] = entering[d]
  BY <1>2, EnterStep
<1>6. PICK all : all = [links EXCEPT ![i].changed = @ + 1]
  OBVIOUS
<1>7. /\ all \in Seq(Links) /\ DOMAIN all = DOMAIN links
      /\ all[i] = [links[i] EXCEPT !.changed = 1]
      /\ \A j \in DOMAIN links : j # i => all[j] = links[j]
  <2>1. all = [links EXCEPT ![i] = [links[i] EXCEPT !.changed = 1]]
    BY <1>3, <1>6
  <2>2. [links[i] EXCEPT !.changed = 1] \in Links
    BY <1>4 DEF Links
  <2>3. QED
    BY <2>1, <2>2, <1>2, <1>3, <1>4, ExceptSeq
<1>8. all[i].at = links[i].at /\ all[i].consumed = links[i].consumed /\ all[i].changed = 1
  BY <1>4, <1>7 DEF Links
<1>9. /\ links' \in Seq(Links) /\ DOMAIN links' = DOMAIN links
      /\ \A j \in DOMAIN links :
            /\ links'[j].at = all[j].at /\ links'[j].consumed = all[j].consumed
            /\ links'[j].changed = all[j].changed /\ ~Resets!Usable(links'[j])
  BY <1>2, <1>6, <1>7, SupersededLinks
<1>10. /\ links'[i].consumed /\ links'[i].changed = 1
       /\ \A j \in DOMAIN links : links'[j].at = links[j].at
       /\ \A j \in DOMAIN links : j # i => /\ links'[j].consumed = links[j].consumed
                                            /\ links'[j].changed = links[j].changed
  BY <1>3, <1>7, <1>8, <1>9
<1>11. PasswordTypes'
  BY <1>2, <1>5, <1>9 DEF PasswordTypes
<1>12. ChangersOK'
  <2>1. \A d \in Callers : entering'[d].pc = "changing" =>
           d # c /\ entering'[d] = entering[d] /\ entering[d].link # i
    BY <1>1, <1>2, <1>5 DEF PasswordInv, ChangersOK
  <2>2. QED
    BY <2>1, <1>9, <1>10 DEF PasswordInv, ChangersOK
<1>13. Resets!Recent' \subseteq Resets!Recent
  BY <1>2, <1>9, <1>10 DEF Resets!Recent
<1>14. Pending' \subseteq Pending
  BY <1>5 DEF Pending
<1>15. LimitOK'
  BY <1>2, <1>13, <1>14, LimitKept DEF PasswordInv
<1>16. \A j \in DOMAIN links' : LinkOK(links[j])'
  <2>1. LinkOK(links[i])'
    BY <1>3, <1>9, <1>10 DEF LinkOK
  <2>2. ASSUME NEW j \in DOMAIN links, j # i PROVE LinkOK(links[j])'
    <3>1. links[j].changed <= 1 /\ (links[j].changed = 1 => links[j].consumed)
      BY DEF PasswordInv, LinkOK
    <3>2. QED
      BY <3>1, <2>2, <1>9, <1>10 DEF LinkOK
  <2>3. QED
    BY <2>1, <2>2, <1>9
<1>17. QED
  BY <1>2, <1>11, <1>12, <1>15, <1>16 DEF PasswordInv

LEMMA PasswordStep == PasswordsFollowed /\ [NextAll]_everything => PasswordsFollowed'
<1>. SUFFICES ASSUME PasswordsFollowed, [NextAll]_everything PROVE PasswordsFollowed'
  OBVIOUS
<1>1. CASE busy = "passwords" /\ Resets!Next /\ UNCHANGED busy
  <2>1. PasswordInv
    BY <1>1 DEF PasswordsFollowed
  <2>2. PasswordInv'
    BY <1>1, <2>1, PasswordQuiet, PasswordDelete, PasswordTick, PasswordSupersede,
       PasswordIssue, PasswordConsume, PasswordChange DEF Resets!Next
  <2>3. QED
    BY <1>1, <2>2 DEF PasswordsFollowed
<1>2. CASE busy # "passwords" /\ UNCHANGED <<busy, links, admitted>>
  BY <1>2 DEF PasswordsFollowed, Untouched
<1>3. CASE UNCHANGED <<busy, password, links, admitted, entering, clock>>
  BY <1>3 DEF PasswordsFollowed, Untouched, PasswordInv, PasswordTypes, ChangersOK, LimitOK,
              Pending, LinkOK, Resets!Recent, Resets!Usable
<1>4. QED
  <2>1. CASE NextAll /\ busy = "passwords"
    BY <2>1, <1>1 DEF NextAll
  <2>2. CASE NextAll /\ busy # "passwords"
    BY <2>2, <1>2 DEF NextAll, tenancy, resets
  <2>3. CASE UNCHANGED everything
    BY <2>3, <1>3 DEF everything, tenancy, resets
  <2>4. QED
    BY <2>1, <2>2, <2>3

LEMMA PasswordAlways == SpecAll => []PasswordsFollowed
<1>1. QED
  BY PasswordInit, PasswordStep, PTL DEF SpecAll

(* A Google account is one user and stays that of its user, through races  *)
(* of call-backs, confirmations and disconnections; and a reset link works  *)
(* once, for the password it was sent for, whatever is asked meanwhile.     *)
THEOREM AccountsTheorem == SpecAll => []AccountsHold
<1>1. SignInv /\ PasswordsFollowed => AccountsHold
  BY SignGives, PasswordGives DEF AccountsHold
<1>2. QED
  BY <1>1, SignAlways, PasswordAlways, PTL

-----------------------------------------------------------------------------
(* Grants.                                                                 *)
Signed == [agent : Agents \union {Null}, permits : Permitted,
           exception : Approvals \union {Null}, sequence : Nat,
           verdict : {"satisfied", "unsatisfied", "indeterminate"},
           ended : BOOLEAN, consumed : BOOLEAN, uses : Nat]

Bearer == [pc : {"idle", "checking", "signing", "rechecking", "using"},
           with : Signed \union {Null}, id : Leases \union {Null},
           agent : Agents \union {Null}, effect : Effects \union {Null},
           resource : Resources \union {Null}, stood : BOOLEAN]

GrantTypes ==
    /\ verdicts \in Seq(Granting!Verdicts)
    /\ grant \in [Leases -> Signed \union {Null}]
    /\ bearer \in [Callers -> Bearer]

(* What was read of the outcome and its approval is true of them for good. *)
SaysTrue(g) ==
    /\ g.sequence <= Len(verdicts) /\ g.verdict = Granting!Verdict(g.sequence)
    /\ g.verdict # "satisfied" => g.exception # Null

ApprovedOK(g) ==
    g.verdict # "satisfied" => Granting!Fits(g.exception, g.agent, g.permits.effects, g.verdict)

GrantOK(g) ==
    /\ SaysTrue(g) /\ ApprovedOK(g)
    /\ g.uses = IF g.consumed THEN 1 ELSE 0

(* While a grant's approval lives it lived at the read before.             *)
PresentedOK(k) ==
    /\ k.id \in Granting!Issued
    /\ k.effect \in grant[k.id].permits.effects
    /\ k.resource \in grant[k.id].permits.resources
    /\ grant[k.id].exception \in approved \union {Null} => k.stood
    /\ k.pc = "rechecking" => grant[k.id].exception # Null
    /\ k.pc = "using" =>
          /\ k.stood
          /\ grant[k.id].exception # Null =>
                Granting!Fits(grant[k.id].exception, k.agent, {k.effect}, grant[k.id].verdict)

BearerOK(k) ==
    /\ k.pc \in {"checking", "signing"} =>
          /\ k.with \in Signed /\ SaysTrue(k.with) /\ ~k.with.consumed /\ k.with.uses = 0
    /\ k.pc = "signing" => ApprovedOK(k.with)
    /\ k.pc \in {"rechecking", "using"} => PresentedOK(k)

GrantInv ==
    /\ GrantTypes
    /\ \A i \in Granting!Issued : GrantOK(grant[i])
    /\ \A b \in Callers : BearerOK(bearer[b])

LEMMA GrantGives == GrantInv => Granting!GrantsHold
<1>. SUFFICES ASSUME GrantInv PROVE Granting!GrantsHold
  OBVIOUS
<1>1. ASSUME NEW i \in Granting!Issued
      PROVE  /\ grant[i].verdict = Granting!Verdict(grant[i].sequence)
             /\ grant[i].verdict # "satisfied" =>
                   grant[i].exception # Null
                   /\ Granting!Fits(grant[i].exception, grant[i].agent,
                                    grant[i].permits.effects, grant[i].verdict)
             /\ grant[i].uses <= 1
  <2>1. GrantOK(grant[i])
    BY DEF GrantInv
  <2>2. QED
    BY <2>1 DEF GrantOK, SaysTrue, ApprovedOK
<1>2. ASSUME NEW b \in Callers, Granting!At(b, "using")
      PROVE  /\ bearer[b].stood
             /\ bearer[b].effect \in grant[bearer[b].id].permits.effects
             /\ bearer[b].resource \in grant[bearer[b].id].permits.resources
             /\ grant[bearer[b].id].exception # Null =>
                   Granting!Fits(grant[bearer[b].id].exception, bearer[b].agent,
                                 {bearer[b].effect}, grant[bearer[b].id].verdict)
  <2>1. BearerOK(bearer[b]) /\ bearer[b].pc = "using"
    BY <1>2 DEF GrantInv, Granting!At
  <2>2. QED
    BY <2>1 DEF BearerOK, PresentedOK
<1>3. QED
  BY <1>1, <1>2 DEF Granting!GrantsHold

LEMMA GrantInit == InitAll => GrantInv
<1>. SUFFICES ASSUME InitAll PROVE GrantInv
  OBVIOUS
<1>1. /\ verdicts = <<>> /\ grant = [i \in Leases |-> Null]
      /\ bearer = [b \in Callers |-> [pc |-> "idle", with |-> Null, id |-> Null,
                                      agent |-> Null, effect |-> Null, resource |-> Null,
                                      stood |-> FALSE]]
  BY DEF InitAll, Granting!Init, Granting!Idle
<1>2. GrantTypes
  BY <1>1 DEF GrantTypes, Bearer
<1>3. Granting!Issued = {}
  BY <1>1 DEF Granting!Issued
<1>4. QED
  BY <1>1, <1>2, <1>3 DEF GrantInv, BearerOK

LEMMA BearerStep ==
    ASSUME NEW b \in Callers, NEW k \in Bearer, GrantTypes, Granting!Become(b, k)
    PROVE  /\ bearer' \in [Callers -> Bearer] /\ bearer'[b] = k
           /\ \A d \in Callers \ {b} : bearer'[d] = bearer[d]
<1>1. bearer \in [Callers -> Bearer]
  BY DEF GrantTypes
<1>2. bearer' = [bearer EXCEPT ![b] = k]
  BY DEF Granting!Become
<1>3. QED
  BY <1>1, <1>2

LEMMA IdleBearer == Granting!Idle \in Bearer /\ BearerOK(Granting!Idle)
  BY DEF Granting!Idle, Bearer, BearerOK

(* Only the bearer moves.                                                  *)
LEMMA BearerMoves ==
    ASSUME GrantInv, NEW b \in Callers, NEW k \in Bearer, Granting!Become(b, k), BearerOK(k),
           UNCHANGED <<verdicts, approved, grant>>
    PROVE  GrantInv'
<1>1. /\ bearer' \in [Callers -> Bearer] /\ bearer'[b] = k
      /\ \A d \in Callers \ {b} : bearer'[d] = bearer[d]
  BY BearerStep DEF GrantInv
<1>2. \A d \in Callers : BearerOK(bearer'[d])
  BY <1>1 DEF GrantInv
<1>3. \A d \in Callers : BearerOK(bearer[d])'
  BY <1>2 DEF BearerOK, SaysTrue, ApprovedOK, PresentedOK, Granting!Verdict, Granting!Issued,
              Granting!Fits, Granting!Needed, Granting!Covers
<1>4. \A i \in Granting!Issued' : GrantOK(grant[i])'
  BY DEF GrantInv, GrantOK, SaysTrue, ApprovedOK, Granting!Verdict, Granting!Issued,
         Granting!Fits, Granting!Needed, Granting!Covers
<1>5. QED
  BY <1>1, <1>3, <1>4 DEF GrantInv, GrantTypes

LEMMA GrantRead ==
    ASSUME GrantInv, NEW b \in Callers, NEW agent \in Agents \union {Null},
           NEW allowed \in Permitted, NEW exception \in Approvals \union {Null},
           Granting!ReadOutcome(b, agent, allowed, exception)
    PROVE  GrantInv'
<1>1. PICK verdict : verdict = Granting!Verdict(Granting!Sequence)
  OBVIOUS
<1>2. PICK w : w = [agent |-> agent, permits |-> allowed, exception |-> exception,
                    sequence |-> Granting!Sequence, verdict |-> verdict, ended |-> FALSE,
                    consumed |-> FALSE, uses |-> 0]
  OBVIOUS
<1>3. PICK k : k = [Granting!Idle EXCEPT
                      !.pc = IF verdict = "satisfied" THEN "signing" ELSE "checking", !.with = w]
  OBVIOUS
<1>4. Granting!Become(b, k) /\ UNCHANGED <<verdicts, approved, grant>>
      /\ (verdict = "satisfied" \/ exception # Null)
  BY <1>1, <1>2, <1>3 DEF Granting!ReadOutcome, Granting!Ask
<1>5. Granting!Sequence = Len(verdicts) /\ Len(verdicts) \in Nat
      /\ verdict \in {"satisfied", "unsatisfied", "indeterminate"}
  <2>1. verdicts \in Seq(Granting!Verdicts)
    BY DEF GrantInv, GrantTypes
  <2>2. Len(verdicts) \in Nat /\ (Len(verdicts) # 0 => verdicts[Len(verdicts)] \in Granting!Verdicts)
    BY <2>1, LenProperties, ElementOfSeq
  <2>3. QED
    BY <2>2, <1>1 DEF Granting!Verdict, Granting!Sequence, Granting!Verdicts
<1>6. w \in Signed
  BY <1>2, <1>5 DEF Signed
<1>7. /\ k \in Bearer /\ k.with = w
      /\ k.pc = IF verdict = "satisfied" THEN "signing" ELSE "checking"
  BY <1>3, <1>6 DEF Bearer, Granting!Idle
<1>8. SaysTrue(w)
  BY <1>1, <1>2, <1>4, <1>5 DEF SaysTrue
<1>9. BearerOK(k)
  BY <1>2, <1>6, <1>7, <1>8 DEF BearerOK, ApprovedOK
<1>10. QED
  BY <1>4, <1>7, <1>9, BearerMoves

LEMMA GrantCheck ==
    ASSUME GrantInv, NEW b \in Callers, Granting!CheckException(b)
    PROVE  GrantInv'
<1>1. PICK k : k = bearer[b]
  OBVIOUS
<1>2. k \in Bearer /\ BearerOK(k) /\ k.pc = "checking" /\ UNCHANGED <<verdicts, approved, grant>>
  BY <1>1 DEF GrantInv, GrantTypes, Granting!CheckException, Granting!At
<1>3. CASE Granting!Return(b)
  BY <1>2, <1>3, IdleBearer, BearerMoves DEF Granting!Return
<1>4. CASE /\ ~Granting!ExceptionCannotAuthorize(k.with.exception, k.with.agent,
                                                 k.with.permits.effects, k.with.verdict)
           /\ Granting!Become(b, [k EXCEPT !.pc = "signing"])
  <2>1. PICK n : n = [k EXCEPT !.pc = "signing"]
    OBVIOUS
  <2>2. n \in Bearer /\ n.pc = "signing" /\ n.with = k.with
    BY <2>1, <1>2 DEF Bearer
  <2>3. ApprovedOK(n.with)
    BY <1>4, <2>2 DEF ApprovedOK, Granting!ExceptionCannotAuthorize
  <2>4. BearerOK(n)
    BY <1>2, <2>2, <2>3 DEF BearerOK
  <2>5. QED
    BY <1>2, <1>4, <2>1, <2>2, <2>4, BearerMoves
<1>5. QED
  BY <1>1, <1>3, <1>4 DEF Granting!CheckException

LEMMA GrantPresent ==
    ASSUME GrantInv, NEW b \in Callers, NEW i \in Granting!Issued,
           NEW agent \in Agents \union {Null}, NEW effect \in Effects,
           NEW resource \in Resources, Granting!Present(b, i, agent, effect, resource)
    PROVE  GrantInv'
<1>1. PICK k : k = [pc |-> IF grant[i].exception = Null THEN "using" ELSE "rechecking",
                    with |-> Null, id |-> i, agent |-> agent, effect |-> effect,
                    resource |-> resource,
                    stood |-> grant[i].exception \in approved \union {Null}]
  OBVIOUS
<1>2. Granting!Become(b, k) /\ UNCHANGED <<verdicts, approved, grant>>
      /\ effect \in grant[i].permits.effects /\ resource \in grant[i].permits.resources
  BY <1>1 DEF Granting!Present, Granting!Ask, Granting!Unusable
<1>3. k \in Bearer
  BY <1>1 DEF Bearer, Granting!Issued
<1>4. PresentedOK(k)
  BY <1>1, <1>2 DEF PresentedOK
<1>5. BearerOK(k)
  BY <1>1, <1>4 DEF BearerOK
<1>6. QED
  BY <1>2, <1>3, <1>5, BearerMoves

LEMMA GrantRecheck ==
    ASSUME GrantInv, NEW b \in Callers, Granting!RecheckException(b)
    PROVE  GrantInv'
<1>1. PICK k : k = bearer[b]
  OBVIOUS
<1>2. k \in Bearer /\ BearerOK(k) /\ k.pc = "rechecking" /\ UNCHANGED <<verdicts, approved, grant>>
  BY <1>1 DEF GrantInv, GrantTypes, Granting!RecheckException, Granting!At
<1>3. CASE Granting!Return(b)
  BY <1>2, <1>3, IdleBearer, BearerMoves DEF Granting!Return
<1>4. CASE /\ ~Granting!ExceptionCannotAuthorize(grant[k.id].exception, k.agent, {k.effect},
                                                 grant[k.id].verdict)
           /\ Granting!Become(b, [k EXCEPT !.pc = "using"])
  <2>1. PICK n : n = [k EXCEPT !.pc = "using"]
    OBVIOUS
  <2>2. /\ n \in Bearer /\ n.pc = "using" /\ n.id = k.id /\ n.agent = k.agent
        /\ n.effect = k.effect /\ n.resource = k.resource /\ n.stood = k.stood
    BY <2>1, <1>2 DEF Bearer
  <2>3. /\ grant[k.id].exception \in approved
        /\ Granting!Fits(grant[k.id].exception, k.agent, {k.effect}, grant[k.id].verdict)
    BY <1>4 DEF Granting!ExceptionCannotAuthorize
  <2>4. PresentedOK(k)
    BY <1>2 DEF BearerOK
  <2>5. PresentedOK(n)
    BY <2>2, <2>3, <2>4 DEF PresentedOK
  <2>6. BearerOK(n)
    BY <2>2, <2>5 DEF BearerOK
  <2>7. QED
    BY <1>2, <1>4, <2>1, <2>2, <2>6, BearerMoves
<1>5. QED
  BY <1>1, <1>3, <1>4 DEF Granting!RecheckException

(* A grant that is signed says what was read, and is read again as it was. *)
LEMMA GrantInsert ==
    ASSUME GrantInv, NEW b \in Callers, Granting!InsertGrant(b)
    PROVE  GrantInv'
<1>1. PICK w : w = bearer[b].with
  OBVIOUS
<1>2. PICK i \in Leases \ Granting!Issued : grant' = [grant EXCEPT ![i] = w]
  BY <1>1 DEF Granting!InsertGrant
<1>3. /\ Granting!Become(b, Granting!Idle) /\ UNCHANGED <<verdicts, approved>>
      /\ bearer[b].pc = "signing"
  BY DEF Granting!InsertGrant, Granting!Return, Granting!At
<1>4. w \in Signed /\ GrantOK(w)
  <2>1. BearerOK(bearer[b])
    BY DEF GrantInv
  <2>2. QED
    BY <1>1, <1>3, <2>1 DEF BearerOK, GrantOK
<1>5. /\ grant' \in [Leases -> Signed \union {Null}] /\ grant'[i] = w
      /\ \A j \in Leases : j # i => grant'[j] = grant[j]
  BY <1>2, <1>4 DEF GrantInv, GrantTypes
<1>6. \A j \in Granting!Issued : grant'[j] = grant[j] /\ j \in Granting!Issued'
  BY <1>2, <1>5 DEF Granting!Issued
<1>7. /\ bearer' \in [Callers -> Bearer] /\ bearer'[b] = Granting!Idle
      /\ \A d \in Callers \ {b} : bearer'[d] = bearer[d]
  BY <1>3, IdleBearer, BearerStep DEF GrantInv
<1>8. ASSUME NEW j \in Granting!Issued' PROVE GrantOK(grant[j])'
  <2>1. GrantOK(grant'[j])
    <3>1. CASE j = i
      BY <3>1, <1>4, <1>5
    <3>2. CASE j # i
      BY <3>2, <1>5 DEF GrantInv, Granting!Issued
    <3>3. QED
      BY <3>1, <3>2
  <2>2. QED
    BY <2>1, <1>3 DEF GrantOK, SaysTrue, ApprovedOK, Granting!Verdict,
                      Granting!Fits, Granting!Needed, Granting!Covers
<1>9. ASSUME NEW d \in Callers PROVE BearerOK(bearer[d])'
  <2>1. BearerOK(bearer'[d])
    BY <1>7, IdleBearer DEF GrantInv
  <2>2. bearer'[d].pc \in {"rechecking", "using"} => PresentedOK(bearer[d])'
    <3>1. SUFFICES ASSUME PresentedOK(bearer'[d]) PROVE PresentedOK(bearer[d])'
      BY <2>1 DEF BearerOK
    <3>2. bearer'[d].id \in Granting!Issued
      BY <3>1 DEF PresentedOK
    <3>3. grant'[bearer'[d].id] = grant[bearer'[d].id] /\ bearer'[d].id \in Granting!Issued'
      BY <3>2, <1>6
    <3>4. QED
      BY <3>1, <3>3, <1>3 DEF PresentedOK, Granting!Fits, Granting!Needed, Granting!Covers
  <2>3. QED
    BY <2>1, <2>2, <1>3 DEF BearerOK, SaysTrue, ApprovedOK, Granting!Verdict,
                            Granting!Fits, Granting!Needed, Granting!Covers
<1>10. GrantTypes'
  BY <1>3, <1>5, <1>7 DEF GrantInv, GrantTypes
<1>11. QED
  BY <1>8, <1>9, <1>10 DEF GrantInv

(* A grant that is used or ended stays the grant it was.                   *)
LEMMA GrantChanges ==
    ASSUME GrantInv, NEW i \in Granting!Issued, NEW g \in Signed,
           grant' = [grant EXCEPT ![i] = g], UNCHANGED <<verdicts, approved>>,
           bearer' \in [Callers -> Bearer],
           \A d \in Callers : bearer'[d] = bearer[d] \/ bearer'[d] = Granting!Idle,
           \/ g = [grant[i] EXCEPT !.ended = TRUE]
           \/ /\ ~grant[i].consumed
              /\ g = [grant[i] EXCEPT !.consumed = TRUE, !.uses = grant[i].uses + 1]
    PROVE  GrantInv'
<1>1. /\ grant' \in [Leases -> Signed \union {Null}] /\ grant'[i] = g
      /\ \A j \in Leases : j # i => grant'[j] = grant[j]
      /\ i \in Leases /\ grant[i] \in Signed
  BY DEF GrantInv, GrantTypes, Granting!Issued
<1>2. /\ g.agent = grant[i].agent /\ g.permits = grant[i].permits
      /\ g.exception = grant[i].exception /\ g.sequence = grant[i].sequence
      /\ g.verdict = grant[i].verdict
  BY <1>1 DEF Signed
<1>3. GrantOK(g)
  <2>1. GrantOK(grant[i])
    BY DEF GrantInv
  <2>2. g.uses = IF g.consumed THEN 1 ELSE 0
    <3>1. grant[i].uses = IF grant[i].consumed THEN 1 ELSE 0
      BY <2>1 DEF GrantOK
    <3>2. CASE g = [grant[i] EXCEPT !.ended = TRUE]
      <4>1. g.uses = grant[i].uses /\ g.consumed = grant[i].consumed
        BY <3>2, <1>1 DEF Signed
      <4>2. QED
        BY <3>1, <4>1
    <3>3. CASE /\ ~grant[i].consumed
               /\ g = [grant[i] EXCEPT !.consumed = TRUE, !.uses = grant[i].uses + 1]
      <4>1. g.uses = grant[i].uses + 1 /\ g.consumed
        BY <3>3, <1>1 DEF Signed
      <4>2. QED
        BY <3>1, <3>3, <4>1
    <3>4. QED
      BY <3>2, <3>3
  <2>3. QED
    BY <2>1, <2>2, <1>2 DEF GrantOK, SaysTrue, ApprovedOK
<1>4. Null \notin Signed
  BY GovernanceNull DEF Signed
<1>5. Granting!Issued' = Granting!Issued
  BY <1>1, <1>4 DEF Granting!Issued
<1>6. ASSUME NEW j \in Granting!Issued' PROVE GrantOK(grant[j])'
  <2>1. GrantOK(grant'[j])
    BY <1>1, <1>3, <1>5 DEF GrantInv, Granting!Issued
  <2>2. QED
    BY <2>1 DEF GrantOK, SaysTrue, ApprovedOK, Granting!Verdict,
                Granting!Fits, Granting!Needed, Granting!Covers
<1>7. ASSUME NEW d \in Callers PROVE BearerOK(bearer[d])'
  <2>1. BearerOK(bearer'[d])
    BY IdleBearer DEF GrantInv
  <2>2. bearer'[d].pc \in {"rechecking", "using"} => PresentedOK(bearer[d])'
    <3>1. SUFFICES ASSUME PresentedOK(bearer'[d]) PROVE PresentedOK(bearer[d])'
      BY <2>1 DEF BearerOK
    <3>2. PICK j : j = bearer'[d].id
      OBVIOUS
    <3>3. j \in Granting!Issued /\ j \in Leases
      BY <3>1, <3>2 DEF PresentedOK, Granting!Issued
    <3>4. /\ grant'[j].permits = grant[j].permits /\ grant'[j].exception = grant[j].exception
          /\ grant'[j].verdict = grant[j].verdict
      BY <3>3, <1>1, <1>2
    <3>5. QED
      BY <3>1, <3>2, <3>3, <3>4, <1>5
      DEF PresentedOK, Granting!Fits, Granting!Needed, Granting!Covers
  <2>3. QED
    BY <2>1, <2>2 DEF BearerOK, SaysTrue, ApprovedOK, Granting!Verdict,
                      Granting!Fits, Granting!Needed, Granting!Covers
<1>8. GrantTypes'
  BY <1>1 DEF GrantInv, GrantTypes
<1>9. QED
  BY <1>6, <1>7, <1>8 DEF GrantInv

LEMMA GrantConsume ==
    ASSUME GrantInv, NEW b \in Callers, Granting!ConsumeGrant(b)
    PROVE  GrantInv'
<1>1. PICK i : i = bearer[b].id
  OBVIOUS
<1>2. /\ bearer[b].pc = "using" /\ Granting!Become(b, Granting!Idle)
      /\ UNCHANGED <<verdicts, approved>>
      /\ grant' = IF Granting!Live(grant[i])
                  THEN [grant EXCEPT ![i].consumed = TRUE, ![i].uses = @ + 1] ELSE grant
  BY <1>1 DEF Granting!ConsumeGrant, Granting!At, Granting!Return
<1>3. i \in Granting!Issued
  <2>1. BearerOK(bearer[b])
    BY DEF GrantInv
  <2>2. QED
    BY <1>1, <1>2, <2>1 DEF BearerOK, PresentedOK
<1>4. CASE ~Granting!Live(grant[i])
  BY <1>2, <1>4, IdleBearer, BearerMoves
<1>5. CASE Granting!Live(grant[i])
  <2>1. grant \in [Leases -> Signed \union {Null}] /\ i \in Leases /\ grant[i] \in Signed
    BY <1>3 DEF GrantInv, GrantTypes, Granting!Issued
  <2>2. PICK g : g = [grant[i] EXCEPT !.consumed = TRUE, !.uses = grant[i].uses + 1]
    OBVIOUS
  <2>3. g \in Signed
    <3>1. grant[i].uses + 1 \in Nat
      BY <2>1 DEF Signed
    <3>2. QED
      BY <2>1, <2>2, <3>1 DEF Signed
  <2>4. grant' = [grant EXCEPT ![i] = g]
    BY <1>2, <1>5, <2>1, <2>2 DEF Signed
  <2>5. /\ bearer' \in [Callers -> Bearer]
        /\ \A d \in Callers : bearer'[d] = bearer[d] \/ bearer'[d] = Granting!Idle
    BY <1>2, IdleBearer, BearerStep DEF GrantInv
  <2>6. QED
    BY <1>2, <1>3, <1>5, <2>2, <2>3, <2>4, <2>5, GrantChanges DEF Granting!Live
<1>6. QED
  BY <1>4, <1>5

LEMMA GrantRevoke == GrantInv /\ Granting!RevokeGrant => GrantInv'
<1>. SUFFICES ASSUME GrantInv, Granting!RevokeGrant PROVE GrantInv'
  OBVIOUS
<1>1. PICK i \in Granting!Issued : grant' = [grant EXCEPT ![i].ended = TRUE]
  BY DEF Granting!RevokeGrant
<1>2. UNCHANGED <<verdicts, approved, bearer>>
  BY DEF Granting!RevokeGrant
<1>3. grant \in [Leases -> Signed \union {Null}] /\ i \in Leases /\ grant[i] \in Signed
  BY <1>1 DEF GrantInv, GrantTypes, Granting!Issued
<1>4. PICK g : g = [grant[i] EXCEPT !.ended = TRUE]
  OBVIOUS
<1>5. g \in Signed /\ grant' = [grant EXCEPT ![i] = g]
  BY <1>1, <1>3, <1>4 DEF Signed
<1>6. bearer' \in [Callers -> Bearer]
  BY <1>2 DEF GrantInv, GrantTypes
<1>7. QED
  BY <1>1, <1>2, <1>4, <1>5, <1>6, GrantChanges

LEMMA GrantWithdraw == GrantInv /\ Granting!WithdrawApproval => GrantInv'
<1>. SUFFICES ASSUME GrantInv, Granting!WithdrawApproval PROVE GrantInv'
  OBVIOUS
<1>1. UNCHANGED <<verdicts, bearer, grant>> /\ approved' \subseteq approved
  BY DEF Granting!WithdrawApproval
<1>2. ASSUME NEW d \in Callers PROVE BearerOK(bearer[d])'
  <2>1. BearerOK(bearer[d])
    BY DEF GrantInv
  <2>2. QED
    BY <1>1, <2>1 DEF BearerOK, SaysTrue, ApprovedOK, PresentedOK, Granting!Verdict,
                      Granting!Issued, Granting!Fits, Granting!Needed, Granting!Covers
<1>3. \A i \in Granting!Issued' : GrantOK(grant[i])'
  BY <1>1 DEF GrantInv, GrantOK, SaysTrue, ApprovedOK, Granting!Verdict, Granting!Issued,
              Granting!Fits, Granting!Needed, Granting!Covers
<1>4. QED
  BY <1>1, <1>2, <1>3 DEF GrantInv, GrantTypes

LEMMA GrantEvaluate == GrantInv /\ Granting!EvaluateOutcome => GrantInv'
<1>. SUFFICES ASSUME GrantInv, Granting!EvaluateOutcome PROVE GrantInv'
  OBVIOUS
<1>1. PICK v \in Granting!Verdicts : verdicts' = Append(verdicts, v)
  BY DEF Granting!EvaluateOutcome
<1>2. UNCHANGED <<approved, bearer, grant>>
  BY DEF Granting!EvaluateOutcome
<1>3. /\ verdicts \in Seq(Granting!Verdicts) /\ Len(verdicts) \in Nat
      /\ verdicts' \in Seq(Granting!Verdicts) /\ Len(verdicts') = Len(verdicts) + 1
      /\ \A n \in 1..Len(verdicts) : verdicts'[n] = verdicts[n]
  <2>1. verdicts \in Seq(Granting!Verdicts)
    BY DEF GrantInv, GrantTypes
  <2>2. QED
    BY <1>1, <2>1, AppendProperties, LenProperties
<1>4. ASSUME NEW g \in Signed, SaysTrue(g) PROVE SaysTrue(g)'
  <2>1. g.sequence \in Nat
    BY DEF Signed
  <2>2. QED
    BY <1>3, <1>4, <2>1 DEF SaysTrue, Granting!Verdict
<1>5. ASSUME NEW d \in Callers PROVE BearerOK(bearer[d])'
  <2>1. BearerOK(bearer[d])
    BY DEF GrantInv
  <2>2. PresentedOK(bearer[d]) => PresentedOK(bearer[d])'
    BY <1>2 DEF PresentedOK, Granting!Issued, Granting!Fits, Granting!Needed, Granting!Covers
  <2>3. bearer[d].pc \in {"checking", "signing"} =>
           bearer[d].with \in Signed /\ SaysTrue(bearer[d].with)'
    BY <1>2, <1>4, <2>1 DEF BearerOK, SaysTrue
  <2>4. QED
    BY <1>2, <2>1, <2>2, <2>3 DEF BearerOK, SaysTrue, ApprovedOK, Granting!Verdict,
                                  Granting!Fits, Granting!Needed, Granting!Covers
<1>6. ASSUME NEW i \in Granting!Issued' PROVE GrantOK(grant[i])'
  <2>1. GrantOK(grant[i]) /\ grant[i] \in Signed
    BY <1>2 DEF GrantInv, GrantTypes, Granting!Issued
  <2>2. SaysTrue(grant[i])'
    BY <1>2, <1>4, <2>1 DEF GrantOK, SaysTrue
  <2>3. QED
    BY <1>2, <2>1, <2>2 DEF GrantOK, ApprovedOK, Granting!Fits, Granting!Needed, Granting!Covers
<1>7. QED
  BY <1>2, <1>3, <1>5, <1>6 DEF GrantInv, GrantTypes

LEMMA GrantStep == GrantInv /\ [NextAll]_everything => GrantInv'
<1>. SUFFICES ASSUME GrantInv, [NextAll]_everything PROVE GrantInv'
  OBVIOUS
<1>1. CASE Granting!Next
  BY <1>1, GrantRead, GrantCheck, GrantInsert, GrantPresent, GrantRecheck, GrantConsume,
     GrantRevoke, GrantWithdraw, GrantEvaluate DEF Granting!Next
<1>2. CASE UNCHANGED granting
  <2>1. UNCHANGED <<verdicts, approved, grant, bearer>>
    BY <1>2 DEF granting
  <2>2. QED
    BY <2>1 DEF GrantInv, GrantTypes, GrantOK, BearerOK, SaysTrue, ApprovedOK, PresentedOK,
                Granting!Verdict, Granting!Issued, Granting!Fits, Granting!Needed, Granting!Covers
<1>3. QED
  BY <1>1, <1>2 DEF NextAll, everything, authorities

LEMMA GrantAlways == SpecAll => []GrantInv
<1>1. QED
  BY GrantInit, GrantStep, PTL DEF SpecAll

-----------------------------------------------------------------------------
(* What an action is bound to.                                             *)
Versions == [of : {Effect, Null}, version : Nat]

Reading == [mode : Submitting!Modes \union {Null}, policy : Versions \union {Null}]

Submitter == [pc : {"idle", "submitting", "governing", "scoping", "reading", "binding",
                    "dispatching", "switching"},
              agent : Agents \union {Null}, approved : BOOLEAN,
              mode : Submitting!Modes \union {Null}, policy : Versions \union {Null},
              bound : Reading \union {Null}]

Bound == [mode : Submitting!Modes, policy : Versions]

Submission == [agent : Agents \union {Null}, scoped : BOOLEAN,
               binding : Bound \union {Null},
               dispatched : [approved : BOOLEAN, mode : Submitting!Modes,
                             policy : Versions] \union {Null}]

BindingTypes ==
    /\ policies \in [{Effect, Null} -> Seq(Submitting!ExecutionModes)]
    /\ posture \in Submitting!Modes /\ plan \in DOMAIN Plans
    /\ submitted \in Submission
    /\ submitter \in [Callers -> Submitter]

(* A submission goes on under a policy that exists, and with the approval   *)
(* it asks for.                                                            *)
HeldTo(k) ==
    /\ k.mode \in {"canary", "enforced"} /\ k.policy \in Versions
    /\ k.policy.version \in 1..Len(policies[k.policy.of])
    /\ Submitting!ExecutionMode(k.policy) = "approval_required" => k.approved

SubmitterOK(k) ==
    /\ k.pc = "governing" => k.mode \in {"canary", "enforced"}
    /\ k.pc \in {"scoping", "reading", "binding", "dispatching"} => HeldTo(k)
    /\ k.pc = "reading" => k.bound \in Reading
    /\ k.pc = "dispatching" => submitted.binding = [mode |-> k.mode, policy |-> k.policy]
    /\ k.pc = "switching" =>
          k.mode \in Submitting!Modes /\ Submitting!FeatureForMode(k.mode) \subseteq offered

DispatchedOK ==
    submitted.dispatched # Null =>
        LET d == submitted.dispatched IN
        HeldTo(d) /\ submitted.binding = [mode |-> d.mode, policy |-> d.policy]

BindingInv ==
    /\ BindingTypes /\ DispatchedOK
    /\ policies[Null] # <<>>
    /\ \A c \in Callers : SubmitterOK(submitter[c])
    /\ Plans[plan] \subseteq offered
    /\ Submitting!FeatureForMode(posture) \subseteq offered

LEMMA BindingGives == BindingInv => Submitting!BindingsHold
<1>. SUFFICES ASSUME BindingInv PROVE Submitting!BindingsHold
  OBVIOUS
<1>1. ASSUME submitted.dispatched # Null
      PROVE  LET d == submitted.dispatched IN
             /\ submitted.binding = [mode |-> d.mode, policy |-> d.policy]
             /\ submitted.binding.mode # "shadow"
             /\ Submitting!ExecutionMode(submitted.binding.policy) = "approval_required" =>
                   d.approved
  BY <1>1 DEF BindingInv, DispatchedOK, HeldTo
<1>2. QED
  BY <1>1 DEF BindingInv, Submitting!BindingsHold

LEMMA BindingInit == InitAll => BindingInv
<1>. SUFFICES ASSUME InitAll PROVE BindingInv
  OBVIOUS
<1>1. /\ policies = [e \in {Effect, Null} |-> IF e = Null THEN <<"automatic">> ELSE <<>>]
      /\ posture = "shadow" /\ plan \in DOMAIN Plans /\ offered = Plans[plan]
      /\ submitted = [agent |-> Null, scoped |-> FALSE, binding |-> Null, dispatched |-> Null]
      /\ submitter = [c \in Callers |-> Submitting!Idle]
  BY DEF InitAll, Submitting!Init
<1>2. Submitting!Idle \in Submitter /\ Submitting!Idle.pc = "idle"
  BY DEF Submitting!Idle, Submitter
<1>3. BindingTypes
  <2>1. policies \in [{Effect, Null} -> Seq(Submitting!ExecutionModes)]
    <3>1. <<"automatic">> \in Seq(Submitting!ExecutionModes)
      BY DEF Submitting!ExecutionModes
    <3>2. <<>> \in Seq(Submitting!ExecutionModes)
      OBVIOUS
    <3>3. \A e \in {Effect, Null} : (IF e = Null THEN <<"automatic">> ELSE <<>>)
                                       \in Seq(Submitting!ExecutionModes)
      BY <3>1, <3>2
    <3>4. QED
      BY <1>1, <3>3, Zenon
  <2>2. QED
    BY <1>1, <1>2, <2>1 DEF BindingTypes, Submission, Submitting!Modes
<1>4. \A c \in Callers : SubmitterOK(submitter[c])
  BY <1>1, <1>2 DEF SubmitterOK
<1>5. Submitting!FeatureForMode(posture) = {}
  BY <1>1 DEF Submitting!FeatureForMode
<1>6. QED
  BY <1>1, <1>3, <1>4, <1>5 DEF BindingInv, DispatchedOK

LEMMA SubmitterStep ==
    ASSUME NEW c \in Callers, NEW k \in Submitter, BindingTypes, Submitting!Become(c, k)
    PROVE  /\ submitter' \in [Callers -> Submitter] /\ submitter'[c] = k
           /\ \A d \in Callers \ {c} : submitter'[d] = submitter[d]
<1>1. submitter \in [Callers -> Submitter]
  BY DEF BindingTypes
<1>2. submitter' = [submitter EXCEPT ![c] = k]
  BY DEF Submitting!Become
<1>3. QED
  BY <1>1, <1>2

LEMMA IdleSubmitter == Submitting!Idle \in Submitter /\ SubmitterOK(Submitting!Idle)
<1>1. Submitting!Idle \in Submitter /\ Submitting!Idle.pc = "idle"
  BY DEF Submitting!Idle, Submitter
<1>2. QED
  BY <1>1 DEF SubmitterOK

(* The submitter moves; the action is as it was, or is bound.              *)
LEMMA SubmitterMoves ==
    ASSUME BindingInv, NEW c \in Callers, NEW k \in Submitter, Submitting!Become(c, k),
           SubmitterOK(k)', UNCHANGED <<policies, plan, offered>>,
           posture' \in Submitting!Modes, Submitting!FeatureForMode(posture') \subseteq offered,
           submitted' \in Submission, DispatchedOK',
           submitted.binding # Null => submitted'.binding = submitted.binding
    PROVE  BindingInv'
<1>1. /\ submitter' \in [Callers -> Submitter] /\ submitter'[c] = k
      /\ \A d \in Callers \ {c} : submitter'[d] = submitter[d]
  BY SubmitterStep DEF BindingInv
<1>2. ASSUME NEW d \in Callers PROVE SubmitterOK(submitter[d])'
  <2>1. CASE d = c
    BY <2>1, <1>1
  <2>2. CASE d # c
    <3>1. SubmitterOK(submitter[d]) /\ submitter'[d] = submitter[d]
      BY <1>1, <2>2 DEF BindingInv
    <3>2. submitter[d].pc = "dispatching" => submitted.binding # Null
      <4>1. SUFFICES ASSUME submitter[d].pc = "dispatching" PROVE submitted.binding # Null
        OBVIOUS
      <4>2. /\ submitted.binding = [mode |-> submitter[d].mode, policy |-> submitter[d].policy]
            /\ submitter[d].mode \in Submitting!Modes /\ submitter[d].policy \in Versions
        BY <3>1, <4>1 DEF SubmitterOK, HeldTo, Submitting!Modes
      <4>3. QED
        BY <4>2, GovernanceNull DEF Submitting!Modes, Versions
    <3>3. QED
      BY <3>1, <3>2 DEF SubmitterOK, HeldTo, Submitting!ExecutionMode
  <2>3. QED
    BY <2>1, <2>2
<1>3. QED
  BY <1>1, <1>2 DEF BindingInv, BindingTypes

(* Nothing but the submitter moves.                                        *)
LEMMA SubmitterOnly ==
    ASSUME BindingInv, NEW c \in Callers, NEW k \in Submitter, Submitting!Become(c, k),
           SubmitterOK(k), UNCHANGED <<policies, plan, offered, posture, submitted>>
    PROVE  BindingInv'
<1>1. SubmitterOK(k)'
  BY DEF SubmitterOK, HeldTo, Submitting!ExecutionMode
<1>2. DispatchedOK'
  BY DEF BindingInv, DispatchedOK, HeldTo, Submitting!ExecutionMode
<1>3. QED
  BY <1>1, <1>2, SubmitterMoves DEF BindingInv, BindingTypes

LEMMA BindingAbandon ==
    ASSUME BindingInv, NEW c \in Callers, Submitting!Return(c),
           UNCHANGED <<policies, plan, offered, posture, submitted>>
    PROVE  BindingInv'
  BY IdleSubmitter, SubmitterOnly DEF Submitting!Return

LEMMA BindingAsk ==
    ASSUME BindingInv, NEW c \in Callers, NEW k \in ApiKeys \union {Null},
           NEW agent \in Agents \union {Null}, NEW approved_ \in BOOLEAN,
           Submitting!ResolveActingAgent(c, k, agent, approved_)
    PROVE  BindingInv'
<1>1. PICK n : n = [Submitting!Idle EXCEPT
                      !.pc = "submitting", !.agent = Submitting!ActingAgent(k, agent),
                      !.approved = approved_ /\ k = Null]
  OBVIOUS
<1>2. Submitting!Become(c, n) /\ UNCHANGED <<policies, plan, offered, posture, submitted>>
  BY <1>1 DEF Submitting!ResolveActingAgent, Submitting!Ask, Submitting!settings
<1>3. Submitting!ActingAgent(k, agent) \in Agents \union {Null}
  BY GovernancePolicy DEF Submitting!ActingAgent
<1>4. n \in Submitter /\ n.pc = "submitting"
  BY <1>1, <1>3 DEF Submitting!Idle, Submitter
<1>5. SubmitterOK(n)
  BY <1>4 DEF SubmitterOK
<1>6. QED
  BY <1>2, <1>4, <1>5, SubmitterOnly

LEMMA BindingMode ==
    ASSUME BindingInv, NEW c \in Callers, Submitting!ResolveExecutionMode(c)
    PROVE  BindingInv'
<1>1. UNCHANGED <<policies, plan, offered, posture, submitted>>
  BY DEF Submitting!ResolveExecutionMode, Submitting!settings
<1>2. CASE Submitting!Return(c)
  BY <1>1, <1>2, BindingAbandon
<1>3. CASE /\ posture # "shadow"
           /\ Submitting!Become(c, [submitter[c] EXCEPT !.pc = "governing", !.mode = posture])
  <2>1. PICK n : n = [submitter[c] EXCEPT !.pc = "governing", !.mode = posture]
    OBVIOUS
  <2>2. submitter[c] \in Submitter /\ posture \in {"canary", "enforced"}
    BY <1>3 DEF BindingInv, BindingTypes, Submitting!Modes
  <2>3. n \in Submitter /\ n.pc = "governing" /\ n.mode \in {"canary", "enforced"}
    BY <2>1, <2>2 DEF Submitter, Submitting!Modes
  <2>4. SubmitterOK(n)
    BY <2>3 DEF SubmitterOK
  <2>5. QED
    BY <1>1, <1>3, <2>1, <2>3, <2>4, SubmitterOnly
<1>4. QED
  BY <1>2, <1>3 DEF Submitting!ResolveExecutionMode

(* There is a current policy.                                              *)
LEMMA CurrentExists ==
    ASSUME BindingInv
    PROVE  /\ Submitting!CurrentPolicy \in Versions
           /\ Submitting!CurrentPolicy.version \in 1..Len(policies[Submitting!CurrentPolicy.of])
<1>1. PICK of : of = IF policies[Effect] # <<>> THEN Effect ELSE Null
  OBVIOUS
<1>2. Submitting!CurrentPolicy = [of |-> of, version |-> Len(policies[of])]
  BY <1>1 DEF Submitting!CurrentPolicy
<1>3. of \in {Effect, Null} /\ policies[of] # <<>>
  BY <1>1 DEF BindingInv
<1>4. policies[of] \in Seq(Submitting!ExecutionModes)
  BY <1>3 DEF BindingInv, BindingTypes
<1>5. Len(policies[of]) \in Nat /\ Len(policies[of]) # 0
  BY <1>3, <1>4, LenProperties, EmptySeq
<1>6. QED
  BY <1>2, <1>3, <1>5 DEF Versions

LEMMA BindingPolicy ==
    ASSUME BindingInv, NEW c \in Callers, Submitting!ReadPolicy(c)
    PROVE  BindingInv'
<1>1. UNCHANGED <<policies, plan, offered, posture, submitted>> /\ submitter[c].pc = "governing"
  BY DEF Submitting!ReadPolicy, Submitting!settings, Submitting!At
<1>2. CASE Submitting!Return(c)
  BY <1>1, <1>2, BindingAbandon
<1>3. CASE /\ Submitting!ExecutionMode(Submitting!CurrentPolicy) = "approval_required" =>
                 submitter[c].approved
           /\ Submitting!Become(c, [submitter[c] EXCEPT
                                      !.pc = "scoping", !.policy = Submitting!CurrentPolicy])
  <2>1. PICK p : p = Submitting!CurrentPolicy
    OBVIOUS
  <2>2. PICK n : n = [submitter[c] EXCEPT !.pc = "scoping", !.policy = p]
    OBVIOUS
  <2>3. /\ submitter[c] \in Submitter /\ p \in Versions
        /\ p.version \in 1..Len(policies[p.of])
    BY <2>1, CurrentExists DEF BindingInv, BindingTypes
  <2>4. submitter[c].mode \in {"canary", "enforced"}
    BY <1>1 DEF BindingInv, SubmitterOK
  <2>5. /\ n \in Submitter /\ n.pc = "scoping" /\ n.mode = submitter[c].mode
        /\ n.policy = p /\ n.approved = submitter[c].approved
    BY <2>2, <2>3 DEF Submitter
  <2>6. SubmitterOK(n)
    BY <1>3, <2>1, <2>3, <2>4, <2>5 DEF SubmitterOK, HeldTo
  <2>7. QED
    BY <1>1, <1>3, <2>1, <2>2, <2>5, <2>6, SubmitterOnly
<1>4. QED
  BY <1>2, <1>3 DEF Submitting!ReadPolicy

LEMMA BindingScope ==
    ASSUME BindingInv, NEW c \in Callers, Submitting!ScopeAction(c)
    PROVE  BindingInv'
<1>1. PICK n : n = [submitter[c] EXCEPT !.pc = "reading", !.bound = [mode |-> Null,
                                                                    policy |-> Null]]
  OBVIOUS
<1>2. /\ submitter[c] \in Submitter /\ submitter[c].pc = "scoping"
      /\ submitted \in Submission /\ SubmitterOK(submitter[c])
  BY DEF BindingInv, BindingTypes, Submitting!ScopeAction, Submitting!At
<1>3. /\ Submitting!Become(c, n) /\ UNCHANGED <<policies, plan, offered, posture>>
      /\ submitted' = IF submitted.scoped THEN submitted
                      ELSE [submitted EXCEPT !.scoped = TRUE, !.agent = submitter[c].agent]
  BY <1>1 DEF Submitting!ScopeAction, Submitting!settings
<1>4. /\ n \in Submitter /\ n.pc = "reading" /\ n.bound \in Reading
      /\ n.mode = submitter[c].mode /\ n.policy = submitter[c].policy
      /\ n.approved = submitter[c].approved
  <2>1. [mode |-> Null, policy |-> Null] \in Reading
    BY DEF Reading
  <2>2. n \in Submitter /\ n.pc = "reading" /\ n.bound = [mode |-> Null, policy |-> Null]
        /\ n.mode = submitter[c].mode /\ n.policy = submitter[c].policy
        /\ n.approved = submitter[c].approved
    BY <1>1, <1>2, <2>1 DEF Submitter
  <2>3. QED
    BY <2>1, <2>2
<1>5. submitter[c].agent \in Agents \union {Null}
  BY <1>2 DEF Submitter
<1>6. /\ submitted' \in Submission /\ submitted'.binding = submitted.binding
      /\ submitted'.dispatched = submitted.dispatched
  BY <1>2, <1>3, <1>5 DEF Submission
<1>7. SubmitterOK(n)'
  BY <1>2, <1>3, <1>4 DEF SubmitterOK, HeldTo, Submitting!ExecutionMode
<1>8. DispatchedOK'
  BY <1>3, <1>6 DEF BindingInv, DispatchedOK, HeldTo, Submitting!ExecutionMode
<1>9. QED
  BY <1>3, <1>4, <1>6, <1>7, <1>8, SubmitterMoves DEF BindingInv, BindingTypes

(* What is read to be bound, one of the two.                               *)
LEMMA BindingReads ==
    ASSUME BindingInv, NEW c \in Callers,
           Submitting!EnvironmentControl(c) \/ Submitting!RereadPolicy(c)
    PROVE  BindingInv'
<1>1. PICK k : k = submitter[c]
  OBVIOUS
<1>2. PICK m, p : /\ m \in Submitting!Modes \union {Null} /\ p \in Versions \union {Null}
                  /\ Submitting!Become(c, [k EXCEPT !.bound = [mode |-> m, policy |-> p]])
                  /\ UNCHANGED <<policies, plan, offered, posture, submitted>>
                  /\ k.pc = "reading" /\ k \in Submitter /\ SubmitterOK(k)
  <2>1. /\ k.pc = "reading" /\ k \in Submitter /\ SubmitterOK(k)
        /\ UNCHANGED <<policies, plan, offered, posture, submitted>>
    BY <1>1 DEF BindingInv, BindingTypes, Submitting!EnvironmentControl,
                Submitting!RereadPolicy, Submitting!settings, Submitting!At
  <2>2. k.bound \in Reading
    BY <2>1 DEF SubmitterOK
  <2>3. CASE Submitting!EnvironmentControl(c)
    <3>1. Submitting!Become(c, [k EXCEPT !.bound.mode = posture])
      BY <1>1, <2>3 DEF Submitting!EnvironmentControl
    <3>2. [k EXCEPT !.bound.mode = posture]
            = [k EXCEPT !.bound = [mode |-> posture, policy |-> k.bound.policy]]
      BY <2>1, <2>2 DEF Submitter, Reading
    <3>3. k.bound.policy \in Versions \union {Null} /\ posture \in Submitting!Modes \union {Null}
      BY <2>2 DEF BindingInv, BindingTypes, Reading
    <3>4. QED
      BY <2>1, <3>1, <3>2, <3>3
  <2>4. CASE Submitting!RereadPolicy(c)
    <3>1. Submitting!Become(c, [k EXCEPT !.bound.policy = Submitting!CurrentPolicy])
      BY <1>1, <2>4 DEF Submitting!RereadPolicy
    <3>2. [k EXCEPT !.bound.policy = Submitting!CurrentPolicy]
            = [k EXCEPT !.bound = [mode |-> k.bound.mode, policy |-> Submitting!CurrentPolicy]]
      BY <2>1, <2>2 DEF Submitter, Reading
    <3>3. /\ k.bound.mode \in Submitting!Modes \union {Null}
          /\ Submitting!CurrentPolicy \in Versions \union {Null}
      BY <2>2, CurrentExists DEF Reading
    <3>4. QED
      BY <2>1, <3>1, <3>2, <3>3
  <2>5. QED
    BY <2>3, <2>4
<1>3. PICK n : n = [k EXCEPT !.bound = [mode |-> m, policy |-> p]]
  OBVIOUS
<1>4. /\ n \in Submitter /\ n.pc = "reading" /\ n.bound = [mode |-> m, policy |-> p]
      /\ n.mode = k.mode /\ n.policy = k.policy /\ n.approved = k.approved
  <2>1. [mode |-> m, policy |-> p] \in Reading
    BY <1>2 DEF Reading
  <2>2. QED
    BY <1>2, <1>3, <2>1 DEF Submitter
<1>5. n.bound \in Reading
  BY <1>2, <1>4 DEF Reading
<1>6. SubmitterOK(n)
  BY <1>2, <1>4, <1>5 DEF SubmitterOK, HeldTo
<1>7. QED
  BY <1>2, <1>3, <1>4, <1>6, SubmitterOnly

(* Binding leaves the binding that there is.                               *)
LEMMA BindKeeps ==
    ASSUME BindingInv, NEW b \in Bound, Submitting!BindActionControl(b)
    PROVE  /\ submitted' \in Submission /\ submitted'.dispatched = submitted.dispatched
           /\ submitted.binding # Null => submitted'.binding = submitted.binding
<1>1. submitted \in Submission
  BY DEF BindingInv, BindingTypes
<1>2. submitted' = submitted \/ /\ submitted.binding = Null
                                /\ submitted' = [submitted EXCEPT !.binding = b]
  BY DEF Submitting!BindActionControl
<1>3. QED
  BY <1>1, <1>2 DEF Submission

LEMMA DispatchedKept ==
    ASSUME BindingInv, submitted'.dispatched = submitted.dispatched,
           submitted.binding # Null => submitted'.binding = submitted.binding,
           UNCHANGED policies
    PROVE  DispatchedOK'
<1>1. SUFFICES ASSUME submitted.dispatched # Null PROVE DispatchedOK'
  BY DEF DispatchedOK
<1>2. PICK d : d = submitted.dispatched
  OBVIOUS
<1>3. HeldTo(d) /\ submitted.binding = [mode |-> d.mode, policy |-> d.policy]
  BY <1>1, <1>2 DEF BindingInv, DispatchedOK
<1>4. submitted.binding # Null
  BY <1>3, GovernanceNull DEF HeldTo, Versions
<1>5. HeldTo(d)'
  BY <1>3 DEF HeldTo, Submitting!ExecutionMode
<1>6. QED
  BY <1>2, <1>3, <1>4, <1>5 DEF DispatchedOK

LEMMA BindingCurrent ==
    ASSUME BindingInv, NEW c \in Callers, Submitting!BindCurrent(c)
    PROVE  BindingInv'
<1>1. PICK k : k = submitter[c]
  OBVIOUS
<1>2. /\ k \in Submitter /\ SubmitterOK(k) /\ k.pc = "reading"
      /\ UNCHANGED <<policies, plan, offered, posture>>
      /\ Null \notin {k.bound.mode, k.bound.policy} /\ Submitting!BindActionControl(k.bound)
      /\ \/ Submitting!Become(c, [k EXCEPT !.pc = "binding"])
         \/ Submitting!Become(c, Submitting!Idle)
  BY <1>1 DEF BindingInv, BindingTypes, Submitting!BindCurrent, Submitting!settings,
              Submitting!At, Submitting!Return
<1>3. k.bound \in Bound
  <2>1. k.bound \in Reading
    BY <1>2 DEF SubmitterOK
  <2>2. QED
    BY <2>1, <1>2 DEF Reading, Bound
<1>4. /\ submitted' \in Submission /\ submitted'.dispatched = submitted.dispatched
      /\ submitted.binding # Null => submitted'.binding = submitted.binding
  BY <1>2, <1>3, BindKeeps
<1>5. DispatchedOK'
  BY <1>2, <1>4, DispatchedKept
<1>6. PICK n : n = [k EXCEPT !.pc = "binding"]
  OBVIOUS
<1>7. /\ n \in Submitter /\ n.pc = "binding" /\ n.mode = k.mode /\ n.policy = k.policy
      /\ n.approved = k.approved
  BY <1>2, <1>6 DEF Submitter
<1>8. SubmitterOK(n)'
  BY <1>2, <1>7 DEF SubmitterOK, HeldTo, Submitting!ExecutionMode
<1>9. SubmitterOK(Submitting!Idle)'
  BY DEF SubmitterOK, Submitting!Idle
<1>10. QED
  BY <1>2, <1>4, <1>5, <1>6, <1>7, <1>8, <1>9, IdleSubmitter, SubmitterMoves
  DEF BindingInv, BindingTypes

LEMMA BindingRequested ==
    ASSUME BindingInv, NEW c \in Callers, Submitting!BindRequested(c)
    PROVE  BindingInv'
<1>1. PICK k : k = submitter[c]
  OBVIOUS
<1>2. PICK b : b = [mode |-> k.mode, policy |-> k.policy]
  OBVIOUS
<1>3. /\ k \in Submitter /\ SubmitterOK(k) /\ k.pc = "binding"
      /\ UNCHANGED <<policies, plan, offered, posture>>
      /\ Submitting!BindActionControl(b)
      /\ \/ submitted'.binding = b /\ Submitting!Become(c, [k EXCEPT !.pc = "dispatching"])
         \/ Submitting!Become(c, Submitting!Idle)
  BY <1>1, <1>2 DEF BindingInv, BindingTypes, Submitting!BindRequested, Submitting!settings,
                    Submitting!At, Submitting!Return
<1>4. HeldTo(k)
  BY <1>3 DEF SubmitterOK
<1>5. b \in Bound
  BY <1>2, <1>4 DEF HeldTo, Bound, Submitting!Modes
<1>6. /\ submitted' \in Submission /\ submitted'.dispatched = submitted.dispatched
      /\ submitted.binding # Null => submitted'.binding = submitted.binding
  BY <1>3, <1>5, BindKeeps
<1>7. DispatchedOK'
  BY <1>3, <1>6, DispatchedKept
<1>8. CASE submitted'.binding = b /\ Submitting!Become(c, [k EXCEPT !.pc = "dispatching"])
  <2>1. PICK n : n = [k EXCEPT !.pc = "dispatching"]
    OBVIOUS
  <2>2. /\ n \in Submitter /\ n.pc = "dispatching" /\ n.mode = k.mode /\ n.policy = k.policy
        /\ n.approved = k.approved
    BY <1>3, <2>1 DEF Submitter
  <2>3. SubmitterOK(n)'
    BY <1>2, <1>3, <1>4, <1>8, <2>2 DEF SubmitterOK, HeldTo, Submitting!ExecutionMode
  <2>4. QED
    BY <1>3, <1>6, <1>7, <1>8, <2>1, <2>2, <2>3, SubmitterMoves DEF BindingInv, BindingTypes
<1>9. CASE Submitting!Become(c, Submitting!Idle)
  <2>1. SubmitterOK(Submitting!Idle)'
    BY DEF SubmitterOK, Submitting!Idle
  <2>2. QED
    BY <1>3, <1>6, <1>7, <1>9, <2>1, IdleSubmitter, SubmitterMoves DEF BindingInv, BindingTypes
<1>10. QED
  BY <1>3, <1>8, <1>9

LEMMA BindingDispatch ==
    ASSUME BindingInv, NEW c \in Callers, Submitting!Dispatch(c)
    PROVE  BindingInv'
<1>1. PICK k : k = submitter[c]
  OBVIOUS
<1>2. PICK d : d = [approved |-> k.approved, mode |-> k.mode, policy |-> k.policy]
  OBVIOUS
<1>3. /\ k \in Submitter /\ SubmitterOK(k) /\ k.pc = "dispatching"
      /\ UNCHANGED <<policies, plan, offered, posture>>
      /\ submitted' = IF submitted.dispatched # Null THEN submitted
                      ELSE [submitted EXCEPT !.dispatched = d]
      /\ Submitting!Become(c, Submitting!Idle) /\ submitted \in Submission
  BY <1>1, <1>2 DEF BindingInv, BindingTypes, Submitting!Dispatch, Submitting!settings,
                    Submitting!At, Submitting!Return
<1>4. HeldTo(k) /\ submitted.binding = [mode |-> k.mode, policy |-> k.policy]
  BY <1>3 DEF SubmitterOK
<1>5. d \in [approved : BOOLEAN, mode : Submitting!Modes, policy : Versions]
  BY <1>2, <1>3, <1>4 DEF HeldTo, Submitter, Submitting!Modes
<1>6. /\ submitted' \in Submission /\ submitted'.binding = submitted.binding
      /\ submitted'.dispatched \in {submitted.dispatched, d}
  BY <1>3, <1>5 DEF Submission
<1>7. DispatchedOK'
  <2>1. CASE submitted'.dispatched = submitted.dispatched
    BY <2>1, <1>3, <1>6, DispatchedKept
  <2>2. CASE submitted'.dispatched = d
    <3>1. HeldTo(d)'
      BY <1>2, <1>3, <1>4 DEF HeldTo, Submitting!ExecutionMode
    <3>2. QED
      BY <2>2, <3>1, <1>2, <1>4, <1>6 DEF DispatchedOK
  <2>3. QED
    BY <2>1, <2>2, <1>6
<1>8. SubmitterOK(Submitting!Idle)'
  BY DEF SubmitterOK, Submitting!Idle
<1>9. QED
  BY <1>3, <1>6, <1>7, <1>8, IdleSubmitter, SubmitterMoves DEF BindingInv, BindingTypes

-----------------------------------------------------------------------------
LEMMA BindingSwitch ==
    ASSUME BindingInv, NEW c \in Callers, NEW m \in Submitting!Modes, Submitting!MayEnable(c, m)
    PROVE  BindingInv'
<1>1. PICK n : n = [Submitting!Idle EXCEPT !.pc = "switching", !.mode = m]
  OBVIOUS
<1>2. /\ Submitting!Become(c, n) /\ UNCHANGED <<policies, plan, offered, posture, submitted>>
      /\ Submitting!FeatureForMode(m) \subseteq offered
  BY <1>1 DEF BindingInv, Submitting!MayEnable, Submitting!Ask, Submitting!settings
<1>3. n \in Submitter /\ n.pc = "switching" /\ n.mode = m
  BY <1>1 DEF Submitting!Idle, Submitter
<1>4. SubmitterOK(n)
  BY <1>2, <1>3 DEF SubmitterOK
<1>5. QED
  BY <1>2, <1>3, <1>4, SubmitterOnly

LEMMA BindingSetMode ==
    ASSUME BindingInv, NEW c \in Callers, Submitting!SetEnvironmentMode(c)
    PROVE  BindingInv'
<1>1. /\ submitter[c].pc = "switching" /\ posture' = submitter[c].mode
      /\ Submitting!Become(c, Submitting!Idle)
      /\ UNCHANGED <<policies, plan, offered, submitted>>
  BY DEF Submitting!SetEnvironmentMode, Submitting!At, Submitting!Return
<1>2. posture' \in Submitting!Modes /\ Submitting!FeatureForMode(posture') \subseteq offered
  <2>1. SubmitterOK(submitter[c])
    BY DEF BindingInv
  <2>2. QED
    BY <2>1, <1>1 DEF SubmitterOK
<1>3. SubmitterOK(Submitting!Idle)'
  BY DEF SubmitterOK, Submitting!Idle
<1>4. DispatchedOK'
  BY <1>1, DispatchedKept
<1>5. QED
  BY <1>1, <1>2, <1>3, <1>4, IdleSubmitter, SubmitterMoves DEF BindingInv, BindingTypes

(* New versions, plans, agents and keys: nothing that was read changes.    *)
LEMMA BindingEdits ==
    ASSUME BindingInv, UNCHANGED <<posture, submitted, submitter>>,
           policies' \in [{Effect, Null} -> Seq(Submitting!ExecutionModes)],
           \A e \in {Effect, Null} :
              /\ Len(policies'[e]) >= Len(policies[e])
              /\ \A n \in 1..Len(policies[e]) : policies'[e][n] = policies[e][n],
           plan' \in DOMAIN Plans, offered \subseteq offered', Plans[plan'] \subseteq offered'
    PROVE  BindingInv'
<1>1. ASSUME NEW e \in {Effect, Null}
      PROVE  Len(policies[e]) \in Nat /\ Len(policies'[e]) \in Nat
  <2>1. policies[e] \in Seq(Submitting!ExecutionModes)
        /\ policies'[e] \in Seq(Submitting!ExecutionModes)
    BY DEF BindingInv, BindingTypes
  <2>2. QED
    BY <2>1, LenProperties
<1>2. ASSUME NEW k, HeldTo(k) PROVE HeldTo(k)'
  <2>1. PICK e, n : e = k.policy.of /\ n = k.policy.version
    OBVIOUS
  <2>2. e \in {Effect, Null} /\ n \in 1..Len(policies[e])
    BY <1>2, <2>1 DEF HeldTo, Versions
  <2>3. n \in 1..Len(policies'[e]) /\ policies'[e][n] = policies[e][n]
    BY <2>2, <1>1
  <2>4. QED
    BY <1>2, <2>1, <2>2, <2>3 DEF HeldTo, Submitting!ExecutionMode
<1>3. DispatchedOK'
  BY <1>2 DEF BindingInv, DispatchedOK
<1>4. ASSUME NEW c \in Callers PROVE SubmitterOK(submitter[c])'
  <2>1. SubmitterOK(submitter[c])
    BY DEF BindingInv
  <2>2. QED
    BY <2>1, <1>2 DEF SubmitterOK
<1>5. policies'[Null] # <<>>
  <2>1. policies[Null] # <<>> /\ policies[Null] \in Seq(Submitting!ExecutionModes)
    BY DEF BindingInv, BindingTypes
  <2>2. Len(policies[Null]) # 0
    BY <2>1, EmptySeq
  <2>3. Len(policies'[Null]) # 0
    BY <2>2, <1>1
  <2>4. QED
    BY <2>3, EmptySeq
<1>6. QED
  BY <1>3, <1>4, <1>5 DEF BindingInv, BindingTypes

LEMMA BindingVersion == BindingInv /\ Submitting!CreatePolicyVersion => BindingInv'
<1>. SUFFICES ASSUME BindingInv, Submitting!CreatePolicyVersion PROVE BindingInv'
  OBVIOUS
<1>1. policies \in [{Effect, Null} -> Seq(Submitting!ExecutionModes)]
  BY DEF BindingInv, BindingTypes
<1>2. PICK e \in {Effect, Null}, x \in Submitting!ExecutionModes :
         policies' = [policies EXCEPT ![e] = Append(policies[e], x)]
  BY <1>1 DEF Submitting!CreatePolicyVersion
<1>3. UNCHANGED <<posture, submitted, submitter, plan, offered>>
  BY DEF Submitting!CreatePolicyVersion
<1>4. policies[e] \in Seq(Submitting!ExecutionModes)
  BY <1>1
<1>5. /\ Append(policies[e], x) \in Seq(Submitting!ExecutionModes)
      /\ Len(Append(policies[e], x)) = Len(policies[e]) + 1 /\ Len(policies[e]) \in Nat
      /\ \A n \in 1..Len(policies[e]) : Append(policies[e], x)[n] = policies[e][n]
  BY <1>4, AppendProperties, LenProperties
<1>6. policies' \in [{Effect, Null} -> Seq(Submitting!ExecutionModes)]
  BY <1>1, <1>2, <1>5
<1>7. ASSUME NEW d \in {Effect, Null}
      PROVE  /\ Len(policies'[d]) >= Len(policies[d])
             /\ \A n \in 1..Len(policies[d]) : policies'[d][n] = policies[d][n]
  <2>1. CASE d = e
    BY <2>1, <1>1, <1>2, <1>5
  <2>2. CASE d # e
    <3>1. policies'[d] = policies[d] /\ policies[d] \in Seq(Submitting!ExecutionModes)
      BY <2>2, <1>1, <1>2
    <3>2. QED
      BY <3>1, LenProperties
  <2>3. QED
    BY <2>1, <2>2
<1>8. QED
  BY <1>3, <1>6, <1>7, BindingEdits DEF BindingInv, BindingTypes

LEMMA BindingOthers ==
    ASSUME BindingInv, \/ Submitting!SetAgentStatus \/ Submitting!RevokeApiKey
                       \/ Submitting!SetEntitlement
    PROVE  BindingInv'
<1>1. /\ UNCHANGED <<posture, submitted, submitter, policies>>
      /\ plan' \in DOMAIN Plans /\ offered \subseteq offered' /\ Plans[plan'] \subseteq offered'
  BY DEF BindingInv, BindingTypes, Submitting!SetAgentStatus, Submitting!RevokeApiKey,
         Submitting!SetEntitlement
<1>2. \A e \in {Effect, Null} : Len(policies[e]) \in Nat
  BY LenProperties DEF BindingInv, BindingTypes
<1>3. QED
  BY <1>1, <1>2, BindingEdits DEF BindingInv, BindingTypes

LEMMA BindingStep == BindingInv /\ [NextAll]_everything => BindingInv'
<1>. SUFFICES ASSUME BindingInv, [NextAll]_everything PROVE BindingInv'
  OBVIOUS
<1>1. CASE Submitting!Next
  <2>1. ASSUME NEW c \in Callers, Submitting!Abandon(c) PROVE BindingInv'
    BY <2>1, BindingAbandon DEF Submitting!Abandon, Submitting!settings
  <2>2. QED
    BY <1>1, <2>1, BindingAsk, BindingMode, BindingPolicy, BindingScope, BindingReads,
       BindingCurrent, BindingRequested, BindingDispatch, BindingSwitch, BindingSetMode,
       BindingVersion, BindingOthers DEF Submitting!Next
<1>2. CASE UNCHANGED submitting
  <2>1. UNCHANGED <<policies, posture, plan, offered, submitted, submitter>>
    BY <1>2 DEF submitting
  <2>2. QED
    BY <2>1 DEF BindingInv, BindingTypes, DispatchedOK, SubmitterOK, HeldTo,
                Submitting!ExecutionMode
<1>3. QED
  BY <1>1, <1>2 DEF NextAll, everything, authorities

LEMMA BindingAlways == SpecAll => []BindingInv
<1>1. QED
  BY BindingInit, BindingStep, PTL DEF SpecAll

(* A grant says what was the case of its outcome and approval when it was  *)
(* signed and is used once; and an action is dispatched under what its      *)
(* submission was held to, whatever operators change in between.           *)
THEOREM AuthorityTheorem == SpecAll => []AuthorityHolds
<1>1. GrantInv /\ BindingInv => AuthorityHolds
  BY GrantGives, BindingGives DEF AuthorityHolds
<1>2. QED
  BY <1>1, GrantAlways, BindingAlways, PTL

-----------------------------------------------------------------------------
(* Connections.                                                            *)
Refs == Provisioning!References \union {Null}
Statuses == Failures \union {"none", "verified_ready", "credential_unavailable"}
Readiness == Statuses \union {"not_enabled", "not_configured", "never_preflighted",
                              "preflight_stale", "ready", "capabilities_insufficient"}
NamedScopes == UNION {Stated[ref] : ref \in Refs}

Preflights == [ref : Refs, at : Nat, status : Statuses, scopes : SUBSET NamedScopes,
               verified : SUBSET Proved]
ReadFacts == [ref : Refs, configured : BOOLEAN, enabled : SUBSET Provisioning!Wanted,
              status : Statuses, at : Nat, scopes : SUBSET NamedScopes,
              verified : SUBSET Proved]
Requesting ==
    [pc : {"idle", "inserting", "reconnecting", "configuring", "upserting", "revoking",
           "resolving", "recording", "asking", "reading", "claims", "availability", "answered",
           "admitting", "admitted", "used"},
     ref : Refs, at : Nat, result : ReadFacts, claimed : SUBSET Provisioning!Capabilities,
     answer : Readiness, gone : SUBSET Ids, listed : SUBSET Provisioning!Wanted,
     workload : SUBSET Provisioning!Wanted]

ConnectionTypes ==
    /\ busy = "connections" => clock \in Nat
    /\ stored \in [Ids -> {"none", "live", "revoked"}]
    /\ integration \in [ref : Refs, configured : BOOLEAN, disconnected : BOOLEAN]
    /\ preflights \in Seq(Preflights)
    /\ attested \subseteq Provisioning!Capabilities /\ enabled \subseteq Provisioning!Wanted
    /\ request \in [Callers -> Requesting]

(* What a provider states of a reference is said of this reference.        *)
OfReference(scopes, ref) == scopes = {} \/ scopes = Stated[ref]

(* The facts are those of a preflight of the reference they are about.     *)
FoundOf(facts_) ==
    facts_.status = "verified_ready" =>
        \E i \in DOMAIN preflights :
            /\ preflights[i].ref = facts_.ref /\ preflights[i].status = facts_.status
            /\ preflights[i].at = facts_.at /\ preflights[i].scopes = facts_.scopes
            /\ preflights[i].verified = facts_.verified

Verified(k) ==
    /\ k.ref \notin k.gone \union {Foreign, Null}
    /\ \E i \in DOMAIN preflights :
          /\ preflights[i].ref = k.ref /\ preflights[i].status = "verified_ready"
          /\ k.at - preflights[i].at <= Trust
          /\ Provisioning!RequiredCapabilities(k.result.enabled) \subseteq
                preflights[i].verified \union k.claimed \union
                Provisioning!CapabilitiesFromProviderScopes(Stated[k.ref])

(* What was revoked before the question stays revoked; what is configured  *)
(* or admitted was of this environment.                                    *)
RequestOK(k) ==
    /\ k.gone \subseteq Provisioning!Revoked
    /\ k.pc \in {"upserting", "admitted"} => k.ref # Foreign
    /\ k.pc = "resolving" => k.result.scopes = {}
    /\ k.pc = "recording" => OfReference(k.result.scopes, k.ref)
    /\ k.pc \in {"claims", "availability", "answered"} => FoundOf(k.result)
    /\ k.pc = "answered" /\ (k.answer = "ready" \/ k.listed # {} \/ k.workload # {}) => Verified(k)
    /\ k.pc = "used" => k.ref \notin k.gone \union {Foreign}

ConnectionInv ==
    /\ ConnectionTypes
    /\ integration.ref # Foreign
    /\ \A i \in DOMAIN preflights : OfReference(preflights[i].scopes, preflights[i].ref)
    /\ \A c \in Callers : RequestOK(request[c])

LEMMA ConnectionGives == ConnectionInv => ReadyIsVerified
<1>. SUFFICES ASSUME ConnectionInv PROVE ReadyIsVerified
  OBVIOUS
<1>1. ASSUME NEW c \in Callers
      PROVE  LET k == request[c] IN
             /\ Provisioning!At(c, "answered")
                /\ (k.answer = "ready" \/ k.listed # {} \/ k.workload # {}) =>
                   /\ k.ref \notin k.gone \union {Foreign, Null}
                   /\ \E i \in DOMAIN preflights :
                         /\ preflights[i].ref = k.ref /\ preflights[i].status = "verified_ready"
                         /\ k.at - preflights[i].at <= Trust
                         /\ Provisioning!RequiredCapabilities(k.result.enabled) \subseteq
                               preflights[i].verified \union k.claimed \union
                               Provisioning!CapabilitiesFromProviderScopes(Stated[k.ref])
             /\ Provisioning!At(c, "used") => k.ref \notin k.gone \union {Foreign}
  <2>1. RequestOK(request[c])
    BY DEF ConnectionInv
  <2>2. QED
    BY <2>1 DEF RequestOK, Verified, Provisioning!At
<1>2. QED
  BY <1>1 DEF ReadyIsVerified, Provisioning!ReadyIsVerified

LEMMA IdleRequest ==
    /\ Provisioning!Idle \in Requesting /\ Provisioning!Idle.pc = "idle"
    /\ Provisioning!Idle.gone = {} /\ RequestOK(Provisioning!Idle)
    /\ Provisioning!NoFacts \in ReadFacts /\ Provisioning!NoFacts.scopes = {}
    /\ Provisioning!NoFacts.status = "none" /\ Provisioning!Idle.result = Provisioning!NoFacts
<1>1. /\ Provisioning!NoFacts \in ReadFacts /\ Provisioning!NoFacts.scopes = {}
      /\ Provisioning!NoFacts.status = "none"
  BY DEF Provisioning!NoFacts, ReadFacts, Refs, Statuses
<1>2. /\ Provisioning!Idle \in Requesting /\ Provisioning!Idle.pc = "idle"
      /\ Provisioning!Idle.gone = {} /\ Provisioning!Idle.result = Provisioning!NoFacts
  BY <1>1 DEF Provisioning!Idle, Requesting, Refs, Readiness, Statuses
<1>3. RequestOK(Provisioning!Idle)
  BY <1>2 DEF RequestOK
<1>4. QED
  BY <1>1, <1>2, <1>3

LEMMA ConnectionInit == InitAll => ConnectionInv
<1>. SUFFICES ASSUME InitAll PROVE ConnectionInv
  OBVIOUS
<1>1. /\ clock = 0 /\ stored = [id \in Ids |-> "none"] /\ preflights = <<>>
      /\ integration = [ref |-> Null, configured |-> FALSE, disconnected |-> FALSE]
      /\ attested = {} /\ enabled = Provisioning!Wanted
      /\ request = [c \in Callers |-> Provisioning!Idle]
  BY DEF InitAll, Provisioning!Init
<1>2. ConnectionTypes
  BY <1>1, IdleRequest DEF ConnectionTypes, Refs
<1>3. integration.ref # Foreign
  BY <1>1, GovernanceReferences
<1>4. QED
  BY <1>1, <1>2, <1>3, IdleRequest DEF ConnectionInv

LEMMA RequestStep ==
    ASSUME NEW c \in Callers, NEW k \in Requesting, ConnectionTypes,
           request' = [request EXCEPT ![c] = k]
    PROVE  /\ request' \in [Callers -> Requesting] /\ request'[c] = k
           /\ \A d \in Callers \ {c} : request'[d] = request[d]
  BY DEF ConnectionTypes

(* What is true of a request stays true while credentials are revoked and  *)
(* preflights are added.                                                   *)
LEMMA RequestKept ==
    ASSUME NEW k, RequestOK(k), Provisioning!Revoked \subseteq Provisioning!Revoked',
           DOMAIN preflights \subseteq DOMAIN preflights',
           \A i \in DOMAIN preflights : preflights'[i] = preflights[i]
    PROVE  RequestOK(k)'
<1>1. FoundOf(k.result) => FoundOf(k.result)'
  BY DEF FoundOf
<1>2. Verified(k) => Verified(k)'
  BY DEF Verified
<1>3. QED
  BY <1>1, <1>2 DEF RequestOK, OfReference

(* One request moves; the tables change as they may.                       *)
LEMMA RequestMoves ==
    ASSUME ConnectionInv, NEW c \in Callers, NEW k \in Requesting,
           request' = [request EXCEPT ![c] = k], RequestOK(k)', UNCHANGED <<busy, clock>>,
           stored' \in [Ids -> {"none", "live", "revoked"}],
           Provisioning!Revoked \subseteq Provisioning!Revoked',
           integration' \in [ref : Refs, configured : BOOLEAN, disconnected : BOOLEAN],
           integration'.ref # Foreign,
           preflights' \in Seq(Preflights),
           DOMAIN preflights \subseteq DOMAIN preflights',
           \A i \in DOMAIN preflights : preflights'[i] = preflights[i],
           \A i \in DOMAIN preflights' : OfReference(preflights'[i].scopes, preflights'[i].ref),
           UNCHANGED <<attested, enabled>>
    PROVE  ConnectionInv'
<1>1. /\ request' \in [Callers -> Requesting] /\ request'[c] = k
      /\ \A d \in Callers \ {c} : request'[d] = request[d]
  BY RequestStep DEF ConnectionInv
<1>2. ConnectionTypes'
  BY <1>1 DEF ConnectionInv, ConnectionTypes
<1>3. ASSUME NEW d \in Callers PROVE RequestOK(request[d])'
  <2>1. CASE d = c
    BY <2>1, <1>1
  <2>2. CASE d # c
    <3>1. RequestOK(request[d]) /\ request'[d] = request[d]
      BY <1>1, <2>2 DEF ConnectionInv
    <3>2. PICK q : q = request[d]
      OBVIOUS
    <3>3. RequestOK(q)'
      BY <3>1, <3>2, RequestKept
    <3>4. QED
      BY <3>1, <3>2, <3>3
  <2>3. QED
    BY <2>1, <2>2
<1>4. \A i \in DOMAIN preflights' : OfReference(preflights[i].scopes, preflights[i].ref)'
  BY DEF OfReference
<1>5. QED
  BY <1>2, <1>3, <1>4 DEF ConnectionInv

LEMMA RequestOnly ==
    ASSUME ConnectionInv, NEW c \in Callers, NEW k \in Requesting,
           request' = [request EXCEPT ![c] = k], RequestOK(k), UNCHANGED <<busy, clock>>,
           UNCHANGED <<stored, integration, preflights, attested, enabled>>
    PROVE  ConnectionInv'
<1>1. UNCHANGED Provisioning!Revoked
  BY DEF Provisioning!Revoked
<1>2. RequestOK(k)'
  BY <1>1, RequestKept
<1>3. QED
  BY <1>1, <1>2, RequestMoves DEF ConnectionInv, ConnectionTypes, OfReference

(* Where a request says nothing yet of a credential.                       *)
Quiet == {"idle", "inserting", "reconnecting", "configuring", "revoking", "asking", "reading",
          "admitting"}

LEMMA QuietRequest ==
    ASSUME NEW k \in Requesting, k.pc \in Quiet, k.gone \subseteq Provisioning!Revoked
    PROVE  RequestOK(k)
  BY DEF RequestOK, Quiet

LEMMA RequestTyped ==
    ASSUME ConnectionInv, NEW c \in Callers
    PROVE  request[c] \in Requesting /\ RequestOK(request[c])
  BY DEF ConnectionInv, ConnectionTypes

LEMMA BeginGives ==
    ASSUME NEW c \in Callers, NEW new \in Requesting, ConnectionInv, Provisioning!Begin(c, new)
    PROVE  \E k \in Requesting :
              /\ request' = [request EXCEPT ![c] = k] /\ UNCHANGED clock
              /\ k.gone = Provisioning!Revoked /\ k.pc = new.pc /\ k.ref = new.ref
              /\ k.result = new.result
<1>1. PICK k : k = [new EXCEPT !.gone = Provisioning!Revoked]
  OBVIOUS
<1>2. Provisioning!Revoked \subseteq Ids
  BY DEF Provisioning!Revoked
<1>3. /\ k \in Requesting /\ k.gone = Provisioning!Revoked /\ k.pc = new.pc
      /\ k.ref = new.ref /\ k.result = new.result
  BY <1>1, <1>2 DEF Requesting
<1>4. request' = [request EXCEPT ![c] = k] /\ UNCHANGED clock
  BY <1>1 DEF Provisioning!Begin
<1>5. QED
  BY <1>3, <1>4

(* A request that begins where it says nothing yet, whatever it is about.   *)
LEMMA BeginQuiet ==
    ASSUME NEW c \in Callers, NEW new \in Requesting, new.pc \in Quiet \union {"resolving"},
           new.pc = "resolving" => new.result.scopes = {},
           ConnectionInv, Provisioning!Begin(c, new), UNCHANGED busy,
           UNCHANGED <<stored, integration, preflights, attested, enabled>>
    PROVE  ConnectionInv'
<1>1. PICK k \in Requesting :
         /\ request' = [request EXCEPT ![c] = k] /\ UNCHANGED clock
         /\ k.gone = Provisioning!Revoked /\ k.pc = new.pc /\ k.ref = new.ref
         /\ k.result = new.result
  BY BeginGives
<1>2. RequestOK(k)
  BY <1>1 DEF RequestOK, Quiet
<1>3. QED
  BY <1>1, <1>2, RequestOnly

(* A request that goes on where it says nothing yet.                       *)
LEMMA BecomeQuiet ==
    ASSUME NEW c \in Callers, NEW k \in Requesting, k.pc \in Quiet,
           k.gone \subseteq Provisioning!Revoked,
           ConnectionInv, Provisioning!Become(c, k), UNCHANGED busy,
           UNCHANGED <<stored, integration, preflights, attested, enabled>>
    PROVE  ConnectionInv'
<1>1. RequestOK(k)
  BY QuietRequest
<1>2. QED
  BY <1>1, RequestOnly DEF Provisioning!Become

LEMMA ReturnQuiet ==
    ASSUME NEW c \in Callers, ConnectionInv, Provisioning!Return(c), UNCHANGED busy,
           UNCHANGED <<stored, integration, preflights, attested, enabled>>
    PROVE  ConnectionInv'
  BY IdleRequest, BecomeQuiet DEF Provisioning!Return, Quiet

(* Credentials: what is live may be revoked, and what was not stored be    *)
(* live; the integration names only what is of this environment.           *)
LEMMA CredentialMoves ==
    ASSUME NEW c \in Callers, NEW k \in Requesting, k.pc \in Quiet,
           k.gone \subseteq Provisioning!Revoked,
           ConnectionInv, request' = [request EXCEPT ![c] = k], UNCHANGED <<busy, clock>>,
           stored' \in [Ids -> {"none", "live", "revoked"}],
           \A id \in Ids : stored[id] = "revoked" => stored'[id] = "revoked",
           integration' \in [ref : Refs, configured : BOOLEAN, disconnected : BOOLEAN],
           integration'.ref # Foreign,
           UNCHANGED <<preflights, attested, enabled>>
    PROVE  ConnectionInv'
<1>1. Provisioning!Revoked \subseteq Provisioning!Revoked'
  BY DEF Provisioning!Revoked
<1>2. RequestOK(k)
  BY QuietRequest
<1>3. RequestOK(k)'
  BY <1>1, <1>2, RequestKept
<1>4. QED
  BY <1>1, <1>3, RequestMoves DEF ConnectionInv, ConnectionTypes

LEMMA ConnectionSupersede ==
    ASSUME ConnectionInv, NEW c \in Callers, Provisioning!Supersede(c), UNCHANGED busy
    PROVE  ConnectionInv'
<1>1. PICK new : new = [Provisioning!Idle EXCEPT !.pc = "inserting"]
  OBVIOUS
<1>2. new \in Requesting /\ new.pc = "inserting"
  BY <1>1, IdleRequest DEF Requesting
<1>3. /\ Provisioning!Begin(c, new) /\ UNCHANGED <<integration, preflights, attested, enabled>>
      /\ stored' = [id \in Ids |-> IF Provisioning!Live(id) THEN "revoked" ELSE stored[id]]
  BY <1>1 DEF Provisioning!Supersede
<1>4. PICK k \in Requesting :
         /\ request' = [request EXCEPT ![c] = k] /\ UNCHANGED clock
         /\ k.gone = Provisioning!Revoked /\ k.pc = new.pc
  BY <1>2, <1>3, BeginGives
<1>5. /\ stored' \in [Ids -> {"none", "live", "revoked"}]
      /\ \A id \in Ids : stored[id] = "revoked" => stored'[id] = "revoked"
  BY <1>3 DEF ConnectionInv, ConnectionTypes, Provisioning!Live
<1>6. QED
  BY <1>2, <1>3, <1>4, <1>5, CredentialMoves DEF ConnectionInv, ConnectionTypes, Quiet

LEMMA ConnectionInsert ==
    ASSUME ConnectionInv, NEW c \in Callers, Provisioning!Insert(c), UNCHANGED busy
    PROVE  ConnectionInv'
<1>1. UNCHANGED <<integration, preflights, attested, enabled>> /\ request[c].pc = "inserting"
  BY DEF Provisioning!Insert, Provisioning!At
<1>2. CASE Provisioning!Return(c) /\ UNCHANGED stored
  BY <1>1, <1>2, ReturnQuiet
<1>3. ASSUME NEW id \in Ids, stored[id] = "none", stored' = [stored EXCEPT ![id] = "live"],
             Provisioning!Become(c, [request[c] EXCEPT !.pc = "reconnecting", !.ref = id])
      PROVE  ConnectionInv'
  <2>1. PICK k : k = [request[c] EXCEPT !.pc = "reconnecting", !.ref = id]
    OBVIOUS
  <2>2. id \in Refs
    BY DEF Refs, Provisioning!References
  <2>3. k \in Requesting /\ k.pc = "reconnecting" /\ k.gone = request[c].gone
    BY <2>1, <2>2, RequestTyped DEF Requesting
  <2>4. k.gone \subseteq Provisioning!Revoked
    BY <2>3, RequestTyped DEF RequestOK
  <2>5. /\ stored' \in [Ids -> {"none", "live", "revoked"}]
        /\ \A i \in Ids : stored[i] = "revoked" => stored'[i] = "revoked"
    BY <1>3 DEF ConnectionInv, ConnectionTypes
  <2>6. QED
    BY <1>1, <1>3, <2>1, <2>3, <2>4, <2>5, CredentialMoves
    DEF ConnectionInv, ConnectionTypes, Quiet, Provisioning!Become
<1>4. QED
  BY <1>2, <1>3 DEF Provisioning!Insert

LEMMA ConnectionReconnect ==
    ASSUME ConnectionInv, NEW c \in Callers, Provisioning!Reconnect(c), UNCHANGED busy
    PROVE  ConnectionInv'
<1>1. PICK k : k = [request[c] EXCEPT !.pc = "configuring"]
  OBVIOUS
<1>2. /\ Provisioning!Become(c, k) /\ UNCHANGED <<stored, preflights, attested, enabled>>
      /\ integration' = [integration EXCEPT !.disconnected = FALSE]
  BY <1>1 DEF Provisioning!Reconnect, Provisioning!Goto
<1>3. k \in Requesting /\ k.pc = "configuring" /\ k.gone = request[c].gone
  BY <1>1, RequestTyped DEF Requesting
<1>4. k.gone \subseteq Provisioning!Revoked
  BY <1>3, RequestTyped DEF RequestOK
<1>5. /\ integration' \in [ref : Refs, configured : BOOLEAN, disconnected : BOOLEAN]
      /\ integration'.ref # Foreign
  BY <1>2 DEF ConnectionInv, ConnectionTypes
<1>6. QED
  BY <1>2, <1>3, <1>4, <1>5, CredentialMoves
  DEF ConnectionInv, ConnectionTypes, Quiet, Provisioning!Become

LEMMA ConnectionOwner ==
    ASSUME ConnectionInv, NEW c \in Callers, Provisioning!CheckOwner(c), UNCHANGED busy
    PROVE  ConnectionInv'
<1>1. UNCHANGED <<stored, integration, preflights, attested, enabled>>
  BY DEF Provisioning!CheckOwner, Provisioning!tables
<1>2. CASE Provisioning!Return(c)
  BY <1>1, <1>2, ReturnQuiet
<1>3. CASE /\ request[c].ref = Operator \/ Provisioning!BelongsToScope(request[c].ref)
           /\ Provisioning!Become(c, [request[c] EXCEPT !.pc = "upserting"])
  <2>1. PICK k : k = [request[c] EXCEPT !.pc = "upserting"]
    OBVIOUS
  <2>2. /\ k \in Requesting /\ k.pc = "upserting" /\ k.gone = request[c].gone
        /\ k.ref = request[c].ref
    BY <2>1, RequestTyped DEF Requesting
  <2>3. k.ref # Foreign
    BY <1>3, <2>2, GovernanceReferences DEF Provisioning!BelongsToScope
  <2>4. RequestOK(k)
    BY <2>2, <2>3, RequestTyped DEF RequestOK
  <2>5. QED
    BY <1>1, <1>3, <2>1, <2>2, <2>4, RequestOnly DEF Provisioning!Become
<1>4. QED
  BY <1>2, <1>3 DEF Provisioning!CheckOwner, Provisioning!Goto

LEMMA ConnectionConfigure ==
    ASSUME ConnectionInv, NEW c \in Callers, Provisioning!Configure(c), UNCHANGED busy
    PROVE  ConnectionInv'
<1>1. /\ request[c].pc = "upserting" /\ Provisioning!Become(c, Provisioning!Idle)
      /\ integration' = [integration EXCEPT !.ref = request[c].ref, !.configured = TRUE]
      /\ UNCHANGED <<stored, preflights, attested, enabled>>
  BY DEF Provisioning!Configure, Provisioning!At, Provisioning!Return
<1>2. request[c].ref \in Refs /\ request[c].ref # Foreign
  BY <1>1, RequestTyped DEF Requesting, RequestOK
<1>3. /\ integration' \in [ref : Refs, configured : BOOLEAN, disconnected : BOOLEAN]
      /\ integration'.ref # Foreign
  BY <1>1, <1>2 DEF ConnectionInv, ConnectionTypes
<1>4. Provisioning!Idle.gone \subseteq Provisioning!Revoked
  BY IdleRequest
<1>5. QED
  BY <1>1, <1>3, <1>4, IdleRequest, CredentialMoves
  DEF ConnectionInv, ConnectionTypes, Quiet, Provisioning!Become

LEMMA ConnectionRevoke ==
    ASSUME ConnectionInv, NEW c \in Callers, Provisioning!Revoke(c), UNCHANGED busy
    PROVE  ConnectionInv'
<1>1. /\ Provisioning!Become(c, Provisioning!Idle)
      /\ stored' = [stored EXCEPT ![request[c].ref] = "revoked"]
      /\ UNCHANGED <<integration, preflights, attested, enabled>>
  BY DEF Provisioning!Revoke, Provisioning!Return
<1>2. /\ stored' \in [Ids -> {"none", "live", "revoked"}]
      /\ \A id \in Ids : stored[id] = "revoked" => stored'[id] = "revoked"
  BY <1>1 DEF ConnectionInv, ConnectionTypes
<1>3. Provisioning!Idle.gone \subseteq Provisioning!Revoked
  BY IdleRequest
<1>4. QED
  BY <1>1, <1>2, <1>3, IdleRequest, CredentialMoves
  DEF ConnectionInv, ConnectionTypes, Quiet, Provisioning!Become

(* The requests that only begin.                                           *)
LEMMA ConnectionBegins ==
    ASSUME ConnectionInv, NEW c \in Callers, UNCHANGED busy, busy = "connections",
           \/ Provisioning!PutReference(c) \/ Provisioning!Describe(c)
           \/ Provisioning!ReadReference(c) \/ Provisioning!ListEffectSpecs(c)
           \/ Provisioning!AskGoLive(c)
           \/ Provisioning!RequireEffect(c)
    PROVE  ConnectionInv'
<1>1. /\ clock \in Nat /\ integration.ref \in Refs /\ Null \in Refs
      /\ enabled \subseteq Provisioning!Wanted
  BY DEF ConnectionInv, ConnectionTypes, Refs
<1>2. CASE Provisioning!PutReference(c)
  <2>1. PICK ref \in {Operator, Foreign} \union Ids :
           Provisioning!Begin(c, [Provisioning!Idle EXCEPT !.pc = "configuring", !.ref = ref])
    BY <1>2 DEF Provisioning!PutReference
  <2>2. PICK new : new = [Provisioning!Idle EXCEPT !.pc = "configuring", !.ref = ref]
    OBVIOUS
  <2>3. ref \in Refs
    BY DEF Refs, Provisioning!References
  <2>4. new \in Requesting /\ new.pc = "configuring"
    BY <2>2, <2>3, IdleRequest DEF Requesting
  <2>5. QED
    BY <1>2, <2>1, <2>2, <2>4, BeginQuiet DEF Provisioning!PutReference, Provisioning!tables, Quiet
<1>3. CASE Provisioning!Describe(c)
  <2>1. PICK id \in Ids :
           Provisioning!Begin(c, [Provisioning!Idle EXCEPT !.pc = "revoking", !.ref = id])
    BY <1>3 DEF Provisioning!Describe
  <2>2. PICK new : new = [Provisioning!Idle EXCEPT !.pc = "revoking", !.ref = id]
    OBVIOUS
  <2>3. id \in Refs
    BY DEF Refs, Provisioning!References
  <2>4. new \in Requesting /\ new.pc = "revoking"
    BY <2>2, <2>3, IdleRequest DEF Requesting
  <2>5. QED
    BY <1>3, <2>1, <2>2, <2>4, BeginQuiet DEF Provisioning!Describe, Provisioning!tables, Quiet
<1>4. CASE Provisioning!ReadReference(c)
  <2>1. PICK ref : ref = IF integration.configured /\ ~integration.disconnected
                         THEN integration.ref ELSE Null
    OBVIOUS
  <2>2. PICK new : new = [Provisioning!Idle EXCEPT !.pc = "resolving", !.at = clock, !.ref = ref]
    OBVIOUS
  <2>3. ref \in Refs
    BY <1>1, <2>1
  <2>4. new \in Requesting /\ new.pc = "resolving" /\ new.result = Provisioning!Idle.result
    BY <1>1, <2>2, <2>3, IdleRequest DEF Requesting
  <2>5. Provisioning!Begin(c, new)
    BY <1>4, <2>1, <2>2 DEF Provisioning!ReadReference
  <2>6. QED
    BY <1>4, <2>4, <2>5, IdleRequest, BeginQuiet DEF Provisioning!ReadReference, Provisioning!tables
<1>5. CASE Provisioning!ListEffectSpecs(c)
  <2>1. PICK new : new = [Provisioning!Idle EXCEPT !.pc = "reading", !.at = clock,
                                                   !.listed = enabled]
    OBVIOUS
  <2>2. new \in Requesting /\ new.pc = "reading"
    BY <1>1, <2>1, IdleRequest DEF Requesting
  <2>3. Provisioning!Begin(c, new)
    BY <1>5, <2>1 DEF Provisioning!ListEffectSpecs
  <2>4. QED
    BY <1>5, <2>2, <2>3, BeginQuiet DEF Provisioning!ListEffectSpecs, Provisioning!tables, Quiet
<1>6. CASE Provisioning!AskGoLive(c)
  <2>1. PICK effect \in Provisioning!Wanted :
           Provisioning!Begin(c, [Provisioning!Idle EXCEPT !.pc = "reading", !.at = clock,
                                     !.workload = {effect} \intersect enabled])
    BY <1>6 DEF Provisioning!AskGoLive
  <2>2. PICK new : new = [Provisioning!Idle EXCEPT !.pc = "reading", !.at = clock,
                             !.workload = {effect} \intersect enabled]
    OBVIOUS
  <2>3. new \in Requesting /\ new.pc = "reading"
    BY <1>1, <2>2, IdleRequest DEF Requesting
  <2>4. QED
    BY <1>6, <2>1, <2>2, <2>3, BeginQuiet DEF Provisioning!AskGoLive, Provisioning!tables, Quiet
<1>7. CASE Provisioning!RequireEffect(c)
  <2>1. PICK new : new = [Provisioning!Idle EXCEPT !.pc = "admitting"]
    OBVIOUS
  <2>2. new \in Requesting /\ new.pc = "admitting"
    BY <2>1, IdleRequest DEF Requesting
  <2>3. Provisioning!Begin(c, new)
    BY <1>7, <2>1 DEF Provisioning!RequireEffect
  <2>4. QED
    BY <1>7, <2>2, <2>3, BeginQuiet DEF Provisioning!RequireEffect, Provisioning!tables, Quiet
<1>8. QED
  BY <1>2, <1>3, <1>4, <1>5, <1>6, <1>7

LEMMA ConnectionProbe ==
    ASSUME ConnectionInv, NEW c \in Callers, Provisioning!Probe(c), UNCHANGED busy
    PROVE  ConnectionInv'
<1>1. /\ UNCHANGED <<stored, integration, preflights, attested, enabled>>
      /\ request[c].pc = "resolving"
  BY DEF Provisioning!Probe, Provisioning!tables, Provisioning!At
<1>2. /\ request[c] \in Requesting /\ request[c].result \in ReadFacts /\ request[c].ref \in Refs
      /\ request[c].result.scopes = {} /\ request[c].gone \subseteq Provisioning!Revoked
  BY <1>1, RequestTyped DEF Requesting, RequestOK
<1>3. ASSUME NEW found \in ReadFacts, OfReference(found.scopes, request[c].ref),
             Provisioning!Become(c, [request[c] EXCEPT !.pc = "recording", !.result = found])
      PROVE  ConnectionInv'
  <2>1. PICK k : k = [request[c] EXCEPT !.pc = "recording", !.result = found]
    OBVIOUS
  <2>2. k \in Requesting
    BY <1>2, <2>1 DEF Requesting
  <2>3. k.pc = "recording" /\ k.ref = request[c].ref /\ k.result = found /\ k.gone = request[c].gone
    BY <1>2, <2>1 DEF Requesting
  <2>4. RequestOK(k)
    BY <1>2, <1>3, <2>3 DEF RequestOK
  <2>5. QED
    BY <1>1, <1>3, <2>1, <2>2, <2>4, RequestOnly DEF Provisioning!Become
<1>4. ASSUME NEW status \in Statuses,
             Provisioning!Become(c, [request[c] EXCEPT !.pc = "recording",
                                                       !.result.status = status])
      PROVE  ConnectionInv'
  <2>1. PICK found : found = [request[c].result EXCEPT !.status = status]
    OBVIOUS
  <2>2. found \in ReadFacts /\ found.scopes = {}
    BY <1>2, <2>1 DEF ReadFacts
  <2>3. [request[c] EXCEPT !.pc = "recording", !.result.status = status]
            = [request[c] EXCEPT !.pc = "recording", !.result = found]
    BY <1>2, <2>1 DEF Requesting
  <2>4. Provisioning!Become(c, [request[c] EXCEPT !.pc = "recording", !.result = found])
    BY <1>4, <2>3 DEF Provisioning!Become
  <2>5. QED
    BY <1>3, <2>2, <2>4 DEF OfReference
<1>5. ASSUME NEW proved \in SUBSET Proved,
             Provisioning!Become(c, [request[c] EXCEPT !.pc = "recording",
                                       !.result.status = "verified_ready",
                                       !.result.scopes = Stated[request[c].ref],
                                       !.result.verified = proved])
      PROVE  ConnectionInv'
  <2>1. PICK found : found = [request[c].result EXCEPT !.status = "verified_ready",
                                                       !.scopes = Stated[request[c].ref],
                                                       !.verified = proved]
    OBVIOUS
  <2>2. Stated[request[c].ref] \in SUBSET NamedScopes /\ "verified_ready" \in Statuses
    BY <1>2 DEF NamedScopes, Statuses
  <2>3. found \in ReadFacts
    BY <1>2, <2>1, <2>2 DEF ReadFacts
  <2>4. found.scopes = Stated[request[c].ref]
    BY <1>2, <2>1 DEF ReadFacts
  <2>5. [request[c] EXCEPT !.pc = "recording", !.result.status = "verified_ready",
                           !.result.scopes = Stated[request[c].ref],
                           !.result.verified = proved]
            = [request[c] EXCEPT !.pc = "recording", !.result = found]
    BY <1>2, <2>1 DEF Requesting, ReadFacts
  <2>6. Provisioning!Become(c, [request[c] EXCEPT !.pc = "recording", !.result = found])
    BY <1>5, <2>5 DEF Provisioning!Become
  <2>7. QED
    BY <1>3, <2>3, <2>4, <2>6 DEF OfReference
<1>6. "credential_unavailable" \in Statuses /\ Failures \subseteq Statuses
  BY DEF Statuses
<1>7. CASE Provisioning!Become(c, [request[c] EXCEPT !.pc = "recording",
                                      !.result.status = "credential_unavailable"])
  BY <1>4, <1>6, <1>7
<1>8. CASE \E failure \in Failures :
              Provisioning!Become(c, [request[c] EXCEPT !.pc = "recording",
                                                        !.result.status = failure])
  BY <1>4, <1>6, <1>8
<1>9. CASE \E proved \in SUBSET Proved :
              Provisioning!Become(c, [request[c] EXCEPT !.pc = "recording",
                                        !.result.status = "verified_ready",
                                        !.result.scopes = Stated[request[c].ref],
                                        !.result.verified = proved])
  BY <1>5, <1>9
<1>10. QED
  BY <1>7, <1>8, <1>9 DEF Provisioning!Probe

LEMMA ConnectionRecord ==
    ASSUME ConnectionInv, NEW c \in Callers, Provisioning!Record(c), UNCHANGED busy
    PROVE  ConnectionInv'
<1>1. PICK new : new = [ref |-> request[c].ref, at |-> request[c].at,
                        status |-> request[c].result.status,
                        scopes |-> request[c].result.scopes,
                        verified |-> request[c].result.verified]
  OBVIOUS
<1>2. PICK k : k = [Provisioning!Idle EXCEPT !.pc = "asking"]
  OBVIOUS
<1>3. /\ preflights' = Append(preflights, new) /\ Provisioning!Become(c, k)
      /\ UNCHANGED <<stored, integration, attested, enabled>> /\ request[c].pc = "recording"
  BY <1>1, <1>2 DEF Provisioning!Record, Provisioning!At
<1>4. k \in Requesting /\ k.pc = "asking" /\ k.gone = {}
  BY <1>2, IdleRequest DEF Requesting
<1>5. /\ request[c] \in Requesting /\ request[c].result \in ReadFacts
      /\ OfReference(request[c].result.scopes, request[c].ref)
  BY <1>3, RequestTyped DEF Requesting, RequestOK
<1>6. new \in Preflights
  BY <1>1, <1>5 DEF Preflights, ReadFacts, Requesting
<1>7. OfReference(new.scopes, new.ref)
  BY <1>1, <1>5
<1>8. preflights \in Seq(Preflights)
  BY DEF ConnectionInv, ConnectionTypes
<1>9. /\ preflights' \in Seq(Preflights)
      /\ DOMAIN preflights \subseteq DOMAIN preflights'
      /\ \A i \in DOMAIN preflights : preflights'[i] = preflights[i]
      /\ \A i \in DOMAIN preflights' : i \in DOMAIN preflights \/ preflights'[i] = new
  BY <1>3, <1>6, <1>8
<1>10. \A i \in DOMAIN preflights' : OfReference(preflights'[i].scopes, preflights'[i].ref)
  BY <1>7, <1>9 DEF ConnectionInv
<1>11. Provisioning!Revoked \subseteq Provisioning!Revoked'
  BY <1>3 DEF Provisioning!Revoked
<1>12. RequestOK(k)'
  <2>1. RequestOK(k)
    BY <1>4, QuietRequest DEF Quiet
  <2>2. QED
    BY <2>1, <1>9, <1>11, RequestKept
<1>13. QED
  BY <1>3, <1>4, <1>9, <1>10, <1>11, <1>12, RequestMoves
  DEF ConnectionInv, ConnectionTypes, Provisioning!Become

LEMMA ConnectionAsk ==
    ASSUME ConnectionInv, NEW c \in Callers, Provisioning!Ask(c), UNCHANGED busy,
           busy = "connections"
    PROVE  ConnectionInv'
<1>1. UNCHANGED <<stored, integration, preflights, attested, enabled>> /\ clock \in Nat
  BY DEF Provisioning!Ask, Provisioning!tables, ConnectionInv, ConnectionTypes
<1>2. CASE Provisioning!Begin(c, [Provisioning!Idle EXCEPT !.pc = "reading", !.at = clock])
  <2>1. PICK new : new = [Provisioning!Idle EXCEPT !.pc = "reading", !.at = clock]
    OBVIOUS
  <2>2. new \in Requesting /\ new.pc = "reading"
    BY <1>1, <2>1, IdleRequest DEF Requesting
  <2>3. QED
    BY <1>1, <1>2, <2>1, <2>2, BeginQuiet DEF Quiet
<1>3. CASE Provisioning!Become(c, [Provisioning!Idle EXCEPT !.pc = "reading", !.at = clock,
                                                            !.gone = Provisioning!Revoked])
  <2>1. PICK k : k = [Provisioning!Idle EXCEPT !.pc = "reading", !.at = clock,
                                               !.gone = Provisioning!Revoked]
    OBVIOUS
  <2>2. Provisioning!Revoked \subseteq Ids
    BY DEF Provisioning!Revoked
  <2>3. k \in Requesting /\ k.pc = "reading" /\ k.gone = Provisioning!Revoked
    BY <1>1, <2>1, <2>2, IdleRequest DEF Requesting
  <2>4. QED
    BY <1>1, <1>3, <2>1, <2>3, BecomeQuiet DEF Quiet
<1>4. QED
  BY <1>2, <1>3 DEF Provisioning!Ask

(* What one SELECT finds.                                                  *)
LEMMA ConnectionFacts ==
    ASSUME ConnectionInv, NEW c \in Callers, Provisioning!ReadFacts(c), UNCHANGED busy
    PROVE  ConnectionInv'
<1>1. /\ UNCHANGED <<stored, integration, preflights, attested, enabled>>
      /\ request[c].pc = "reading"
  BY DEF Provisioning!ReadFacts, Provisioning!tables, Provisioning!At
<1>2. /\ request[c] \in Requesting /\ request[c].gone \subseteq Provisioning!Revoked
      /\ preflights \in Seq(Preflights) /\ integration.ref \in Refs
      /\ integration.disconnected \in BOOLEAN /\ integration.configured \in BOOLEAN
      /\ enabled \subseteq Provisioning!Wanted
  BY RequestTyped DEF RequestOK, ConnectionInv, ConnectionTypes
<1>3. PICK here : here = ~integration.disconnected
  OBVIOUS
<1>4. PICK ref : ref = IF here THEN integration.ref ELSE Null
  OBVIOUS
<1>5. PICK base : base = [Provisioning!NoFacts EXCEPT !.ref = ref, !.enabled = enabled,
                                              !.configured = here /\ integration.configured]
  OBVIOUS
<1>6. ref \in Refs /\ (here /\ integration.configured) \in BOOLEAN
  BY <1>2, <1>3, <1>4 DEF Refs
<1>7. base \in ReadFacts
  BY <1>2, <1>5, <1>6, IdleRequest DEF ReadFacts
<1>8. base.ref = ref /\ base.status = "none"
  BY <1>5, IdleRequest DEF ReadFacts
<1>9. ASSUME NEW found \in ReadFacts, FoundOf(found),
             Provisioning!Become(c, [request[c] EXCEPT !.pc = "claims", !.result = found])
      PROVE  ConnectionInv'
  <2>1. PICK k : k = [request[c] EXCEPT !.pc = "claims", !.result = found]
    OBVIOUS
  <2>2. k \in Requesting
    BY <1>2, <2>1 DEF Requesting
  <2>3. k.pc = "claims" /\ k.result = found /\ k.gone = request[c].gone
    BY <1>2, <2>1 DEF Requesting
  <2>4. RequestOK(k)
    BY <1>2, <1>9, <2>3 DEF RequestOK
  <2>5. QED
    BY <1>1, <1>9, <2>1, <2>2, <2>4, RequestOnly DEF Provisioning!Become
<1>10. CASE Provisioning!Become(c, [request[c] EXCEPT !.pc = "claims", !.result = base])
  BY <1>7, <1>8, <1>9, <1>10 DEF FoundOf
<1>11. ASSUME NEW p \in Provisioning!LatestPreflights(ref),
              Provisioning!Become(c, [request[c] EXCEPT !.pc = "claims",
                 !.result = [base EXCEPT !.status = p.status, !.at = p.at,
                                         !.scopes = p.scopes, !.verified = p.verified]])
       PROVE  ConnectionInv'
  <2>1. PICK i \in DOMAIN preflights : p = preflights[i] /\ p.ref = ref
    BY DEF Provisioning!LatestPreflights
  <2>2. p \in Preflights
    BY <1>2, <2>1
  <2>3. PICK found : found = [base EXCEPT !.status = p.status, !.at = p.at,
                                          !.scopes = p.scopes, !.verified = p.verified]
    OBVIOUS
  <2>4. found \in ReadFacts
    BY <1>7, <2>2, <2>3 DEF ReadFacts, Preflights
  <2>5. /\ found.ref = ref /\ found.status = p.status /\ found.at = p.at
        /\ found.scopes = p.scopes /\ found.verified = p.verified
    BY <1>7, <1>8, <2>3 DEF ReadFacts
  <2>6. FoundOf(found)
    BY <2>1, <2>5 DEF FoundOf
  <2>7. QED
    BY <1>9, <1>11, <2>3, <2>4, <2>6
<1>12. \/ Provisioning!Become(c, [request[c] EXCEPT !.pc = "claims", !.result = base])
       \/ \E p \in Provisioning!LatestPreflights(ref) :
             Provisioning!Become(c, [request[c] EXCEPT !.pc = "claims",
                !.result = [base EXCEPT !.status = p.status, !.at = p.at,
                                        !.scopes = p.scopes, !.verified = p.verified]])
  BY <1>3, <1>4, <1>5 DEF Provisioning!ReadFacts
<1>13. QED
  BY <1>10, <1>11, <1>12

LEMMA ConnectionClaims ==
    ASSUME ConnectionInv, NEW c \in Callers, Provisioning!ReadAttestations(c), UNCHANGED busy
    PROVE  ConnectionInv'
<1>1. PICK k : k = [request[c] EXCEPT !.pc = "availability", !.claimed = attested]
  OBVIOUS
<1>2. /\ request[c].pc = "claims" /\ Provisioning!Become(c, k)
      /\ UNCHANGED <<stored, integration, preflights, attested, enabled>>
  BY <1>1 DEF Provisioning!ReadAttestations, Provisioning!tables, Provisioning!At
<1>3. attested \subseteq Provisioning!Capabilities
  BY DEF ConnectionInv, ConnectionTypes
<1>4. k \in Requesting
  BY <1>1, <1>3, RequestTyped DEF Requesting
<1>5. k.pc = "availability" /\ k.result = request[c].result /\ k.gone = request[c].gone
  BY <1>1, RequestTyped DEF Requesting
<1>6. RequestOK(k)
  BY <1>2, <1>5, RequestTyped DEF RequestOK
<1>7. QED
  BY <1>2, <1>4, <1>6, RequestOnly DEF Provisioning!Become

-----------------------------------------------------------------------------
(* What "ready" follows from.                                              *)
LEMMA SufficientGives ==
    ASSUME NEW facts_, NEW claims, NEW when, NEW capability \in
              Provisioning!SufficientCapabilities(facts_, claims, when)
    PROVE  \/ capability \in facts_.verified \/ capability \in claims
           \/ capability \in Provisioning!CapabilitiesFromProviderScopes(facts_.scopes)
  BY DEF Provisioning!SufficientCapabilities, Provisioning!CapabilityState

LEMMA ReadyGives ==
    ASSUME NEW facts_ \in ReadFacts, NEW claims, NEW available \in BOOLEAN, NEW when \in Nat,
           Provisioning!ComposeReadiness(facts_, claims, available, when) = "ready"
    PROVE  /\ available /\ facts_.status = "verified_ready" /\ when <= facts_.at + Trust
           /\ Provisioning!RequiredCapabilities(facts_.enabled) \subseteq
                 facts_.verified \union claims \union
                 Provisioning!CapabilitiesFromProviderScopes(facts_.scopes)
<1>0. facts_.status # "ready"
  BY GovernanceReferences DEF ReadFacts, Statuses
<1>1. /\ available /\ facts_.status = "verified_ready"
      /\ Provisioning!RequiredCapabilities(facts_.enabled) \subseteq
            Provisioning!SufficientCapabilities(facts_, claims, when)
      /\ ~Provisioning!IsPreflightStale(facts_.at, when)
  BY <1>0, Zenon DEF Provisioning!ComposeReadiness
<1>2. facts_.status = "verified_ready"
  BY <1>1
<1>3. when <= facts_.at + Trust
  BY <1>1, GovernanceBounds DEF Provisioning!IsPreflightStale, ReadFacts
<1>4. QED
  BY <1>1, <1>2, <1>3, SufficientGives

(* A workload shown as protected passed the same checks, each by itself.   *)
LEMMA ProtectedGives ==
    ASSUME NEW facts_ \in ReadFacts, NEW claims, NEW available \in BOOLEAN, NEW when \in Nat,
           NEW workload,
           Provisioning!EvaluateGoLiveReadiness(workload, facts_, claims, available, when)
    PROVE  /\ available /\ facts_.status = "verified_ready" /\ when <= facts_.at + Trust
           /\ Provisioning!RequiredCapabilities(facts_.enabled) \subseteq
                 facts_.verified \union claims \union
                 Provisioning!CapabilitiesFromProviderScopes(facts_.scopes)
<1>1. /\ available /\ facts_.status = "verified_ready"
      /\ Provisioning!RequiredCapabilities(facts_.enabled) \subseteq
            Provisioning!SufficientCapabilities(facts_, claims, when)
      /\ ~Provisioning!IsPreflightStale(facts_.at, when)
  BY DEF Provisioning!EvaluateGoLiveReadiness
<1>2. when <= facts_.at + Trust
  BY <1>1, GovernanceBounds DEF Provisioning!IsPreflightStale, ReadFacts
<1>3. QED
  BY <1>1, <1>2, SufficientGives

LEMMA ReadinessTyped ==
    ASSUME NEW facts_ \in ReadFacts, NEW claims, NEW available, NEW when
    PROVE  Provisioning!ComposeReadiness(facts_, claims, available, when) \in Readiness
<1>1. facts_.status \in Readiness
  BY DEF Readiness, ReadFacts
<1>2. {"not_enabled", "not_configured", "credential_unavailable", "never_preflighted",
       "preflight_stale", "ready", "capabilities_insufficient"} \subseteq Readiness
  BY DEF Readiness, Statuses
<1>3. QED
  BY <1>1, <1>2 DEF Provisioning!ComposeReadiness

LEMMA ConnectionAnswer ==
    ASSUME ConnectionInv, NEW c \in Callers, Provisioning!Answer(c), UNCHANGED busy
    PROVE  ConnectionInv'
<1>1. /\ request[c].pc = "availability"
      /\ UNCHANGED <<stored, integration, preflights, attested, enabled>>
  BY DEF Provisioning!Answer, Provisioning!At, Provisioning!tables
<1>2. PICK facts_, claims, moment :
         /\ facts_ = request[c].result /\ claims = request[c].claimed
         /\ moment = request[c].at
  OBVIOUS
<1>3. /\ request[c] \in Requesting /\ facts_ \in ReadFacts /\ facts_.ref \in Refs
      /\ moment \in Nat /\ request[c].listed \subseteq Provisioning!Wanted
      /\ request[c].workload \subseteq Provisioning!Wanted
      /\ request[c].gone \subseteq Provisioning!Revoked /\ FoundOf(facts_)
  BY <1>1, <1>2, RequestTyped DEF Requesting, ReadFacts, RequestOK
<1>4. PICK available : available = (facts_.configured /\ Provisioning!Resolves(facts_.ref))
  OBVIOUS
<1>5. PICK readiness :
         readiness = Provisioning!ComposeReadiness(facts_, claims, available, moment)
  OBVIOUS
<1>6. readiness \in Readiness
  BY <1>3, <1>5, ReadinessTyped
<1>7. PICK shown : shown = {e \in request[c].listed :
         Provisioning!EvaluateEffectSpecReadiness(e, request[c].listed, readiness) = "ready"}
  OBVIOUS
<1>8. PICK kept :
         kept = IF Provisioning!EvaluateGoLiveReadiness(request[c].workload, facts_, claims,
                                                        available, moment)
                THEN request[c].workload ELSE {}
  OBVIOUS
<1>9. /\ shown \subseteq Provisioning!Wanted /\ kept \subseteq Provisioning!Wanted
      /\ shown # {} => readiness = "ready"
  BY <1>3, <1>7, <1>8 DEF Provisioning!EvaluateEffectSpecReadiness
<1>10. PICK k : k = [request[c] EXCEPT !.pc = "answered", !.ref = facts_.ref,
                              !.answer = readiness, !.listed = shown, !.workload = kept]
  OBVIOUS
<1>11. Provisioning!Become(c, k) \/ Provisioning!Return(c)
  BY <1>2, <1>4, <1>5, <1>7, <1>8, <1>10 DEF Provisioning!Answer
<1>12. k \in Requesting
  BY <1>3, <1>6, <1>9, <1>10 DEF Requesting
<1>13. /\ k.pc = "answered" /\ k.ref = facts_.ref /\ k.answer = readiness /\ k.listed = shown
       /\ k.workload = kept /\ k.result = facts_ /\ k.at = moment /\ k.claimed = claims
       /\ k.gone = request[c].gone
  BY <1>2, <1>3, <1>10 DEF Requesting
<1>14. ASSUME readiness = "ready" \/ kept # {} PROVE Verified(k)
  <2>1. /\ available /\ facts_.status = "verified_ready" /\ moment <= facts_.at + Trust
        /\ Provisioning!RequiredCapabilities(facts_.enabled) \subseteq
              facts_.verified \union claims \union
              Provisioning!CapabilitiesFromProviderScopes(facts_.scopes)
    <3>1. facts_ \in ReadFacts /\ moment \in Nat /\ available \in BOOLEAN
      BY <1>3, <1>4, Zenon DEF Provisioning!Resolves
    <3>2. CASE readiness = "ready"
      BY <1>5, <3>1, <3>2, ReadyGives
    <3>3. CASE kept # {}
      <4>1. PICK workload : workload = request[c].workload
        OBVIOUS
      <4>2. Provisioning!EvaluateGoLiveReadiness(workload, facts_, claims, available, moment)
        BY <1>8, <3>3, <4>1
      <4>3. QED
        BY <3>1, <4>2, ProtectedGives
    <3>4. QED
      BY <1>14, <3>2, <3>3
  <2>2. k.ref = Operator \/ (k.ref \in Ids /\ stored[k.ref] = "live")
    BY <1>4, <1>13, <2>1 DEF Provisioning!Resolves, Provisioning!Live
  <2>3. k.ref \notin k.gone \union {Foreign, Null}
    BY <1>3, <1>13, <2>2, GovernanceReferences DEF Provisioning!Revoked
  <2>4. PICK i \in DOMAIN preflights :
           /\ preflights[i].ref = facts_.ref /\ preflights[i].status = facts_.status
           /\ preflights[i].at = facts_.at /\ preflights[i].scopes = facts_.scopes
           /\ preflights[i].verified = facts_.verified
    BY <1>3, <2>1 DEF FoundOf
  <2>5. k.at - preflights[i].at <= Trust
    BY <1>3, <1>13, <2>1, <2>4, GovernanceBounds DEF ReadFacts
  <2>6. OfReference(facts_.scopes, facts_.ref)
    BY <2>4 DEF ConnectionInv
  <2>7. Provisioning!CapabilitiesFromProviderScopes({}) = {}
    BY DEF Provisioning!CapabilitiesFromProviderScopes
  <2>8. Provisioning!CapabilitiesFromProviderScopes(facts_.scopes) \subseteq
            Provisioning!CapabilitiesFromProviderScopes(Stated[facts_.ref])
    BY <2>6, <2>7 DEF OfReference
  <2>9. QED
    BY <1>13, <2>1, <2>3, <2>4, <2>5, <2>8 DEF Verified
<1>15. RequestOK(k)
  BY <1>3, <1>9, <1>13, <1>14 DEF RequestOK
<1>16. CASE Provisioning!Become(c, k)
  BY <1>1, <1>10, <1>12, <1>15, <1>16, RequestOnly DEF Provisioning!Become
<1>17. CASE Provisioning!Return(c)
  BY <1>1, <1>17, ReturnQuiet
<1>18. QED
  BY <1>11, <1>16, <1>17

-----------------------------------------------------------------------------
(* Admission, and the credential an admitted action goes with.             *)
LEMMA ConnectionAdmits ==
    ASSUME ConnectionInv, NEW c \in Callers, Provisioning!RequireIntegration(c), UNCHANGED busy
    PROVE  ConnectionInv'
<1>1. UNCHANGED <<stored, integration, preflights, attested, enabled>>
  BY DEF Provisioning!RequireIntegration, Provisioning!tables
<1>2. CASE Provisioning!Return(c)
  BY <1>1, <1>2, ReturnQuiet
<1>3. CASE Provisioning!Become(c, [request[c] EXCEPT !.pc = "admitted", !.ref = integration.ref])
  <2>1. PICK k : k = [request[c] EXCEPT !.pc = "admitted", !.ref = integration.ref]
    OBVIOUS
  <2>2. integration.ref \in Refs /\ integration.ref # Foreign
    BY DEF ConnectionInv, ConnectionTypes
  <2>3. k \in Requesting
    BY <2>1, <2>2, RequestTyped DEF Requesting
  <2>4. k.pc = "admitted" /\ k.ref = integration.ref /\ k.gone = request[c].gone
    BY <2>1, RequestTyped DEF Requesting
  <2>5. RequestOK(k)
    BY <2>2, <2>4, RequestTyped DEF RequestOK
  <2>6. QED
    BY <1>1, <1>3, <2>1, <2>3, <2>5, RequestOnly DEF Provisioning!Become
<1>4. QED
  BY <1>2, <1>3 DEF Provisioning!RequireIntegration

LEMMA ConnectionUses ==
    ASSUME ConnectionInv, NEW c \in Callers, Provisioning!UseCredential(c), UNCHANGED busy
    PROVE  ConnectionInv'
<1>1. /\ UNCHANGED <<stored, integration, preflights, attested, enabled>>
      /\ request[c].pc = "admitted"
  BY DEF Provisioning!UseCredential, Provisioning!tables, Provisioning!At
<1>2. CASE Provisioning!Return(c)
  BY <1>1, <1>2, ReturnQuiet
<1>3. CASE /\ Provisioning!ResolvesAnywhere(request[c].ref)
           /\ Provisioning!Become(c, [request[c] EXCEPT !.pc = "used"])
  <2>1. PICK k : k = [request[c] EXCEPT !.pc = "used"]
    OBVIOUS
  <2>2. k \in Requesting
    BY <2>1, RequestTyped DEF Requesting
  <2>3. k.pc = "used" /\ k.ref = request[c].ref /\ k.gone = request[c].gone
    BY <2>1, RequestTyped DEF Requesting
  <2>4. k.ref # Foreign
    BY <1>1, <2>3, RequestTyped DEF RequestOK
  <2>5. k.ref = Operator \/ (k.ref \in Ids /\ stored[k.ref] = "live")
    BY <1>3, <2>3, <2>4
    DEF Provisioning!ResolvesAnywhere, Provisioning!Resolves, Provisioning!Live
  <2>6. k.gone \subseteq Provisioning!Revoked
    BY <2>3, RequestTyped DEF RequestOK
  <2>7. k.ref \notin k.gone
    BY <2>5, <2>6, GovernanceReferences DEF Provisioning!Revoked
  <2>8. RequestOK(k)
    BY <2>3, <2>4, <2>6, <2>7 DEF RequestOK
  <2>9. QED
    BY <1>1, <1>3, <2>1, <2>2, <2>8, RequestOnly DEF Provisioning!Become
<1>4. QED
  BY <1>2, <1>3 DEF Provisioning!UseCredential, Provisioning!Goto

LEMMA ConnectionLeaves ==
    ASSUME ConnectionInv, NEW c \in Callers, Provisioning!Leave(c), UNCHANGED busy
    PROVE  ConnectionInv'
  BY ReturnQuiet DEF Provisioning!Leave, Provisioning!tables

-----------------------------------------------------------------------------
(* The commands of one statement, and what another part does.              *)
LEMMA ConnectionRest ==
    ASSUME ConnectionInv, UNCHANGED <<busy, stored, preflights, request>>,
           busy = "connections" => clock' \in Nat,
           integration' \in [ref : Refs, configured : BOOLEAN, disconnected : BOOLEAN],
           integration'.ref # Foreign, attested' \subseteq Provisioning!Capabilities,
           enabled' \subseteq Provisioning!Wanted
    PROVE  ConnectionInv'
<1>1. ConnectionTypes'
  BY DEF ConnectionInv, ConnectionTypes
<1>2. UNCHANGED Provisioning!Revoked
  BY DEF Provisioning!Revoked
<1>3. ASSUME NEW c \in Callers PROVE RequestOK(request[c])'
  <2>1. PICK k : k = request[c]
    OBVIOUS
  <2>2. RequestOK(k)'
    BY <1>2, <2>1, RequestKept DEF ConnectionInv
  <2>3. QED
    BY <2>1, <2>2
<1>4. \A i \in DOMAIN preflights' : OfReference(preflights[i].scopes, preflights[i].ref)'
  BY DEF ConnectionInv, OfReference
<1>5. QED
  BY <1>1, <1>3, <1>4 DEF ConnectionInv

LEMMA ConnectionChanges ==
    ASSUME ConnectionInv, UNCHANGED busy, busy = "connections",
           \/ Provisioning!Disconnect \/ Provisioning!AttestCapability
           \/ Provisioning!RevokeAttestation \/ Provisioning!ConfigureEffectSpec
           \/ Provisioning!Tick
    PROVE  ConnectionInv'
<1>1. /\ clock \in Nat /\ attested \subseteq Provisioning!Capabilities
      /\ enabled \subseteq Provisioning!Wanted /\ integration.ref # Foreign
      /\ integration \in [ref : Refs, configured : BOOLEAN, disconnected : BOOLEAN]
  BY DEF ConnectionInv, ConnectionTypes
<1>2. CASE Provisioning!Disconnect
  <2>1. /\ integration' \in [ref : Refs, configured : BOOLEAN, disconnected : BOOLEAN]
        /\ integration'.ref # Foreign
    BY <1>1, <1>2 DEF Provisioning!Disconnect
  <2>2. QED
    BY <1>1, <1>2, <2>1, ConnectionRest DEF Provisioning!Disconnect, Provisioning!Change
<1>3. CASE Provisioning!AttestCapability
  BY <1>1, <1>3, ConnectionRest DEF Provisioning!AttestCapability, Provisioning!Change
<1>4. CASE Provisioning!RevokeAttestation
  BY <1>1, <1>4, ConnectionRest DEF Provisioning!RevokeAttestation, Provisioning!Change
<1>5. CASE Provisioning!ConfigureEffectSpec
  <2>1. enabled' \subseteq Provisioning!Wanted
    BY <1>1, <1>5 DEF Provisioning!ConfigureEffectSpec
  <2>2. QED
    BY <1>1, <1>5, <2>1, ConnectionRest
    DEF Provisioning!ConfigureEffectSpec, Provisioning!Change
<1>6. CASE Provisioning!Tick
  BY <1>1, <1>6, ConnectionRest DEF Provisioning!Tick, Provisioning!tables
<1>7. QED
  BY <1>2, <1>3, <1>4, <1>5, <1>6

LEMMA ConnectionStep == ConnectionInv /\ [NextAll]_everything => ConnectionInv'
<1>. SUFFICES ASSUME ConnectionInv, [NextAll]_everything PROVE ConnectionInv'
  OBVIOUS
<1>0. /\ attested \subseteq Provisioning!Capabilities /\ enabled \subseteq Provisioning!Wanted
      /\ integration.ref # Foreign /\ (busy = "connections" => clock \in Nat)
      /\ integration \in [ref : Refs, configured : BOOLEAN, disconnected : BOOLEAN]
  BY DEF ConnectionInv, ConnectionTypes
<1>1. CASE busy = "connections" /\ Provisioning!Next /\ UNCHANGED busy
  <2>1. CASE \/ Provisioning!Disconnect \/ Provisioning!AttestCapability
             \/ Provisioning!RevokeAttestation \/ Provisioning!ConfigureEffectSpec
             \/ Provisioning!Tick
    BY <1>1, <2>1, ConnectionChanges
  <2>2. ASSUME NEW c \in Callers,
               \/ Provisioning!Supersede(c) \/ Provisioning!Insert(c) \/ Provisioning!Reconnect(c)
               \/ Provisioning!CheckOwner(c) \/ Provisioning!Configure(c)
               \/ Provisioning!Revoke(c)
        PROVE  ConnectionInv'
    BY <1>1, <2>2, ConnectionSupersede, ConnectionInsert, ConnectionReconnect,
       ConnectionOwner, ConnectionConfigure, ConnectionRevoke
  <2>3. ASSUME NEW c \in Callers,
               \/ Provisioning!Probe(c) \/ Provisioning!Record(c) \/ Provisioning!Ask(c)
               \/ Provisioning!ReadFacts(c) \/ Provisioning!ReadAttestations(c)
               \/ Provisioning!Answer(c)
        PROVE  ConnectionInv'
    BY <1>1, <2>3, ConnectionProbe, ConnectionRecord, ConnectionAsk, ConnectionFacts,
       ConnectionClaims, ConnectionAnswer
  <2>4. ASSUME NEW c \in Callers,
               \/ Provisioning!RequireIntegration(c) \/ Provisioning!UseCredential(c)
               \/ Provisioning!Leave(c)
        PROVE  ConnectionInv'
    BY <1>1, <2>4, ConnectionAdmits, ConnectionUses, ConnectionLeaves
  <2>5. QED
    BY <1>1, <2>1, <2>2, <2>3, <2>4, ConnectionBegins DEF Provisioning!Next
<1>2. CASE busy # "connections" /\ UNCHANGED <<busy, connecting>>
  BY <1>0, <1>2, ConnectionRest DEF connecting
<1>3. CASE UNCHANGED <<busy, clock, connecting>>
  BY <1>0, <1>3, ConnectionRest DEF connecting
<1>4. QED
  <2>1. CASE NextAll /\ busy = "connections"
    BY <2>1, <1>1 DEF NextAll
  <2>2. CASE NextAll /\ busy # "connections"
    BY <2>2, <1>2 DEF NextAll, tenancy
  <2>3. CASE UNCHANGED everything
    BY <2>3, <1>3 DEF everything, tenancy
  <2>4. QED
    BY <2>1, <2>2, <2>3

LEMMA ConnectionAlways == SpecAll => []ConnectionInv
<1>1. QED
  BY ConnectionInit, ConnectionStep, PTL DEF SpecAll

(* An answer that says ready speaks of a live credential of this very      *)
(* environment that a recent preflight verified for all that is needed.    *)
THEOREM ReadyTheorem == SpecAll => []ReadyIsVerified
<1>1. QED
  BY ConnectionGives, ConnectionAlways, PTL

-----------------------------------------------------------------------------
(* The environment: its admissions beside everything else, its clock, and  *)
(* the types of all its tables.                                            *)
LEMMA TruthCounts ==
    Truth!Next => clock' \in {clock, clock + 1} /\ crashes' \in {crashes, crashes + 1}
BY DEF Truth!Next, Truth!Observe, Truth!LockSlot, Truth!ReadIncumbent, Truth!RecordFact,
       Truth!StartEvaluation, Truth!Evaluate, Truth!LockInstance, Truth!ReadFacts,
       Truth!WriteEvaluation, Truth!ReadInstance, Truth!ReadEvaluation, Truth!IssueReceipt,
       Truth!Crash, Truth!OpenInstance, Truth!Tick

LEMMA ReportsCount ==
    Reports!Next => /\ clock' \in {clock, clock + 1} /\ crashes' \in {crashes, crashes + 1}
                    /\ pushes' \in {pushes, pushes + 1}
BY DEF Reports!Next, Reports!Submit, Reports!Conclusive, Reports!CheckSource, Reports!Unverified,
       Reports!Insert, Reports!RecordFact, Reports!LinkFact, Reports!Accept, Reports!Fulfil,
       Reports!Reject, Reports!Crash, Reports!RegisterSource, Reports!RevokeSource,
       Reports!IssueRequest, Reports!ExpireStale, Reports!Tick

LEMMA CommandsCount ==
    Commands!Next => crashes' \in {crashes, crashes + 1} /\ commands' \in {commands, commands + 1}
BY DEF Commands!Next, Commands!Call, Commands!Reserve, Commands!Replay, Commands!Operate,
       Commands!Fail, Commands!Release, Commands!Complete, Commands!Crash

LEMMA DeparturesCount ==
    Departures!Next => crashes' \in {crashes, crashes + 1} /\ runs' \in {runs, runs + 1}
BY DEF Departures!Next, Departures!Execute, Departures!Crash, Departures!Find,
       Departures!PreflightFails, Departures!Dispatch, Departures!Recover, Departures!Observe,
       Departures!Derive, Departures!Attach, Departures!ReadResolution, Departures!Compare,
       Departures!Reobserve, Departures!Drift

LEMMA LeasingCounts == Leasing!Next => clock' \in {clock, clock + 1}
BY DEF Leasing!Next, Leasing!AppendEvidence, Leasing!NextResolutionSequence,
       Leasing!SaveResolution, Leasing!Tick, Leasing!Authorize, Leasing!ReadReceipt,
       Leasing!IssueLease, Leasing!ConsumeLease

LEMMA ResetsCount == Resets!Next => clock' \in {clock, clock + 1}
BY DEF Resets!Next, Resets!DeleteSession, Resets!Tick, Resets!Compare, Resets!InsertSession,
       Resets!CountRecent, Resets!SupersedeLinks, Resets!IssueLink, Resets!ConsumeLink,
       Resets!ChangePassword, Resets!Abandon, Resets!Begin

LEMMA ProvisioningCounts == Provisioning!Next => clock' \in {clock, clock + 1}
BY DEF Provisioning!Next, Provisioning!Disconnect, Provisioning!AttestCapability,
       Provisioning!RevokeAttestation, Provisioning!ConfigureEffectSpec, Provisioning!Tick,
       Provisioning!Supersede, Provisioning!Insert, Provisioning!Reconnect,
       Provisioning!PutReference, Provisioning!CheckOwner, Provisioning!Configure,
       Provisioning!Describe, Provisioning!Revoke, Provisioning!ReadReference,
       Provisioning!Probe, Provisioning!Record, Provisioning!Ask,
       Provisioning!ListEffectSpecs, Provisioning!AskGoLive, Provisioning!ReadFacts,
       Provisioning!ReadAttestations, Provisioning!Answer, Provisioning!RequireEffect,
       Provisioning!RequireIntegration, Provisioning!UseCredential, Provisioning!Leave,
       Provisioning!Become, Provisioning!Return, Provisioning!Goto, Provisioning!Begin,
       Provisioning!Change

(* Only admission moves the admissions; others may move the clock.         *)
LEMMA ClockMoves ==
    ASSUME [NextAll]_everything
    PROVE  \/ busy = "admission" /\ Next
           \/ UNCHANGED admissions /\ clock' \in {clock, clock + 1}
BY TruthCounts, ReportsCount, LeasingCounts, ResetsCount, ProvisioningCounts
   DEF NextAll, everything, controls

LEMMA AdmittedStep == Inv /\ [NextAll]_everything => Inv' /\ Stops
<1>. SUFFICES ASSUME Inv, [NextAll]_everything PROVE Inv' /\ Stops
  OBVIOUS
<1>1. CASE Next
  BY <1>1, AdmissionStep, FreezeStep
<1>2. CASE UNCHANGED admissions /\ clock' \in {clock, clock + 1}
  <2>1. UNCHANGED <<holder, mode, canary, frozen, rules, granted, ledger, acted, caller, used>>
    BY <1>2 DEF admissions, operators
  <2>2. clock' \in Nat
    BY <1>2 DEF Inv, TypeOK
  <2>3. Inv'
    BY <2>1, <2>2, AdmissionRest
  <2>4. Stops
    BY <2>1 DEF Stops, Admitted
  <2>5. QED
    BY <2>3, <2>4
<1>3. QED
  BY <1>1, <1>2, ClockMoves

LEMMA AdmittedAlways == SpecAll => []Inv
<1>1. InitAll => Inv
  BY AdmissionInit DEF InitAll
<1>2. QED
  BY <1>1, AdmittedStep, PTL DEF SpecAll

(* The budgets hold and a freeze stops also while the rest of the          *)
(* environment goes on, whichever part the clock belongs to.               *)
THEOREM AdmittedTheorem == SpecAll => []BudgetHolds /\ FreezeStops
<1>1. Inv => BudgetHolds
  BY BudgetsEverHold DEF Inv
<1>2. Inv /\ [NextAll]_everything =>
        [\A k \in Keys : ledger[k] = Null /\ Admitted(k)' =>
           \A scope \in frozen' : ~Covers(scope, ledger'[k].request)]_vars
  BY AdmittedStep DEF Stops
<1>3. QED
  BY <1>1, <1>2, AdmittedAlways, PTL DEF SpecAll, FreezeStops

-----------------------------------------------------------------------------
(* Counters, and sources.                                                  *)
CountsOK ==
    /\ crashes \in Nat /\ commands \in Nat /\ pushes \in Nat /\ runs \in Nat
    /\ source \in [Sources -> {"unregistered", "live", "revoked"}]

LEMMA SourceMoves ==
    ASSUME CountsOK, Reports!Next
    PROVE  source' \in [Sources -> {"unregistered", "live", "revoked"}]
BY DEF CountsOK, Reports!Next, Reports!Submit, Reports!Conclusive, Reports!CheckSource,
       Reports!Unverified, Reports!Insert, Reports!RecordFact, Reports!LinkFact, Reports!Accept,
       Reports!Fulfil, Reports!Reject, Reports!Crash, Reports!RegisterSource,
       Reports!RevokeSource, Reports!IssueRequest, Reports!ExpireStale, Reports!Tick

LEMMA CountsAlways == SpecAll => []CountsOK
<1>1. InitAll => CountsOK
  BY DEF InitAll, CountsOK, Commands!Init, Reports!Init, Departures!Init
<1>2. ASSUME CountsOK, [NextAll]_everything PROVE CountsOK'
  <2>1. CASE Commands!Next /\ UNCHANGED <<reports, departures>>
    BY <1>2, <2>1, CommandsCount DEF CountsOK, reports, departures
  <2>2. CASE Truth!Next /\ UNCHANGED <<keyed, reports, departures>>
    BY <1>2, <2>2, TruthCounts DEF CountsOK, keyed, reports, departures
  <2>3. CASE Reports!Next /\ UNCHANGED <<keyed, departures>>
    BY <1>2, <2>3, ReportsCount, SourceMoves DEF CountsOK, keyed, departures
  <2>4. CASE Departures!Next /\ UNCHANGED <<keyed, reports>>
    BY <1>2, <2>4, DeparturesCount DEF CountsOK, keyed, reports
  <2>5. CASE UNCHANGED <<crashes, keyed, reports, departures>>
    BY <1>2, <2>5 DEF CountsOK, keyed, reports, departures
  <2>6. QED
    BY <1>2, <2>1, <2>2, <2>3, <2>4, <2>5 DEF NextAll, everything, controls
<1>3. QED
  BY <1>1, <1>2, PTL DEF SpecAll

(* An action attached to a run exists.                                     *)
AttachedOK ==
    /\ run \in [Departures!Stages -> BOOLEAN]
    /\ \A s \in Departures!Stages : run[s] => action[s].status # "absent"

LEMMA AttachedStep == RunInv /\ AttachedOK /\ Departures!Next => AttachedOK'
<1>. SUFFICES ASSUME RunInv, AttachedOK, Departures!Next PROVE AttachedOK'
  OBVIOUS
<1>. USE DEF AttachedOK
<1>1. CASE UNCHANGED <<run, action>>
  BY <1>1
<1>2. ASSUME NEW c \in Callers, NEW s \in Departures!Stages, Departures!Find(c, s)
      PROVE  AttachedOK'
  BY <1>2 DEF Departures!Find, RunInv, RunTypes
<1>3. ASSUME NEW c \in Callers, NEW s \in Departures!Stages, Departures!Attach(c, s)
      PROVE  AttachedOK'
  BY <1>3 DEF Departures!Attach, Departures!In, Departures!At, RunInv, StandsAt
<1>4. ASSUME NEW s \in Departures!Stages, Departures!Claim(s), UNCHANGED run
      PROVE  AttachedOK'
  BY <1>4 DEF Departures!Claim, RunInv, RunTypes
<1>5. ASSUME NEW c \in Callers, NEW s \in Departures!Stages,
             Departures!Dispatch(c, s) \/ Departures!Recover(c, s)
      PROVE  AttachedOK'
  BY <1>1, <1>4, <1>5 DEF Departures!Dispatch, Departures!Recover
<1>6. QED
  BY <1>1, <1>2, <1>3, <1>5
     DEF Departures!Next, Departures!Execute, Departures!Crash, Departures!PreflightFails,
         Departures!Observe, Departures!Derive, Departures!ReadResolution, Departures!Compare,
         Departures!Reobserve, Departures!Drift

LEMMA AttachedAlways == SpecAll => []AttachedOK
<1>1. InitAll => AttachedOK
  BY DEF InitAll, AttachedOK, Departures!Init
<1>2. ASSUME RunInv, AttachedOK, [NextAll]_everything PROVE AttachedOK'
  <2>1. CASE Departures!Next
    BY <1>2, <2>1, AttachedStep
  <2>2. CASE UNCHANGED departures
    BY <1>2, <2>2 DEF AttachedOK, departures
  <2>3. QED
    BY <1>2, <2>1, <2>2 DEF NextAll, everything, controls
<1>3. QED
  BY <1>1, <1>2, RunAlways, PTL DEF SpecAll

(* Approvals are only withdrawn, a grant is of an evaluation there may be,  *)
(* and what is presented was issued.                                       *)
PresentOK ==
    /\ approved \subseteq Approvals /\ Len(verdicts) <= MaxEvaluations
    /\ \A b \in Callers : bearer[b].id \in Granting!Issued \union {Null}

LEMMA PresentStep == GrantInv /\ PresentOK /\ Granting!Next => PresentOK'
<1>. SUFFICES ASSUME GrantInv, PresentOK, Granting!Next PROVE PresentOK'
  OBVIOUS
<1>1. bearer \in [Callers -> Bearer] /\ grant \in [Leases -> Signed \union {Null}]
  BY DEF GrantInv, GrantTypes
<1>2. Granting!Idle.id = Null
  BY DEF Granting!Idle
<1>3. ASSUME UNCHANGED <<grant, verdicts, approved>>, NEW b \in Callers, NEW k,
             k.id \in Granting!Issued \union {Null}, Granting!Become(b, k)
      PROVE  PresentOK'
  BY <1>1, <1>3 DEF PresentOK, Granting!Become, Granting!Issued
<1>4. ASSUME NEW i \in Leases, NEW g, g # Null, grant' = [grant EXCEPT ![i] = g],
             UNCHANGED <<verdicts, approved>>,
             \A b \in Callers : bearer'[b].id \in {bearer[b].id, Null}
      PROVE  PresentOK'
  BY <1>1, <1>4 DEF PresentOK, Granting!Issued
<1>5. ASSUME NEW b \in Callers, Granting!Return(b)
      PROVE  \A d \in Callers : bearer'[d].id \in {bearer[d].id, Null}
  BY <1>1, <1>2, <1>5 DEF Granting!Return, Granting!Become
<1>6. CASE Granting!RevokeGrant
  <2>1. PICK i \in Granting!Issued : grant' = [grant EXCEPT ![i].ended = TRUE]
    BY <1>6 DEF Granting!RevokeGrant
  <2>2. [grant[i] EXCEPT !.ended = TRUE] # Null /\ i \in Leases
    BY <1>1, GovernanceNull DEF Granting!Issued, Signed
  <2>3. grant' = [grant EXCEPT ![i] = [grant[i] EXCEPT !.ended = TRUE]]
    BY <2>1
  <2>4. QED
    BY <1>4, <1>6, <2>2, <2>3 DEF Granting!RevokeGrant
<1>7. CASE Granting!WithdrawApproval
  BY <1>7 DEF Granting!WithdrawApproval, PresentOK, Granting!Issued
<1>8. CASE Granting!EvaluateOutcome
  <2>1. verdicts \in Seq(Granting!Verdicts) /\ MaxEvaluations \in Nat
    BY GovernanceBounds DEF GrantInv, GrantTypes
  <2>2. Len(verdicts) + 1 <= MaxEvaluations /\ Len(verdicts') = Len(verdicts) + 1
    BY <1>8, <2>1 DEF Granting!EvaluateOutcome, Granting!Sequence
  <2>3. QED
    BY <1>8, <2>2 DEF Granting!EvaluateOutcome, PresentOK, Granting!Issued
<1>9. ASSUME NEW b \in Callers, NEW agent, NEW permits, NEW exception,
             Granting!ReadOutcome(b, agent, permits, exception)
      PROVE  PresentOK'
  <2>1. PICK k : k.id = Null /\ Granting!Become(b, k)
    BY <1>9 DEF Granting!ReadOutcome, Granting!Ask, Granting!Idle
  <2>2. QED
    BY <1>3, <1>9, <2>1 DEF Granting!ReadOutcome
<1>10. ASSUME NEW b \in Callers, Granting!CheckException(b) \/ Granting!RecheckException(b)
       PROVE  PresentOK'
  <2>1. PICK k : k.id \in {bearer[b].id, Null} /\ Granting!Become(b, k)
    BY <1>1, <1>2, <1>10
       DEF Granting!CheckException, Granting!RecheckException, Granting!Return, Bearer
  <2>2. QED
    BY <1>3, <1>10, <2>1
       DEF Granting!CheckException, Granting!RecheckException, PresentOK
<1>11. ASSUME NEW b \in Callers, Granting!InsertGrant(b) PROVE PresentOK'
  <2>1. bearer[b].with \in Signed
    BY <1>11 DEF GrantInv, BearerOK, Granting!InsertGrant, Granting!At
  <2>2. bearer[b].with # Null
    BY <2>1, GovernanceNull DEF Signed
  <2>3. QED
    BY <1>4, <1>5, <1>11, <2>2 DEF Granting!InsertGrant
<1>12. ASSUME NEW b \in Callers, NEW i \in Granting!Issued, NEW agent, NEW effect,
              NEW resource, Granting!Present(b, i, agent, effect, resource)
       PROVE  PresentOK'
  <2>1. PICK k : k.id = i /\ Granting!Become(b, k)
    BY <1>12 DEF Granting!Present, Granting!Ask
  <2>2. QED
    BY <1>3, <1>12, <2>1 DEF Granting!Present
<1>13. ASSUME NEW b \in Callers, Granting!ConsumeGrant(b) PROVE PresentOK'
  <2>1. PICK i : i = bearer[b].id
    OBVIOUS
  <2>2. i \in Leases /\ grant[i] \in Signed
    BY <1>1, <1>13, <2>1 DEF GrantInv, BearerOK, PresentedOK, Granting!Issued,
       Granting!ConsumeGrant, Granting!At
  <2>3. PICK g : g = [grant[i] EXCEPT !.consumed = TRUE, !.uses = grant[i].uses + 1]
    OBVIOUS
  <2>4. g \in Signed
    <3>1. grant[i].uses + 1 \in Nat
      BY <2>2 DEF Signed
    <3>2. QED
      BY <2>2, <2>3, <3>1 DEF Signed
  <2>5. grant[i] # Null /\ g # Null
    BY <2>2, <2>4, GovernanceNull DEF Signed
  <2>6. \/ grant' = [grant EXCEPT ![i] = grant[i]]
        \/ grant' = [grant EXCEPT ![i] = g]
    BY <1>1, <1>13, <2>1, <2>2, <2>3 DEF Granting!ConsumeGrant, Signed
  <2>7. QED
    BY <1>4, <1>5, <1>13, <2>2, <2>5, <2>6 DEF Granting!ConsumeGrant
<1>14. QED
  BY <1>6, <1>7, <1>8, <1>9, <1>10, <1>11, <1>12, <1>13 DEF Granting!Next

LEMMA PresentAlways == SpecAll => []PresentOK
<1>1. InitAll => PresentOK
  BY GovernanceBounds DEF InitAll, PresentOK, Granting!Init, Granting!Idle
<1>2. ASSUME GrantInv, PresentOK, [NextAll]_everything PROVE PresentOK'
  <2>1. CASE Granting!Next
    BY <1>2, <2>1, PresentStep
  <2>2. CASE UNCHANGED granting
    BY <1>2, <2>2 DEF PresentOK, granting, Granting!Issued
  <2>3. QED
    BY <1>2, <2>1, <2>2 DEF NextAll, everything, authorities
<1>3. QED
  BY <1>1, <1>2, GrantAlways, PTL DEF SpecAll

(* Whose action it is is known before it is bound.                         *)
Later == {"reading", "binding", "dispatching"}

ScopedOK ==
    /\ agents \subseteq Agents /\ keys \subseteq ApiKeys
    /\ submitted.binding # Null => submitted.scoped
    /\ \A c \in Callers : submitter[c].pc \in Later => submitted.scoped

(* One submission moves, and later only where the action was scoped.       *)
LEMMA ScopedMoves ==
    ASSUME BindingInv, ScopedOK, UNCHANGED <<agents, keys>>,
           NEW c \in Callers, NEW k, Submitting!Become(c, k),
           submitted.scoped => submitted'.scoped,
           submitted'.binding # Null => submitted'.scoped,
           k.pc \in Later => submitted'.scoped
    PROVE  ScopedOK'
<1>1. \A d \in Callers : submitter'[d] = IF d = c THEN k ELSE submitter[d]
  BY DEF Submitting!Become, BindingInv, BindingTypes
<1>2. \A d \in Callers : submitter'[d].pc \in Later => submitted'.scoped
  BY <1>1 DEF ScopedOK
<1>3. QED
  BY <1>2 DEF ScopedOK

LEMMA ScopedStep ==
    ASSUME BindingInv, ScopedOK, Submitting!Next
    PROVE  ScopedOK'
<1>1. Submitting!Idle.pc = "idle" /\ "idle" \notin Later
  BY DEF Submitting!Idle, Later
<1>2. /\ submitted \in Submission
      /\ \A c \in Callers : submitter[c] \in Submitter
  BY DEF BindingInv, BindingTypes
<1>3. ASSUME UNCHANGED <<submitted, submitter>>, agents' \subseteq Agents, keys' \subseteq ApiKeys
      PROVE  ScopedOK'
  BY <1>3 DEF ScopedOK
<1>4. ASSUME UNCHANGED <<agents, keys, submitted>>, NEW c \in Callers, Submitting!Return(c)
      PROVE  ScopedOK'
  BY <1>1, <1>4, ScopedMoves DEF ScopedOK, Submitting!Return
<1>5. ASSUME UNCHANGED <<agents, keys, submitted>>, NEW c \in Callers, NEW k,
             Submitting!Become(c, k), k.pc \in Later => submitter[c].pc \in Later
      PROVE  ScopedOK'
  BY <1>5, ScopedMoves DEF ScopedOK
<1>6. CASE \/ Submitting!CreatePolicyVersion \/ Submitting!SetAgentStatus
           \/ Submitting!RevokeApiKey \/ Submitting!SetEntitlement
  BY <1>3, <1>6 DEF ScopedOK, Submitting!CreatePolicyVersion, Submitting!SetAgentStatus,
                    Submitting!RevokeApiKey, Submitting!SetEntitlement
<1>7. ASSUME NEW c \in Callers, NEW k \in ApiKeys \union {Null}, NEW agent \in Agents \union {Null},
             NEW approved_ \in BOOLEAN, Submitting!ResolveActingAgent(c, k, agent, approved_)
      PROVE  ScopedOK'
  <2>1. PICK n : n.pc = "submitting" /\ Submitting!Become(c, n)
    BY <1>7 DEF Submitting!ResolveActingAgent, Submitting!Ask, Submitting!Idle
  <2>2. QED
    BY <1>5, <1>7, <2>1 DEF Submitting!ResolveActingAgent, Submitting!settings, Later
<1>8. ASSUME NEW c \in Callers, NEW m \in Submitting!Modes, Submitting!MayEnable(c, m)
      PROVE  ScopedOK'
  <2>1. PICK n : n.pc = "switching" /\ Submitting!Become(c, n)
    BY <1>8 DEF Submitting!MayEnable, Submitting!Ask, Submitting!Idle
  <2>2. QED
    BY <1>5, <1>8, <2>1 DEF Submitting!MayEnable, Submitting!settings, Later
<1>9. ASSUME NEW c \in Callers,
             \/ Submitting!ResolveExecutionMode(c) \/ Submitting!ReadPolicy(c)
             \/ Submitting!EnvironmentControl(c) \/ Submitting!RereadPolicy(c)
      PROVE  ScopedOK'
  <2>1. UNCHANGED <<agents, keys, submitted>>
    BY <1>9 DEF Submitting!ResolveExecutionMode, Submitting!ReadPolicy,
                Submitting!EnvironmentControl, Submitting!RereadPolicy, Submitting!settings
  <2>2. CASE Submitting!Return(c)
    BY <1>4, <2>1, <2>2
  <2>3. CASE ~Submitting!Return(c)
    <3>1. PICK n : /\ Submitting!Become(c, n)
                   /\ n.pc \in {"governing", "scoping", submitter[c].pc}
      <4>1. PICK k : k = submitter[c] /\ k \in Submitter
        BY <1>2
      <4>2. CASE Submitting!ResolveExecutionMode(c)
        <5>1. Submitting!Become(c, [k EXCEPT !.pc = "governing", !.mode = posture])
          BY <2>3, <4>1, <4>2 DEF Submitting!ResolveExecutionMode
        <5>2. [k EXCEPT !.pc = "governing", !.mode = posture].pc = "governing"
          BY <4>1 DEF Submitter
        <5>3. QED
          BY <5>1, <5>2
      <4>3. CASE Submitting!ReadPolicy(c)
        <5>1. Submitting!Become(c, [k EXCEPT !.pc = "scoping",
                                             !.policy = Submitting!CurrentPolicy])
          BY <2>3, <4>1, <4>3 DEF Submitting!ReadPolicy
        <5>2. [k EXCEPT !.pc = "scoping", !.policy = Submitting!CurrentPolicy].pc = "scoping"
          BY <4>1 DEF Submitter
        <5>3. QED
          BY <5>1, <5>2
      <4>4. CASE Submitting!EnvironmentControl(c)
        <5>1. Submitting!Become(c, [k EXCEPT !.bound.mode = posture])
          BY <4>1, <4>4 DEF Submitting!EnvironmentControl
        <5>2. [k EXCEPT !.bound.mode = posture].pc = k.pc
          BY <4>1 DEF Submitter
        <5>3. QED
          BY <4>1, <5>1, <5>2
      <4>5. CASE Submitting!RereadPolicy(c)
        <5>1. Submitting!Become(c, [k EXCEPT !.bound.policy = Submitting!CurrentPolicy])
          BY <4>1, <4>5 DEF Submitting!RereadPolicy
        <5>2. [k EXCEPT !.bound.policy = Submitting!CurrentPolicy].pc = k.pc
          BY <4>1 DEF Submitter
        <5>3. QED
          BY <4>1, <5>1, <5>2
      <4>6. QED
        BY <1>9, <4>2, <4>3, <4>4, <4>5
    <3>2. QED
      BY <1>5, <2>1, <3>1 DEF Later
  <2>4. QED
    BY <2>2, <2>3
<1>10. ASSUME NEW c \in Callers, Submitting!ScopeAction(c) PROVE ScopedOK'
  <2>1. submitted'.scoped
    BY <1>2, <1>10 DEF Submitting!ScopeAction, Submission
  <2>2. QED
    BY <1>10, <2>1, ScopedMoves DEF Submitting!ScopeAction, Submitting!settings
<1>11. ASSUME NEW c \in Callers, Submitting!BindCurrent(c) \/ Submitting!BindRequested(c)
       PROVE  ScopedOK'
  <2>1. submitter[c].pc \in Later /\ submitted.scoped
    BY <1>11 DEF ScopedOK, Submitting!BindCurrent, Submitting!BindRequested, Submitting!At,
                 Later
  <2>2. PICK b : Submitting!BindActionControl(b)
    BY <1>11 DEF Submitting!BindCurrent, Submitting!BindRequested
  <2>3. submitted'.scoped
    BY <1>2, <2>1, <2>2 DEF Submitting!BindActionControl, Submission
  <2>4. PICK n : Submitting!Become(c, n)
    BY <1>11 DEF Submitting!BindCurrent, Submitting!BindRequested, Submitting!Return
  <2>5. QED
    BY <1>11, <2>3, <2>4, ScopedMoves
       DEF Submitting!BindCurrent, Submitting!BindRequested, Submitting!settings
<1>12. ASSUME NEW c \in Callers, Submitting!Dispatch(c) PROVE ScopedOK'
  <2>1. submitted'.scoped = submitted.scoped /\ submitted'.binding = submitted.binding
    BY <1>2, <1>12 DEF Submitting!Dispatch, Submission
  <2>2. QED
    BY <1>1, <1>12, <2>1, ScopedMoves
       DEF Submitting!Dispatch, Submitting!Return, Submitting!settings, ScopedOK
<1>13. ASSUME NEW c \in Callers, Submitting!Abandon(c) \/ Submitting!SetEnvironmentMode(c)
       PROVE  ScopedOK'
  BY <1>4, <1>13 DEF Submitting!Abandon, Submitting!SetEnvironmentMode, Submitting!settings
<1>14. QED
  BY <1>6, <1>7, <1>8, <1>9, <1>10, <1>11, <1>12, <1>13 DEF Submitting!Next

LEMMA ScopedAlways == SpecAll => []ScopedOK
<1>1. InitAll => ScopedOK
  BY DEF InitAll, ScopedOK, Submitting!Init, Submitting!Idle, Later
<1>2. ASSUME BindingInv, ScopedOK, [NextAll]_everything PROVE ScopedOK'
  <2>1. CASE Submitting!Next
    BY <1>2, <2>1, ScopedStep
  <2>2. CASE UNCHANGED submitting
    BY <1>2, <2>2 DEF ScopedOK, submitting
  <2>3. QED
    BY <1>2, <2>1, <2>2 DEF NextAll, everything, authorities
<1>3. QED
  BY <1>1, <1>2, BindingAlways, PTL DEF SpecAll

-----------------------------------------------------------------------------
(* Continuation leases.                                                    *)
Numbers == 1..MaxResolutions
Resolution == [allowed : BOOLEAN, evidence : Nat]
Lease == [resolution : Numbers, sequence : Numbers, evidence : Nat, expires : Nat,
          consumed : BOOLEAN, latest : Nat \union {Null}]
Client == [pc : {"idle", "authorised", "read"}, lease : Leases \union {Null},
           resolution : Numbers \union {Null}, sequence : Numbers \union {Null},
           evidence : Nat \union {Null}]

LeasingTypes ==
    /\ evidence \in Nat /\ drawn \in 0..MaxResolutions
    /\ saved \in [Numbers -> Resolution \union {Null}]
    /\ reconciling \in Resolution \union {Null}
    /\ lease \in [Leases -> Lease \union {Null}]
    /\ client \in [Callers -> Client]

(* What is saved was drawn, and the number being resolved is not yet saved. *)
DrawnOK ==
    /\ \A n \in Numbers : saved[n] # Null => n <= drawn
    /\ reconciling # Null => drawn \in Numbers /\ saved[drawn] = Null

(* The receipt k carries is of a saved resolution, and of no earlier one    *)
(* than the resolution that was authorised.                                *)
Receipt(k) ==
    /\ k.resolution \in Numbers /\ k.sequence \in Numbers /\ k.resolution <= k.sequence
    /\ saved[k.resolution] # Null /\ saved[k.sequence] # Null
    /\ k.evidence = saved[k.sequence].evidence

ClientOK(k) ==
    /\ k.pc = "authorised" => /\ k.lease \in Leases /\ k.resolution \in Numbers
                              /\ saved[k.resolution] # Null
    /\ k.pc = "read" => k.lease \in Leases /\ Receipt(k)

LeaseOK(r) ==
    r # Null => Receipt(r) /\ (r.consumed => r.latest = r.sequence)

LeasingInv ==
    /\ LeasingTypes /\ DrawnOK
    /\ \A l \in Leases : LeaseOK(lease[l])
    /\ \A c \in Callers : ClientOK(client[c])

LEMMA LeasingGives == LeasingInv /\ clock \in Nat => Leasing!TypeOK
<1>. SUFFICES ASSUME LeasingInv, clock \in Nat PROVE Leasing!TypeOK
  OBVIOUS
<1>1. DOMAIN saved = Numbers
  BY DEF LeasingInv, LeasingTypes
<1>2. {clock, evidence, drawn} \subseteq Nat
  BY DEF LeasingInv, LeasingTypes
<1>3. \A n \in Leasing!Saved : saved[n] \in [allowed : BOOLEAN, evidence : Nat]
  BY <1>1 DEF LeasingInv, LeasingTypes, Leasing!Saved, Resolution
<1>4. \A l \in Leases : lease[l] # Null =>
          /\ {lease[l].resolution, lease[l].sequence} \subseteq Leasing!Saved
          /\ lease[l].evidence = saved[lease[l].sequence].evidence
  BY <1>1 DEF LeasingInv, LeaseOK, Receipt, Leasing!Saved
<1>5. QED
  BY <1>2, <1>3, <1>4 DEF Leasing!TypeOK

LEMMA LeasingInit == InitAll => LeasingInv
<1>. SUFFICES ASSUME InitAll PROVE LeasingInv
  OBVIOUS
<1>1. Leasing!Init /\ MaxResolutions \in Nat
  BY GovernanceBounds DEF InitAll
<1>2. Leasing!Idle \in Client /\ Leasing!Idle.pc = "idle"
  BY DEF Leasing!Idle, Client
<1>3. LeasingTypes
  BY <1>1, <1>2 DEF LeasingTypes, Leasing!Init, Numbers
<1>4. DrawnOK
  BY <1>1 DEF DrawnOK, Leasing!Init, Numbers
<1>5. QED
  BY <1>1, <1>2, <1>3, <1>4 DEF LeasingInv, LeaseOK, ClientOK, Leasing!Init

(* The latest of the resolutions there are.                                *)
LEMMA LatestIs ==
    ASSUME LeasingInv
    PROVE  /\ Leasing!Latest # 0 => Leasing!Latest \in Numbers /\ saved[Leasing!Latest] # Null
           /\ \A n \in Numbers : saved[n] # Null => n <= Leasing!Latest
<1>1. DOMAIN saved = Numbers /\ MaxResolutions \in Nat
  BY GovernanceBounds DEF LeasingInv, LeasingTypes
<1>2. Leasing!Saved = {n \in Numbers : saved[n] # Null}
  BY <1>1 DEF Leasing!Saved
<1>3. CASE Leasing!Saved = {}
  BY <1>2, <1>3 DEF Leasing!Latest
<1>4. CASE Leasing!Saved # {}
  <2>1. PICK S : S = {MaxResolutions - n : n \in Leasing!Saved}
    OBVIOUS
  <2>2. S \in SUBSET Nat /\ S # {}
    BY <1>1, <1>2, <1>4, <2>1 DEF Numbers
  <2>3. PICK u \in S : \A v \in S : u <= v
    BY <2>2, NatLeast
  <2>4. PICK n \in Leasing!Saved : u = MaxResolutions - n
    BY <2>1, <2>3
  <2>5. \A m \in Leasing!Saved : m <= n
    <3>1. SUFFICES ASSUME NEW m \in Leasing!Saved PROVE m <= n
      OBVIOUS
    <3>2. MaxResolutions - n <= MaxResolutions - m
      BY <2>1, <2>3, <2>4
    <3>3. n \in Nat /\ m \in Nat
      BY <1>1, <1>2 DEF Numbers
    <3>4. QED
      BY <1>1, <3>2, <3>3
  <2>6. Leasing!Latest = CHOOSE x \in Leasing!Saved : \A m \in Leasing!Saved : m <= x
    BY <1>4 DEF Leasing!Latest
  <2>7. Leasing!Latest \in Leasing!Saved /\ \A m \in Leasing!Saved : m <= Leasing!Latest
    BY <2>5, <2>6
  <2>8. QED
    BY <1>2, <2>7
<1>5. QED
  BY <1>3, <1>4

(* Resolutions are only added: what was said of one stays true.            *)
LEMMA LeasingStays ==
    ASSUME LeasingInv, LeasingTypes', DrawnOK', UNCHANGED lease,
           \A n \in Numbers : saved[n] # Null => saved'[n] = saved[n],
           NEW f, client' = f,
           \A c \in Callers : f[c] = client[c] \/ ClientOK(f[c])'
    PROVE  LeasingInv'
<1>1. ASSUME NEW k, Receipt(k) PROVE Receipt(k)'
  BY <1>1 DEF Receipt
<1>2. \A l \in Leases : LeaseOK(lease[l])'
  BY <1>1 DEF LeasingInv, LeaseOK
<1>3. ASSUME NEW k, ClientOK(k) PROVE ClientOK(k)'
  BY <1>1, <1>3 DEF ClientOK
<1>4. ASSUME NEW c \in Callers PROVE ClientOK(client[c])'
  <2>1. ClientOK(client[c])
    BY DEF LeasingInv
  <2>2. ClientOK(f[c])'
    BY <1>3, <2>1
  <2>3. QED
    BY <2>2
<1>5. QED
  BY <1>2, <1>4 DEF LeasingInv

(* One client moves.                                                       *)
LEMMA ClientMoves ==
    ASSUME LeasingInv, NEW c \in Callers, NEW k \in Client, Leasing!Become(c, k),
           ClientOK(k), UNCHANGED <<evidence, drawn, saved, reconciling, lease>>
    PROVE  LeasingInv'
<1>1. client' = [client EXCEPT ![c] = k]
  BY DEF Leasing!Become
<1>2. LeasingTypes'
  BY <1>1 DEF LeasingInv, LeasingTypes
<1>3. DrawnOK'
  BY DEF LeasingInv, DrawnOK
<1>4. ClientOK(k)'
  BY DEF ClientOK, Receipt
<1>5. PICK f : client' = f /\ f = [client EXCEPT ![c] = k]
  BY <1>1
<1>6. \A d \in Callers : f[d] = client[d] \/ f[d] = k
  BY <1>5 DEF LeasingInv, LeasingTypes
<1>7. \A d \in Callers : f[d] = client[d] \/ ClientOK(f[d])'
  BY <1>4, <1>6
<1>8. QED
  BY <1>2, <1>3, <1>5, <1>7, LeasingStays

(* One lease is written.                                                   *)
LEMMA LeaseWritten ==
    ASSUME LeasingInv, NEW l \in Leases, NEW r \in Lease, LeaseOK(r),
           lease' = [lease EXCEPT ![l] = r], UNCHANGED <<evidence, drawn, saved, reconciling>>,
           client' \in [Callers -> Client],
           \A c \in Callers : client'[c] = client[c] \/ client'[c].pc = "idle"
    PROVE  LeasingInv'
<1>1. LeasingTypes'
  BY DEF LeasingInv, LeasingTypes
<1>2. DrawnOK'
  BY DEF LeasingInv, DrawnOK
<1>3. \A x \in Leases : lease'[x] = lease[x] \/ lease'[x] = r
  BY DEF LeasingInv, LeasingTypes
<1>4. ASSUME NEW x, LeaseOK(x) PROVE LeaseOK(x)'
  BY <1>4 DEF LeaseOK, Receipt
<1>5. \A x \in Leases : LeaseOK(lease[x])'
  BY <1>3, <1>4 DEF LeasingInv
<1>6. \A c \in Callers : ClientOK(client[c])'
  BY DEF LeasingInv, ClientOK, Receipt
<1>7. QED
  BY <1>1, <1>2, <1>5, <1>6 DEF LeasingInv, ClientOK

LEMMA LeasingStep == LeasingInv /\ clock \in Nat /\ Leasing!Next => LeasingInv'
<1>. SUFFICES ASSUME LeasingInv, clock \in Nat, Leasing!Next PROVE LeasingInv'
  OBVIOUS
<1>0. MaxResolutions \in Nat /\ Term \in Nat
  BY GovernanceBounds
<1>1. CASE Leasing!AppendEvidence
  <2>1. LeasingTypes' /\ DrawnOK'
    BY <1>1 DEF Leasing!AppendEvidence, LeasingInv, LeasingTypes, DrawnOK
  <2>2. QED
    BY <1>1, <2>1, LeasingStays DEF Leasing!AppendEvidence
<1>2. CASE Leasing!NextResolutionSequence
  <2>1. /\ reconciling = Null /\ drawn < MaxResolutions /\ drawn' = drawn + 1
        /\ reconciling' \in Resolution /\ UNCHANGED <<evidence, saved, lease, client>>
    BY <1>2 DEF Leasing!NextResolutionSequence, LeasingInv, LeasingTypes, Resolution
  <2>2. LeasingTypes'
    BY <1>0, <2>1 DEF LeasingInv, LeasingTypes
  <2>3. drawn + 1 \in Numbers /\ saved[drawn + 1] = Null
    BY <1>0, <2>1 DEF LeasingInv, LeasingTypes, DrawnOK, Numbers
  <2>4. \A n \in Numbers : saved[n] # Null => n <= drawn + 1
    BY <1>0 DEF LeasingInv, LeasingTypes, DrawnOK, Numbers
  <2>5. DrawnOK'
    BY <2>1, <2>3, <2>4 DEF DrawnOK
  <2>6. QED
    BY <2>1, <2>2, <2>5, LeasingStays
<1>3. CASE Leasing!SaveResolution
  <2>1. /\ reconciling # Null /\ saved' = [saved EXCEPT ![drawn] = reconciling]
        /\ reconciling' = Null /\ UNCHANGED <<evidence, drawn, lease, client>>
    BY <1>3 DEF Leasing!SaveResolution
  <2>2. drawn \in Numbers /\ saved[drawn] = Null
    BY <2>1 DEF LeasingInv, DrawnOK
  <2>3. LeasingTypes'
    BY <2>1 DEF LeasingInv, LeasingTypes
  <2>4. \A n \in Numbers : saved'[n] = IF n = drawn THEN reconciling ELSE saved[n]
    BY <2>1 DEF LeasingInv, LeasingTypes
  <2>5. DrawnOK'
    BY <1>0, <2>1, <2>2, <2>4 DEF LeasingInv, DrawnOK, Numbers
  <2>6. QED
    BY <2>1, <2>2, <2>3, <2>4, <2>5, LeasingStays
<1>4. CASE Leasing!Tick
  <2>1. UNCHANGED <<evidence, drawn, saved, reconciling, lease, client>>
    BY <1>4 DEF Leasing!Tick
  <2>2. LeasingTypes' /\ DrawnOK'
    BY <2>1 DEF LeasingInv, LeasingTypes, DrawnOK
  <2>3. QED
    BY <2>1, <2>2, LeasingStays
<1>5. ASSUME NEW c \in Callers, Leasing!Authorize(c) PROVE LeasingInv'
  <2>1. PICK l \in Leases : Leasing!Become(c, [Leasing!Idle EXCEPT
           !.pc = "authorised", !.lease = l, !.resolution = Leasing!Latest])
    BY <1>5 DEF Leasing!Authorize
  <2>2. Leasing!Latest \in Numbers /\ saved[Leasing!Latest] # Null
    BY <1>5, LatestIs DEF Leasing!Authorize
  <2>3. PICK n \in Numbers : n = Leasing!Latest /\ saved[n] # Null
    BY <2>2
  <2>4. PICK i : i = Leasing!Idle /\ i \in Client
    <3>1. Leasing!Idle \in Client
      BY DEF Leasing!Idle, Client
    <3>2. QED
      BY <3>1
  <2>5. PICK k : /\ k = [i EXCEPT !.pc = "authorised", !.lease = l, !.resolution = n]
                 /\ Leasing!Become(c, k)
    BY <2>1, <2>3, <2>4
  <2>6. k \in Client /\ ClientOK(k)
    <3>1. k \in Client /\ k.pc = "authorised" /\ k.lease = l /\ k.resolution = n
      BY <2>4, <2>5 DEF Client
    <3>2. QED
      BY <2>3, <3>1 DEF ClientOK
  <2>7. QED
    BY <1>5, <2>5, <2>6, ClientMoves DEF Leasing!Authorize
<1>6. ASSUME NEW c \in Callers, Leasing!ReadReceipt(c) PROVE LeasingInv'
  <2>1. PICK n : n = Leasing!Latest
    OBVIOUS
  <2>2. /\ client[c] \in Client /\ client[c].pc = "authorised"
        /\ client[c].lease \in Leases /\ client[c].resolution \in Numbers
        /\ saved[client[c].resolution] # Null
    BY <1>6 DEF LeasingInv, LeasingTypes, ClientOK, Leasing!ReadReceipt, Leasing!At
  <2>3. client[c].resolution <= n
    BY <2>1, <2>2, LatestIs
  <2>4. Leasing!Latest # 0
    BY <1>0, <2>1, <2>2, <2>3 DEF Numbers
  <2>5. n \in Numbers /\ saved[n] # Null
    BY <2>1, <2>4, LatestIs
  <2>6. PICK k : k = [client[c] EXCEPT !.pc = "read", !.sequence = n,
                                       !.evidence = saved[n].evidence]
    OBVIOUS
  <2>7. saved[n].evidence \in Nat
    BY <2>5 DEF LeasingInv, LeasingTypes, Resolution
  <2>8. /\ k \in Client /\ k.pc = "read" /\ k.lease = client[c].lease
        /\ k.resolution = client[c].resolution /\ k.sequence = n
        /\ k.evidence = saved[n].evidence
    BY <2>2, <2>5, <2>6, <2>7 DEF Client
  <2>9. ClientOK(k)
    BY <2>2, <2>3, <2>5, <2>8 DEF ClientOK, Receipt
  <2>10. Leasing!Become(c, k)
    BY <1>6, <2>1, <2>6 DEF Leasing!ReadReceipt
  <2>11. QED
    BY <1>6, <2>8, <2>9, <2>10, ClientMoves DEF Leasing!ReadReceipt
<1>7. ASSUME NEW c \in Callers, Leasing!IssueLease(c) PROVE LeasingInv'
  <2>1. PICK k : k = client[c]
    OBVIOUS
  <2>2. k \in Client /\ k.lease \in Leases /\ Receipt(k)
    BY <1>7, <2>1 DEF LeasingInv, LeasingTypes, ClientOK, Leasing!IssueLease, Leasing!At
  <2>3. Leasing!Idle \in Client /\ Leasing!Idle.pc = "idle" /\ ClientOK(Leasing!Idle)
    BY DEF Leasing!Idle, Client, ClientOK
  <2>4. /\ Leasing!Become(c, Leasing!Idle) /\ UNCHANGED <<evidence, drawn, saved, reconciling>>
    BY <1>7 DEF Leasing!IssueLease, Leasing!Return
  <2>5. /\ client' \in [Callers -> Client]
        /\ \A d \in Callers : client'[d] = client[d] \/ client'[d].pc = "idle"
    BY <2>3, <2>4 DEF LeasingInv, LeasingTypes, Leasing!Become
  <2>6. PICK r : r = [resolution |-> k.resolution, sequence |-> k.sequence,
                      evidence |-> k.evidence, expires |-> clock + Term,
                      consumed |-> FALSE, latest |-> Null]
    OBVIOUS
  <2>7. lease' = lease \/ lease' = [lease EXCEPT ![k.lease] = r]
    BY <1>7, <2>1, <2>6 DEF Leasing!IssueLease
  <2>8. k.evidence \in Nat
    BY <2>2 DEF Receipt, LeasingInv, LeasingTypes, Resolution
  <2>9. r \in Lease /\ LeaseOK(r)
    <3>1. clock + Term \in Nat
      BY <1>0
    <3>2. r \in Lease
      BY <2>2, <2>6, <2>8, <3>1 DEF Lease, Receipt
    <3>3. Receipt(r) /\ ~r.consumed
      BY <2>2, <2>6 DEF Receipt
    <3>4. QED
      BY <3>2, <3>3 DEF LeaseOK
  <2>10. CASE lease' = lease
    BY <2>3, <2>4, <2>10, ClientMoves
  <2>11. CASE lease' = [lease EXCEPT ![k.lease] = r]
    BY <2>2, <2>4, <2>5, <2>9, <2>11, LeaseWritten
  <2>12. QED
    BY <2>7, <2>10, <2>11
<1>8. ASSUME NEW l \in Leases, Leasing!ConsumeLease(l) PROVE LeasingInv'
  <2>1. PICK q : q = lease[l]
    OBVIOUS
  <2>2. q \in Lease /\ Receipt(q) /\ drawn = q.sequence
    BY <1>8, <2>1 DEF LeasingInv, LeasingTypes, LeaseOK, Leasing!ConsumeLease, Leasing!Current
  <2>3. PICK r : r = [q EXCEPT !.consumed = TRUE, !.latest = drawn]
    OBVIOUS
  <2>4. lease' = [lease EXCEPT ![l] = r]
    BY <1>8, <2>1, <2>2, <2>3 DEF Leasing!ConsumeLease, LeasingInv, LeasingTypes, Lease
  <2>5. drawn \in Nat
    BY <1>0 DEF LeasingInv, LeasingTypes
  <2>6. /\ r \in Lease /\ r.resolution = q.resolution /\ r.sequence = q.sequence
        /\ r.evidence = q.evidence /\ r.latest = drawn
    BY <2>2, <2>3, <2>5 DEF Lease
  <2>7. LeaseOK(r)
    BY <2>2, <2>6 DEF LeaseOK, Receipt
  <2>8. UNCHANGED <<evidence, drawn, saved, reconciling, client>>
    BY <1>8 DEF Leasing!ConsumeLease
  <2>9. client' \in [Callers -> Client] /\ \A c \in Callers : client'[c] = client[c]
    BY <2>8 DEF LeasingInv, LeasingTypes
  <2>10. QED
    BY <2>4, <2>6, <2>7, <2>8, <2>9, LeaseWritten
<1>9. QED
  BY <1>1, <1>2, <1>3, <1>4, <1>5, <1>6, <1>7, <1>8 DEF Leasing!Next

LEMMA LeasingAlways == SpecAll => []LeasingInv
<1>1. ASSUME Inv, LeasingInv, [NextAll]_everything PROVE LeasingInv'
  <2>1. CASE Leasing!Next
    BY <1>1, <2>1, LeasingStep DEF Inv, TypeOK
  <2>2. CASE UNCHANGED leasing
    <3>1. UNCHANGED <<evidence, drawn, saved, reconciling, lease, client>>
      BY <2>2 DEF leasing
    <3>2. QED
      BY <1>1, <3>1
         DEF LeasingInv, LeasingTypes, DrawnOK, LeaseOK, ClientOK, Receipt
  <2>3. QED
    BY <1>1, <2>1, <2>2 DEF NextAll, everything, controls
<1>2. QED
  BY <1>1, LeasingInit, AdmittedAlways, PTL DEF SpecAll

(* What the lease says of a receipt is kept: a consumed lease carries the  *)
(* number of the resolution that was current then, and was authorised for  *)
(* that or an earlier one, whose policy let the client continue.           *)
ReceiptIsCurrent ==
    \A l \in Leases : lease[l] # Null /\ lease[l].consumed =>
        lease[l].sequence = lease[l].latest /\ lease[l].resolution <= lease[l].latest

THEOREM ReceiptTheorem == SpecAll => []ReceiptIsCurrent
<1>1. LeasingInv => ReceiptIsCurrent
  BY DEF LeasingInv, LeaseOK, Receipt, ReceiptIsCurrent
<1>2. QED
  BY <1>1, LeasingAlways, PTL

-----------------------------------------------------------------------------
(* What is carried of the tables the parts keep.                           *)
EnvironmentInv ==
    /\ busy \in Parts /\ Inv /\ CountsOK
    /\ KeyInv /\ EvidenceInv /\ ReportInv /\ LeasingInv /\ RunInv /\ AttachedOK
    /\ SignInv /\ PasswordsFollowed /\ ConnectionInv /\ GrantInv /\ PresentOK
    /\ BindingInv /\ ScopedOK

LEMMA BusyAlways == SpecAll => [](busy \in Parts)
<1>1. InitAll => busy \in Parts
  BY DEF InitAll
<1>2. busy \in Parts /\ [NextAll]_everything => (busy \in Parts)'
  BY DEF NextAll, everything
<1>3. QED
  BY <1>1, <1>2, PTL DEF SpecAll

LEMMA EnvironmentAlways == SpecAll => []EnvironmentInv
<1>1. ReportsFollowed => ReportInv
  BY DEF ReportsFollowed
<1>2. QED
  BY <1>1, BusyAlways, AdmittedAlways, CountsAlways, KeyAlways, EvidenceAlways, ReportAlways,
     LeasingAlways, RunAlways, AttachedAlways, SignAlways, PasswordAlways, ConnectionAlways,
     GrantAlways, PresentAlways, BindingAlways, ScopedAlways, PTL DEF EnvironmentInv

LEMMA SameLives == ASSUME NEW S PROVE Truth!Cardinality(S) = Cardinality(S)
  BY DEF Truth!Cardinality, Cardinality

LEMMA EnvironmentGives == EnvironmentInv => TypesOK
<1>. SUFFICES ASSUME EnvironmentInv PROVE TypesOK
  OBVIOUS
<1>0. clock \in Nat /\ crashes \in Nat /\ commands \in Nat /\ pushes \in Nat /\ runs \in Nat
  BY DEF EnvironmentInv, CountsOK, Inv, TypeOK
<1>1. TypeOK
  BY DEF EnvironmentInv, Inv
<1>2. Commands!TypeOK
  BY <1>0 DEF EnvironmentInv, KeyInv, CommandTypes, Commands!TypeOK, Entries
<1>3. Truth!TypeOK
  <2>1. EvidenceTypes /\ Attested /\ OneLive /\ \A i \in Instances : CountedIn(i)
    BY DEF EnvironmentInv, EvidenceInv
  <2>2. Cardinality(Truth!Live) <= 1
    <3>1. CASE Truth!Live = {}
      BY <3>1, FS_EmptySet
    <3>2. CASE Truth!Live # {}
      <4>1. PICK i : Truth!Live = {i}
        BY <2>1, <3>2 DEF OneLive, Truth!Live
      <4>2. QED
        BY <4>1, FS_Singleton
    <3>3. QED
      BY <3>1, <3>2
  <2>3. Truth!Cardinality(Truth!Live) <= 1
    BY <2>2, SameLives
  <2>4. ASSUME NEW i \in Instances
        PROVE  /\ instance[i].verdict \in Truth!Verdicts
               /\ instance[i].lifecycle \in {"unborn", "open", "settled", "timed_out"}
               /\ instance[i].continuation = Truth!ContinuationFor(instance[i].verdict)
               /\ instance[i].sequence = Len(evaluated[i])
               /\ evaluated[i] # <<>> =>
                     instance[i].verdict = evaluated[i][Len(evaluated[i])].verdict
    <3>1. instance[i] \in Instanced /\ evaluated[i] \in Seq(Evaluations) /\ CountedIn(i)
      BY <2>1 DEF EvidenceTypes
    <3>2. evaluated[i] # <<>> => Len(evaluated[i]) # 0
      BY <3>1, EmptySeq
    <3>3. QED
      BY <3>1, <3>2 DEF Instanced, CountedIn, Sayings, Truth!Verdicts
  <2>5. \A r \in receipts :
           r.sequence > 0 => r.verdict = evaluated[r.instance][r.sequence].verdict
    BY <2>1 DEF Attested
  <2>6. /\ {clock, work, crashes} \subseteq Nat /\ facts \subseteq Truth!FactType
        /\ slot \in [Providers -> Callers \union {Null}]
        /\ latch \in [Instances -> Callers \union {Null}]
    BY <1>0, <2>1 DEF EvidenceTypes
  <2>7. QED
    BY <2>3, <2>4, <2>5, <2>6 DEF Truth!TypeOK
<1>4. Reports!TypeOK
  BY <1>0 DEF EnvironmentInv, CountsOK, ReportInv, TablesOK, Observations, Questions,
              Reports!TypeOK
<1>5. Leasing!TypeOK
  BY <1>0, LeasingGives DEF EnvironmentInv
<1>6. Departures!TypeOK
  BY <1>0 DEF EnvironmentInv, RunInv, RunTypes, AttachedOK, Departures!TypeOK
<1>7. Google!TypeOK
  <2>1. AccountTypes /\ \A c \in Callers : call[c] \in Calling
    BY DEF EnvironmentInv, SignInv, CallOK
  <2>2. ASSUME NEW s \in sessions PROVE s.user \in Google!Users /\ s.subject \in Subjects
    <3>1. s.subject \in Subjects /\ Held(s.subject, s.user, s.gone)
      BY DEF EnvironmentInv, SignInv
    <3>2. PICK i \in DOMAIN bindings : bindings[i].user = s.user
      BY <3>1 DEF Held
    <3>3. bindings[i] \in Rows
      BY <2>1, <3>2 DEF AccountTypes
    <3>4. QED
      BY <3>1, <3>2, <3>3 DEF Rows
  <2>3. ASSUME NEW c \in Callers
        PROVE  /\ call[c].pc \in {"idle", "exchanging", "reading", "subject", "email", "resolved",
                                  "bound", "naming"}
               /\ {call[c].linking, call[c].bySubject, call[c].byEmail} \subseteq
                     Google!Users \union {Null}
    BY <2>1 DEF Calling, SomeUser
  <2>4. QED
    BY <2>1, <2>2, <2>3
       DEF AccountTypes, Mailboxes, Attempts, Handoffs, Rows, SomeUser, Google!TypeOK
<1>8. busy = "passwords" => Resets!TypeOK
  <2>1. SUFFICES ASSUME busy = "passwords" PROVE Resets!TypeOK
    OBVIOUS
  <2>2. PasswordInv
    BY <2>1 DEF EnvironmentInv, PasswordsFollowed
  <2>3. QED
    BY <2>2 DEF PasswordInv, PasswordTypes, Links, Enter, Resets!TypeOK
<1>9. Provisioning!TypeOK
  <2>1. ConnectionTypes
    BY DEF EnvironmentInv, ConnectionInv
  <2>2. ASSUME NEW i \in DOMAIN preflights PROVE preflights[i].ref \in Refs
    <3>1. preflights[i] \in Preflights
      BY <2>1 DEF ConnectionTypes
    <3>2. QED
      BY <3>1 DEF Preflights
  <2>3. \A c \in Callers : request[c].ref \in Refs
    BY <2>1 DEF ConnectionTypes, Requesting
  <2>4. QED
    BY <2>1, <2>2, <2>3 DEF ConnectionTypes, Refs, Provisioning!TypeOK
<1>10. Granting!TypeOK
  <2>1. GrantTypes /\ PresentOK /\ \A i \in Granting!Issued : GrantOK(grant[i])
    BY DEF EnvironmentInv, GrantInv
  <2>2. Len(verdicts) \in Nat /\ Len(verdicts) <= MaxEvaluations /\ MaxEvaluations \in Nat
    BY <2>1, GovernanceBounds, LenProperties DEF GrantTypes, PresentOK
  <2>3. ASSUME NEW i \in Granting!Issued
        PROVE  grant[i] \in [agent : Agents \union {Null}, permits : Permitted,
                             exception : Approvals \union {Null}, sequence : 0..MaxEvaluations,
                             verdict : Granting!Verdicts, ended : BOOLEAN,
                             consumed : BOOLEAN, uses : Nat]
    <3>1. grant[i] \in Signed /\ grant[i].sequence <= Len(verdicts)
      BY <2>1 DEF GrantTypes, GrantOK, SaysTrue, Granting!Issued
    <3>2. grant[i].sequence \in 0..MaxEvaluations
      BY <2>2, <3>1 DEF Signed
    <3>3. QED
      BY <3>1, <3>2 DEF Signed, Granting!Verdicts
  <2>4. QED
    BY <2>1, <2>3 DEF GrantTypes, PresentOK, Granting!TypeOK
<1>11. Submitting!TypeOK
  <2>1. BindingTypes /\ ScopedOK
    BY DEF EnvironmentInv, BindingInv
  <2>2. submitted.binding # Null => submitted.scoped /\ submitted.binding.mode \in Submitting!Modes
    BY <2>1 DEF BindingTypes, ScopedOK, Submission, Bound
  <2>3. QED
    BY <2>1, <2>2 DEF BindingTypes, ScopedOK, Submission, Submitter, Submitting!TypeOK
<1>12. busy \in Parts
  BY DEF EnvironmentInv
<1>13. QED
  BY <1>1, <1>2, <1>3, <1>4, <1>5, <1>6, <1>7, <1>8, <1>9, <1>10, <1>11, <1>12
     DEF TypesOK, Parts

(* The tables keep their types: one outcome is live at a time; a lease is   *)
(* of a saved resolution; an action attached to a run exists; a session is  *)
(* of a user there is; a grant is of an evaluation there was; and an action *)
(* is bound only once it is known whose it is.                             *)
THEOREM EnvironmentTypes == SpecAll => []TypesOK
<1>1. QED
  BY EnvironmentGives, EnvironmentAlways, PTL
=============================================================================
