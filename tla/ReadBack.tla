------------------------------- MODULE ReadBack -------------------------------
(***************************************************************************)
(* What the Okta and the Stripe adapters have in common: evidence whose    *)
(* payload is compared by its content, and a read of the provider's object *)
(* that takes several requests.                                            *)
(***************************************************************************)
EXTENDS EvidenceLedger

(* "says" is the material part of the payload, "held" what was true at the *)
(* provider while it was read (no code reads it).                          *)
Item(type, says, facets, held) ==
    [type |-> type, says |-> says, facets |-> facets, held |-> held, supersedes |-> 0]

Mute == [category |-> "none"]

(* The facets of evidence that establishes nothing.                        *)
Answered  == Facets("provider_response", "corroborative", "indeterminate", "indeterminate")
Unsettled == Facets("transport_error", "transport_only", "indeterminate", "indeterminate")

(* An answer to the mutation, a failed exchange, the runtime's own proof   *)
(* that nothing was sent, a refused or an unreadable observation.          *)
ResponseItem  == Item("response", Mute, Answered, {})
TransportItem == Item("transport", Mute, Unsettled, {})
NotSentItem   == Item("not_sent", Mute, Unsettled, {})
FailureItem(category) == Item("failure", [category |-> category], Answered, {})

(* append: a repeated provider_event_id, the hash of what is said, leaves  *)
(* the ledger as it is.  A failure that names a time to look again says    *)
(* something new each time.                                                *)
Repeats(ledger, item) ==
    /\ item.type \in {"snapshot", "failure", "not_sent"}
    /\ item.says # [category |-> "rate_limited"]
    /\ \E i \in DOMAIN ledger : ledger[i].type = item.type /\ ledger[i].says = item.says

WithItem(ledger, item) == IF Repeats(ledger, item) THEN ledger ELSE Append(ledger, item)

(* observe: a snapshot or a failure that differs from the last snapshot    *)
(* supersedes it.                                                          *)
SupersedingLast(prior, item) ==
    LET last == Latest({i \in DOMAIN prior : prior[i].type = "snapshot"}) IN
    IF last # 0 /\ (item.type # "snapshot" \/ prior[last].says # item.says)
    THEN [item EXCEPT !.supersedes = last] ELSE item

(* provenNotSent: the runtime's record, whichever attempt it is about.     *)
NotSentAmong(prior) == \E i \in DOMAIN prior : prior[i].type = "not_sent"

(* The records the safety floors are given.                                *)
ItemsAsEvidence(ledger) ==
    {[ref |-> i, kind |-> ledger[i].facets.kind, strength |-> ledger[i].facets.strength,
      disposition |-> ledger[i].facets.disposition,
      attribution |-> ledger[i].facets.attribution,
      supersedes |-> ledger[i].supersedes] : i \in DOMAIN ledger}

Fresh(ledger) == {i \in DOMAIN ledger : \A j \in DOMAIN ledger : ledger[j].supersedes # i}

TransportOnly(item) == item.facets.strength = "transport_only"

(* What both specs say of a ledger whose last current record is no         *)
(* readable snapshot: a rate limit is waited for, another failure is never *)
(* read past, nor is a newer exchange that failed.                         *)
LastFresh(ledger)    == Latest(Fresh(ledger))
LastSnapshot(ledger) == Latest({i \in Fresh(ledger) : ledger[i].type = "snapshot"})

Obscured(ledger) ==
    LET last == LastFresh(ledger) IN
    \/ LastSnapshot(ledger) = 0
    \/ ledger[last].type = "failure" \/ TransportOnly(ledger[last])

ObscuredAssessment(ledger) ==
    LET last     == LastFresh(ledger)
        readable == {i \in Fresh(ledger) : ~TransportOnly(ledger[i])} IN
    IF last # 0 /\ ledger[last].says = [category |-> "rate_limited"]
    THEN Assessment("pending", {last}, TRUE)
    ELSE Assessment("unprovable",
                    IF last # 0 /\ ledger[last].type = "failure" THEN {last}
                    ELSE IF LastSnapshot(ledger) # 0 THEN {}
                    ELSE {Latest(readable)} \ {0}, FALSE)
=============================================================================
