--------------------------- MODULE EvidenceLedger ---------------------------
(***************************************************************************)
(* The evidence ledger of one action as the runtime uses it: a sequence,   *)
(* append-only, whose entries name the fact a provider adapter reported.   *)
(* "version" tells apart two reports of the same fact that carry different *)
(* provider event ids; "supersedes" is a position in the ledger, 0 for     *)
(* none.                                                                   *)
(***************************************************************************)
EXTENDS SafetyFloors, Sequences

(* The GitHub adapter's snapshots: the goal matches or not, read before or *)
(* after the consistency window.                                           *)
Snapshots == {"present_early", "present_late", "absent_early", "absent_late"}

(* The reference adapter's reads.                                          *)
ReferenceReads == {"applied", "preexisting", "other", "none_found"}

(* A failed observation the GitHub adapter reports instead of throwing.    *)
ObservationFailures == {"rate_limited", "unreadable"}

Facts == Snapshots \union ReferenceReads \union ObservationFailures \union
         {"response",     \* the provider answered the mutation
          "answered",     \* the reference adapter's form of it
          "ambiguous",    \* the reference adapter's transport report
          "transport",    \* the exchange failed, or the runtime caught an error
          "not_sent",     \* the runtime's own proof that nothing was sent
          "undone"}       \* the provider confirmed a compensation

(* Facts whose records carry a provider_event_id that a later report of    *)
(* the same fact repeats; the others get a fresh id, or none.              *)
Stable == Snapshots \union ReferenceReads \union
          {"unreadable", "not_sent", "undone", "answered", "ambiguous"}

Entry == [fact : Facts, version : Nat, supersedes : Nat]

Report(fact, version, supersedes) ==
    [fact |-> fact, version |-> version, supersedes |-> supersedes]

(* append: a repeated provider_event_id leaves the ledger as it is.        *)
Appended(ledger, entry) ==
    IF /\ entry.fact \in Stable
       /\ \E i \in DOMAIN ledger : /\ ledger[i].fact = entry.fact
                                   /\ ledger[i].version = entry.version
    THEN ledger
    ELSE Append(ledger, entry)

(* What a record of each fact says in the vocabulary of the core.          *)
Facets(kind, strength, disposition, attribution) ==
    [kind |-> kind, strength |-> strength,
     disposition |-> disposition, attribution |-> attribution]

Profile(fact) ==
    CASE fact \in {"present_early", "present_late", "preexisting"} ->
           Facets("provider_read", "authoritative", "effect_present", "unattributed")
      [] fact = "absent_early" ->
           Facets("provider_read", "circumstantial", "indeterminate", "indeterminate")
      [] fact = "absent_late" ->
           Facets("absence_probe", "authoritative", "effect_absent", "indeterminate")
      [] fact = "none_found" ->
           Facets("absence_probe", "authoritative", "effect_absent", "attributed")
      [] fact = "applied" ->
           Facets("provider_read", "authoritative", "effect_present", "attributed")
      [] fact = "other" ->
           Facets("provider_read", "authoritative", "indeterminate", "unattributed")
      [] fact \in ObservationFailures \union {"response", "answered"} ->
           Facets("provider_response", "corroborative", "indeterminate", "indeterminate")
      [] fact \in {"transport", "not_sent"} ->
           Facets("transport_error", "transport_only", "indeterminate", "indeterminate")
      [] fact = "ambiguous" ->
           Facets("provider_response", "transport_only", "indeterminate", "indeterminate")
      [] fact = "undone" ->
           Facets("compensation_confirmation", "authoritative", "indeterminate", "attributed")

RecordAt(ledger, i) ==
    LET p == Profile(ledger[i].fact) IN
    [ref |-> i, kind |-> p.kind, strength |-> p.strength, disposition |-> p.disposition,
     attribution |-> p.attribution, supersedes |-> ledger[i].supersedes]

(* The records the safety floors are given.                                *)
Evidence(ledger) == {RecordAt(ledger, i) : i \in DOMAIN ledger}

(* The positions of records no other record supersedes.                    *)
Current(ledger) ==
    {i \in DOMAIN ledger : \A j \in DOMAIN ledger : ledger[j].supersedes # i}

(* The greatest of a set of positions, 0 when it is empty.                 *)
Latest(positions) ==
    LET greatest == {i \in positions : \A j \in positions : j <= i} IN
    IF greatest = {} THEN 0 ELSE CHOOSE i \in greatest : TRUE

-----------------------------------------------------------------------------
(* An EffectSpec's answer: a proposed state, the refs it cites and, for a  *)
(* provider-informed hold, a time to look again.                           *)
Assessment(state, refs, recheck) == [state |-> state, refs |-> refs, recheck |-> recheck]

Decision(primary, retry, continuation, recovery, recheck) ==
    [primary |-> primary, retry |-> retry, continuation |-> continuation,
     recovery |-> recovery, recheck |-> recheck]

(* assess, decide, applySafetyFloors.                                      *)
Floored(spec, assessment, decision, ledger) ==
    ApplySafetyFloors(spec, assessment.state, assessment.refs, decision, Evidence(ledger))
=============================================================================
