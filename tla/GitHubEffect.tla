---------------------------- MODULE GitHubEffect ----------------------------
(***************************************************************************)
(* The GitHub repository permission effect: what its adapter reads, what   *)
(* its EffectSpec makes of the ledger, and what it decides.                *)
(***************************************************************************)
EXTENDS EvidenceLedger

GitHubSpec == [compensation |-> FALSE, goal_sufficient |-> TRUE,
               retry_safe |-> TRUE, idempotent |-> FALSE]

(* snapshotEvidence: the goal matches or not, and the consistency window   *)
(* has elapsed, or is taken to have.                                       *)
GitHubSnapshot(goalMatches, windowElapsed) ==
    IF goalMatches
    THEN IF windowElapsed THEN "present_late" ELSE "present_early"
    ELSE IF windowElapsed THEN "absent_late" ELSE "absent_early"

(* provenNotSent: the adapter looks for the runtime's not-sent record      *)
(* among the evidence it is handed, whichever attempt it is about.         *)
ProvenNotSent(prior) == \E i \in DOMAIN prior : prior[i].fact = "not_sent"

(* observe: a snapshot that differs from the last one supersedes it.       *)
Superseding(prior, fact) ==
    LET previous == Latest({i \in DOMAIN prior : prior[i].fact \in Snapshots}) IN
    IF previous # 0 /\ prior[previous].fact # fact THEN previous ELSE 0

(* assess: a failed observation is never read past; then the last snapshot  *)
(* decides, unless a transport failure is newer.                           *)
GitHubAssess(ledger) ==
    LET active   == Current(ledger)
        TransportOnly(i) == Profile(ledger[i].fact).strength = "transport_only"
        last     == Latest(active)
        snapshot == Latest({i \in active : ledger[i].fact \in Snapshots})
    IN  IF snapshot = 0 \/ TransportOnly(last) \/ ledger[last].fact \in ObservationFailures
        THEN IF last # 0 /\ ledger[last].fact = "rate_limited"
             THEN Assessment("pending", {last}, TRUE)
             ELSE Assessment("unprovable",
                             IF snapshot # 0 /\ TransportOnly(last) THEN {}
                             ELSE {Latest({i \in active : ~TransportOnly(i)})} \ {0},
                             FALSE)
        ELSE Assessment(CASE ledger[snapshot].fact = "absent_early" -> "pending"
                          [] ledger[snapshot].fact = "absent_late"  -> "not_applied"
                          [] OTHER                                  -> "satisfied_unattributed",
                        {snapshot}, FALSE)

GitHubDecide(a) ==
    CASE a.state = "satisfied_unattributed" ->
           Decision("do_not_retry", "forbidden", "allowed", "none", FALSE)
      [] a.state = "not_applied" -> Decision("retry", "allowed", "blocked", "none", FALSE)
      [] a.state = "pending"     -> Decision("hold", "forbidden", "blocked", "none", a.recheck)
      [] OTHER -> Decision("escalate", "forbidden", "blocked", "escalate", FALSE)

GitHubOutcome(ledger) ==
    LET a == GitHubAssess(ledger) IN Floored(GitHubSpec, a, GitHubDecide(a), ledger)
=============================================================================
