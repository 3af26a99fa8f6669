---------------------------- MODULE MCGovernance ----------------------------
(***************************************************************************)
(* The requests of an agent, with money in them; an outcome that wants one *)
(* property to have one of two values.                                     *)
(***************************************************************************)
EXTENDS Governance, TLC

Small == [agent |-> "a", effect |-> "refund", amount |-> 1, currency |-> "usd"]
Large == [Small EXCEPT !.amount = 2]

MCRequests == {Small, Large}

(* Few actions at once, and little money in a while.                       *)
Often == [agent |-> "a", effect |-> Null, window |-> 1, max_actions |-> 1,
          max_per_action |-> Null, max_per_window |-> Null, currency |-> Null]
Money == [agent |-> Null, effect |-> "refund", window |-> 2, max_actions |-> Null,
          max_per_action |-> Null, max_per_window |-> 2, currency |-> "usd"]
MCBudgets == {Often, Money}

Autonomous == [id |-> 1, agent |-> "a", effect |-> Null, outcome_spec |-> Null,
               resource_class |-> Null, disposition |-> "autonomous",
               requires_reversible |-> FALSE, requires_no_open_incident |-> TRUE,
               requires_outcome_satisfied |-> FALSE, max_amount |-> 1, currency |-> "usd",
               max_actions_per_window |-> 3, max_amount_per_window |-> Null, window |-> Null]
MCRules == {Autonomous}

Larger == [agent |-> "a", effect |-> Null, authorizes |-> "amount_above_autonomy_line",
           max_amount |-> 2, currency |-> "usd"]
MCExceptions == {Larger}

Scope(agent, effect) == [agent |-> agent, effect |-> effect]
MCScopes == {Scope(Null, "refund")}

Value(v) == [type |-> "string", value |-> v]
MCValues == {Value("none"), Value("write")}
MCRequired ==
    {[operator |-> "equals", subject |-> "alice", property |-> "access",
      expected |-> Value("none"), max_age |-> Null, accepts_corroborative |-> FALSE,
      members |-> {}, any_is_safe |-> FALSE, expected_count |-> 0, capability |-> Null]}

MCChecks == [okta |-> 2, github |-> 1]

MCMailOf == [g1 |-> "e1", g2 |-> "e2"]
MCMails == <<"e1", "e3">>

(* What the provider says of a customer's credential does not suffice.     *)
MCStated == [ref \in Ids \union {Operator, Foreign} |->
                {"read_org", IF ref = Operator THEN "repo" ELSE "public_repo"}]

Despite(effect, authorizes) ==
    [agent |-> Null, instance |-> Null, effect |-> effect, authorizes |-> authorizes]
MCApprovals == {Despite("refund", "continuation_despite_indeterminate_outcome"),
                Despite(Null, "amount_above_autonomy_line")}
MCPermitted == {[effects |-> {"refund", "notice"}, resources |-> {"alice"}]}

MCAgentOf == [own |-> "a", shared |-> Null]
MCPlans == [trial |-> {}, protect |-> {"enforced_mode", "canary_mode"}]

Alike == Permutations(Callers) \union Permutations(Keys)
=============================================================================
