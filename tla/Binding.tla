------------------------------- MODULE Binding -------------------------------
(***************************************************************************)
(* What an action is bound to.  A submission reads its agent, the mode and  *)
(* the policy before it records anything, and binds the action after; the  *)
(* policies, the mode, the agents, the keys and the plan are changed by    *)
(* others in between.  Every statement is a step.  Admission and authority *)
(* stand between the reads and the writes and may end a submission there.  *)
(***************************************************************************)
EXTENDS Naturals, Sequences

CONSTANTS
    Callers, Absent,
    Agents, ApiKeys, AgentOf,    \* AgentOf[k]: the agent a key is bound to, or Absent
    Effect,                      \* the effect of the action
    Plans,                       \* state of the plan -> what it includes
    MaxSubmissions, MaxEdits     \* bounds

VARIABLES
    policies,       \* the versions, by effect_name: of Effect, or of every effect (Absent)
    mode,           \* of the environment
    plan, offered,  \* nyst_organization_entitlements; history: what plans have included
    agents, keys,   \* the agents not retired, the keys not revoked
    action,         \* scope, binding and dispatch of the one business key
    caller, submissions, edits

settings == <<policies, mode, plan, offered, agents, keys, edits>>
vars == <<settings, action, caller, submissions>>

Modes == {"shadow", "canary", "enforced"}
ExecutionModes == {"automatic", "approval_required"}

(* approved: by the person whose session it is.                            *)
(* mode, policy: as the submission read them, bound: as scopeAction did.    *)
Idle == [pc |-> "idle", agent |-> Absent, approved |-> FALSE,
         mode |-> Absent, policy |-> Absent, bound |-> Absent]

Init ==
    /\ policies = [e \in {Effect, Absent} |-> IF e = Absent THEN <<"automatic">> ELSE <<>>]
    /\ mode = "shadow"
    /\ plan \in DOMAIN Plans /\ offered = Plans[plan]
    /\ agents = Agents /\ keys = ApiKeys
    /\ action = [agent |-> Absent, scoped |-> FALSE, binding |-> Absent, dispatched |-> Absent]
    /\ caller = [c \in Callers |-> Idle]
    /\ submissions = 0 /\ edits = 0

At(c, pc) == caller[c].pc = pc
Become(c, new) == caller' = [caller EXCEPT ![c] = new]
Return(c) == Become(c, Idle)
Ask(c, new) ==
    /\ At(c, "idle") /\ submissions < MaxSubmissions
    /\ submissions' = submissions + 1
    /\ Become(c, new)

(* currentPolicy: the newest of the effect's own, or of everything's.      *)
CurrentPolicy ==
    LET of == IF policies[Effect] # <<>> THEN Effect ELSE Absent
    IN  [of |-> of, version |-> Len(policies[of])]

ExecutionMode(policy) == policies[policy.of][policy.version]

-----------------------------------------------------------------------------
(* authenticateSession or authenticateApiKey, and resolveActingAgent: a key *)
(* acts as its agent and only as that one, a session as whom it names, and  *)
(* nobody as an agent that is retired.                                     *)
ActingAgent(k, agent) ==
    IF k # Absent /\ AgentOf[k] # Absent THEN AgentOf[k] ELSE agent

ResolveActingAgent(c, k, agent, approved) ==
    LET acting == ActingAgent(k, agent) IN
    /\ k \in keys \union {Absent}
    /\ agent \in {acting, Absent} /\ acting \in agents \union {Absent}
    /\ Ask(c, [Idle EXCEPT !.pc = "submitting", !.agent = acting,
                           !.approved = approved /\ k = Absent])
    /\ UNCHANGED <<settings, action>>

(* resolveExecutionMode.  The rules that let an agent into the canary are   *)
(* part of Admission: whoever has an agent may be in.                      *)
ResolveExecutionMode(c) ==
    /\ At(c, "submitting")
    /\ \/ /\ mode # "shadow" /\ (mode = "canary" => caller[c].agent # Absent)
          /\ Become(c, [caller[c] EXCEPT !.pc = "governing", !.mode = mode])
       \/ /\ mode # "enforced"
          /\ Return(c)
    /\ UNCHANGED <<settings, action, submissions>>

ReadPolicy(c) ==
    LET k == caller[c] IN
    /\ At(c, "governing")
    /\ IF ExecutionMode(CurrentPolicy) = "approval_required" /\ ~k.approved
       THEN Return(c)
       ELSE Become(c, [k EXCEPT !.pc = "scoping", !.policy = CurrentPolicy])
    /\ UNCHANGED <<settings, action, submissions>>

-----------------------------------------------------------------------------
(* scopeAction: the first submission of the key says whose action it is.    *)
ScopeAction(c) ==
    /\ At(c, "scoping")
    /\ action' = IF action.scoped THEN action
                 ELSE [action EXCEPT !.scoped = TRUE, !.agent = caller[c].agent]
    /\ Become(c, [caller[c] EXCEPT !.pc = "reading", !.bound = [mode |-> Absent,
                                                               policy |-> Absent]])
    /\ UNCHANGED <<settings, submissions>>

(* The mode and the policy of now, asked for at the same time.             *)
EnvironmentControl(c) ==
    /\ At(c, "reading") /\ caller[c].bound.mode = Absent
    /\ Become(c, [caller[c] EXCEPT !.bound.mode = mode])
    /\ UNCHANGED <<settings, action, submissions>>

RereadPolicy(c) ==
    /\ At(c, "reading") /\ caller[c].bound.policy = Absent
    /\ Become(c, [caller[c] EXCEPT !.bound.policy = CurrentPolicy])
    /\ UNCHANGED <<settings, action, submissions>>

(* bindActionControl inserts while the environment is in that mode, unless  *)
(* there is a binding; then there must be one, and exactly this one.        *)
BindActionControl(binding) ==
    action' = IF action.binding = Absent /\ mode = binding.mode
              THEN [action EXCEPT !.binding = binding]
              ELSE action

BindCurrent(c) ==
    LET k == caller[c] IN
    /\ At(c, "reading") /\ Absent \notin {k.bound.mode, k.bound.policy}
    /\ BindActionControl(k.bound)
    /\ IF action'.binding = k.bound THEN Become(c, [k EXCEPT !.pc = "binding"])
       ELSE Return(c)
    /\ UNCHANGED <<settings, submissions>>

(* Once more, with what the submission had read.                           *)
BindRequested(c) ==
    LET k == caller[c]
        requested == [mode |-> k.mode, policy |-> k.policy]
    IN
    /\ At(c, "binding")
    /\ BindActionControl(requested)
    /\ IF action'.binding = requested THEN Become(c, [k EXCEPT !.pc = "dispatching"])
       ELSE Return(c)
    /\ UNCHANGED <<settings, submissions>>

(* The trigger lets nothing be prepared that is not bound.                 *)
Dispatch(c) ==
    /\ At(c, "dispatching")
    /\ action.binding # Absent
    /\ action' = IF action.dispatched # Absent THEN action
                 ELSE [action EXCEPT !.dispatched =
                         [approved |-> caller[c].approved, mode |-> caller[c].mode,
                          policy |-> caller[c].policy]]
    /\ Return(c)
    /\ UNCHANGED <<settings, submissions>>

(* Refused by admission or authority, or the process dies.                 *)
Abandon(c) ==
    /\ ~At(c, "idle")
    /\ Return(c)
    /\ UNCHANGED <<settings, action, submissions>>

-----------------------------------------------------------------------------
Edit == edits < MaxEdits /\ edits' = edits + 1

(* Versions are numbered by one statement; of two at once, one fails.       *)
CreatePolicyVersion ==
    /\ Edit
    /\ \E e \in DOMAIN policies, execution \in ExecutionModes :
          policies' = [policies EXCEPT ![e] = Append(@, execution)]
    /\ UNCHANGED <<mode, plan, offered, agents, keys, action, caller, submissions>>

SetAgentStatus ==
    /\ Edit
    /\ \E a \in Agents : agents' \in {agents \union {a}, agents \ {a}}
    /\ UNCHANGED <<policies, mode, plan, offered, keys, action, caller, submissions>>

RevokeApiKey ==
    /\ Edit
    /\ \E k \in keys : keys' = keys \ {k}
    /\ UNCHANGED <<policies, mode, plan, offered, agents, action, caller, submissions>>

(* setEntitlement, or the plan's time is over.                             *)
SetEntitlement ==
    /\ Edit
    /\ plan' \in DOMAIN Plans /\ offered' = offered \union Plans[plan']
    /\ UNCHANGED <<policies, mode, agents, keys, action, caller, submissions>>

(* mayEnable is asked first; to stop controlling nobody is asked.          *)
FeatureForMode(m) ==
    CASE m = "enforced" -> {"enforced_mode"}
      [] m = "canary"   -> {"canary_mode"}
      [] m = "shadow"   -> {}

MayEnable(c, m) ==
    /\ FeatureForMode(m) \subseteq Plans[plan]
    /\ Ask(c, [Idle EXCEPT !.pc = "switching", !.mode = m])
    /\ UNCHANGED <<settings, action>>

SetEnvironmentMode(c) ==
    /\ At(c, "switching")
    /\ mode' = caller[c].mode
    /\ Return(c)
    /\ UNCHANGED <<policies, plan, offered, agents, keys, edits, action, submissions>>

Next ==
    \/ CreatePolicyVersion \/ SetAgentStatus \/ RevokeApiKey \/ SetEntitlement
    \/ \E c \in Callers :
          \/ \E k \in ApiKeys \union {Absent}, agent \in Agents \union {Absent},
                approved \in BOOLEAN : ResolveActingAgent(c, k, agent, approved)
          \/ ResolveExecutionMode(c) \/ ReadPolicy(c)
          \/ ScopeAction(c) \/ EnvironmentControl(c) \/ RereadPolicy(c) \/ BindCurrent(c)
          \/ BindRequested(c) \/ Dispatch(c) \/ Abandon(c)
          \/ \E m \in Modes : MayEnable(c, m)
          \/ SetEnvironmentMode(c)

Spec == Init /\ [][Next]_vars

-----------------------------------------------------------------------------
(* The types of the rows.                                                  *)
TypeOK ==
    /\ \A e \in DOMAIN policies : policies[e] \in Seq(ExecutionModes)
    /\ mode \in Modes /\ plan \in DOMAIN Plans
    /\ agents \subseteq Agents /\ keys \subseteq ApiKeys
    /\ action.agent \in Agents \union {Absent}
    /\ action.binding # Absent => action.scoped /\ action.binding.mode \in Modes
    /\ \A c \in Callers : caller[c].agent \in Agents \union {Absent}

(* An action that is dispatched is bound to the mode and the policy its     *)
(* submission was held to, whatever was changed meanwhile: a policy that    *)
(* wants approval binds only what a person approved, and nothing that is    *)
(* bound to Shadow is dispatched.  The environment controls in no mode that *)
(* no plan of the organization has included.                               *)
BindingsHold ==
    /\ action.dispatched # Absent =>
          LET d == action.dispatched IN
          /\ action.binding = [mode |-> d.mode, policy |-> d.policy]
          /\ action.binding.mode # "shadow"
          /\ ExecutionMode(action.binding.policy) = "approval_required" =>
                d.approved
    /\ FeatureForMode(mode) \subseteq offered
=============================================================================
