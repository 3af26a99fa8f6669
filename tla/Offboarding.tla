----------------------------- MODULE Offboarding -----------------------------
(***************************************************************************)
(* OffboardingCoordinator.execute: an Okta suspension, then a GitHub access *)
(* removal, of one offboarding run that several processes may execute and   *)
(* that is executed again after a crash.  What the runtime does for an      *)
(* action is reduced to intent, guarded claim with its send, and            *)
(* resolution; NystRuntime is the detail.  An action is identified by its   *)
(* business key, of which there is one per stage.                           *)
(***************************************************************************)
EXTENDS Naturals, Sequences

CONSTANTS
    Executors,
    MaxChecks,        \* of each stage: evidence records, and resolutions
    MaxRuns, MaxCrashes

Stages == {"okta", "github"}

VARIABLES
    run,              \* the action ids attached to the run, TRUE for attached
    action,           \* what the store holds of the action of each stage
    holds,            \* whether the goal of each stage holds at the provider
    learnt,           \* how many evidence records each action has, and the last's finding
    resolutions,      \* of each action, oldest first
    executor,
    runs, crashes

vars == <<run, action, holds, learnt, resolutions, executor, runs, crashes>>

(* Where an executor stands, in which stage, and the resolution it has seen. *)
Idle == [pc |-> "idle", stage |-> "okta", saw |-> 0]

Init ==
    /\ run = [s \in Stages |-> FALSE]
    /\ action = [s \in Stages |-> [status |-> "absent", sent |-> 0]]
    /\ holds \in [Stages -> BOOLEAN]
    /\ learnt = [s \in Stages |-> [count |-> 0, found |-> FALSE]]
    /\ resolutions = [s \in Stages |-> <<>>]
    /\ executor = [c \in Executors |-> Idle]
    /\ runs = 0
    /\ crashes = 0

At(c, pc) == executor[c].pc = pc
In(c, s, pc) == executor[c].stage = s /\ At(c, pc)
Become(c, new) == executor' = [executor EXCEPT ![c] = new]
Goto(c, pc) == Become(c, [executor[c] EXCEPT !.pc = pc])
Enter(c, s) == Become(c, [executor[c] EXCEPT !.pc = "find", !.stage = s])
Return(c) == Become(c, Idle)

-----------------------------------------------------------------------------
(* Evidence of what the provider holds; a resolution of the evidence, that *)
(* is signed.  Both specs allow continuation where they find satisfied.    *)
Learn(s) ==
    /\ learnt[s].count < MaxChecks[s]
    /\ learnt' = [learnt EXCEPT ![s] = [count |-> @.count + 1, found |-> holds[s]]]

Resolve(s) ==
    /\ Len(resolutions[s]) < MaxChecks[s]
    /\ resolutions' = [resolutions EXCEPT ![s] =
                         Append(@, [satisfied |-> learnt[s].found, evidence |-> learnt[s].count])]

Latest(s) == Len(resolutions[s])

(* The resolution is the latest, of all the evidence, and satisfied.       *)
Supports(s, sequence) ==
    /\ sequence # 0 /\ sequence = Latest(s)
    /\ resolutions[s][sequence].evidence = learnt[s].count
    /\ resolutions[s][sequence].satisfied

(* The scheduler, or somebody else, reconciles; the state may have drifted. *)
Reobserve(s) ==
    /\ action[s].status # "absent"
    /\ \/ Learn(s) /\ UNCHANGED resolutions
       \/ Resolve(s) /\ UNCHANGED learnt
    /\ UNCHANGED <<run, action, holds, executor, runs, crashes>>

Drift(s) ==
    /\ runs > 0
    /\ holds' = [holds EXCEPT ![s] = ~@]
    /\ UNCHANGED <<run, action, learnt, resolutions, executor, runs, crashes>>

-----------------------------------------------------------------------------
(* recordIntent: there is one run of the business key.                     *)
Execute(c) ==
    /\ At(c, "idle") /\ runs < MaxRuns
    /\ runs' = runs + 1
    /\ Enter(c, "okta")
    /\ UNCHANGED <<run, action, holds, learnt, resolutions, crashes>>

(* The action of the stage, by the run or by its identity: recovered, or   *)
(* committed; an intent that loses the race recovers the winner's.         *)
Find(c, s) ==
    /\ In(c, s, "find")
    /\ IF action[s].status = "absent"
       THEN /\ action' = [action EXCEPT ![s].status = "not_started"]
            /\ Goto(c, "commit")
            /\ UNCHANGED run
       ELSE /\ run' = [run EXCEPT ![s] = TRUE]
            /\ Goto(c, "recover")
            /\ UNCHANGED action
    /\ UNCHANGED <<holds, learnt, resolutions, runs, crashes>>

(* The preflight of a commit fails: blocked.                               *)
PreflightFails(c, s) ==
    /\ In(c, s, "find") /\ action[s].status = "absent"
    /\ Return(c)
    /\ UNCHANGED <<run, action, holds, learnt, resolutions, runs, crashes>>

(* The continuation guard of the GitHub commit, at its claim.              *)
Guarded(c, s) ==
    s = "github" => Supports("okta", executor[c].saw)

(* The claim and the send, which may have no effect, and the resolution.   *)
Claim(s) ==
    /\ action[s].status = "not_started"
    /\ action' = [action EXCEPT ![s] = [status |-> "attempted", sent |-> @.sent + 1]]
    /\ \/ UNCHANGED holds
       \/ holds' = [holds EXCEPT ![s] = TRUE]

Dispatch(c, s) ==
    /\ In(c, s, "commit")
    /\ IF action[s].status = "not_started" /\ ~Guarded(c, s)
       THEN Return(c) /\ UNCHANGED <<action, holds>>
       ELSE /\ Goto(c, "observe")
            /\ IF action[s].status = "not_started" THEN Claim(s)
               ELSE UNCHANGED <<action, holds>>
    /\ UNCHANGED <<run, learnt, resolutions, runs, crashes>>

(* recover sends what was not sent, without a guard.                       *)
Recover(c, s) ==
    /\ In(c, s, "recover")
    /\ Goto(c, "observe")
    /\ IF action[s].status = "not_started" THEN Claim(s) ELSE UNCHANGED <<action, holds>>
    /\ UNCHANGED <<run, learnt, resolutions, runs, crashes>>

Observe(c, s) ==
    /\ In(c, s, "observe")
    /\ Learn(s)
    /\ Goto(c, "derive")
    /\ UNCHANGED <<run, action, holds, resolutions, runs, crashes>>

Derive(c, s) ==
    /\ In(c, s, "derive")
    /\ Resolve(s)
    /\ Goto(c, "attach")
    /\ UNCHANGED <<run, action, holds, learnt, runs, crashes>>

(* attachAction; one that is attached is attached already.                 *)
Attach(c, s) ==
    /\ In(c, s, "attach")
    /\ run' = [run EXCEPT ![s] = TRUE]
    /\ Goto(c, "view")
    /\ UNCHANGED <<action, holds, learnt, resolutions, runs, crashes>>

(* view: the resolution, and then the sequences of the runtime.            *)
ReadResolution(c, s) ==
    /\ In(c, s, "view")
    /\ Become(c, [executor[c] EXCEPT !.pc = "compare", !.saw = Latest(s)])
    /\ UNCHANGED <<run, action, holds, learnt, resolutions, runs, crashes>>

(* Defective form: any current resolution lets the run continue.           *)
StepIsCurrent(c, s) ==
    /\ executor[c].saw # 0 /\ executor[c].saw = Latest(s)
    /\ resolutions[s][executor[c].saw].evidence = learnt[s].count

(* Current, signed, satisfied, and continuation allowed.                   *)
StepAllowsContinuation(c, s) == Supports(s, executor[c].saw)

(* Continue with GitHub, stop blocked, or complete.                        *)
Compare(c, s) ==
    /\ In(c, s, "compare")
    /\ IF s = "okta" /\ StepAllowsContinuation(c, s) THEN Enter(c, "github") ELSE Return(c)
    /\ UNCHANGED <<run, action, holds, learnt, resolutions, runs, crashes>>

Crash(c) ==
    /\ ~At(c, "idle") /\ crashes < MaxCrashes
    /\ crashes' = crashes + 1
    /\ Return(c)
    /\ UNCHANGED <<run, action, holds, learnt, resolutions, runs>>

Next ==
    \/ \E c \in Executors :
          \/ Execute(c) \/ Crash(c)
          \/ \E s \in Stages :
                \/ Find(c, s) \/ PreflightFails(c, s) \/ Dispatch(c, s) \/ Recover(c, s)
                \/ Observe(c, s) \/ Derive(c, s) \/ Attach(c, s) \/ ReadResolution(c, s) \/ Compare(c, s)
    \/ \E s \in Stages : Reobserve(s) \/ Drift(s)

Spec == Init /\ [][Next]_vars

-----------------------------------------------------------------------------
(* The types of the run and of what the runtime keeps; an attached action  *)
(* exists.                                                                 *)
TypeOK ==
    /\ run \in [Stages -> BOOLEAN]
    /\ action \in [Stages -> [status : {"absent", "not_started", "attempted"}, sent : Nat]]
    /\ holds \in [Stages -> BOOLEAN]
    /\ \A s \in Stages : /\ learnt[s] \in [count : Nat, found : BOOLEAN]
                         /\ resolutions[s] \in Seq([satisfied : BOOLEAN, evidence : Nat])
    /\ {runs, crashes} \subseteq Nat
    /\ \A s \in Stages : run[s] => action[s].status # "absent"

(* Access removal on GitHub is intended only after the suspension in Okta   *)
(* was attempted and a signed resolution found it satisfied, whoever       *)
(* executes the run, crashes and executes it again; and each is sent once. *)
StagesInOrder ==
    /\ \A s \in Stages : action[s].sent <= 1
    /\ action["github"].status # "absent" =>
          /\ action["okta"].status = "attempted"
          /\ \E n \in DOMAIN resolutions["okta"] : resolutions["okta"][n].satisfied
=============================================================================
