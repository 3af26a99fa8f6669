----------------------------- MODULE Idempotency -----------------------------
(***************************************************************************)
(* withIdempotency: a control-plane command with a key reserves the key,   *)
(* runs, and stores its response under it.  One (environment, operation,   *)
(* key); every statement is a step, and so is the operation, which fails   *)
(* without effect or takes effect.  Nothing in the product prunes keys.    *)
(***************************************************************************)
EXTENDS Naturals

CONSTANTS Callers, Bodies, Absent, MaxCommands, MaxCrashes

VARIABLES
    entry,            \* the row of nyst_idempotency_keys, or Absent
    command,          \* what each caller is doing
    effects,          \* how often the operation of a body took effect
    replies,          \* what was answered: the body asked, the body served
    commands, crashes

vars == <<entry, command, effects, replies, commands, crashes>>

Nothing == [pc |-> "idle", body |-> Absent]

Init ==
    /\ entry = Absent
    /\ command = [c \in Callers |-> Nothing]
    /\ effects = [body \in Bodies |-> 0]
    /\ replies = {}
    /\ commands = 0
    /\ crashes = 0

At(c, pc) == command[c].pc = pc
Goto(c, pc) == command' = [command EXCEPT ![c].pc = pc]
Return(c) == command' = [command EXCEPT ![c] = Nothing]

Call(c) ==
    /\ At(c, "idle") /\ commands < MaxCommands
    /\ commands' = commands + 1
    /\ \E body \in Bodies : command' = [command EXCEPT ![c] = [pc |-> "called", body |-> body]]
    /\ UNCHANGED <<entry, effects, replies, crashes>>

(* Defective form: a key without a response yet may be taken over.         *)
Unanswered == entry = Absent \/ entry.status = "in_flight"

(* The unique constraint is the arbiter.                                   *)
Reservable == entry = Absent

(* INSERT ... ON CONFLICT DO NOTHING.                                      *)
Reserve(c) ==
    /\ At(c, "called")
    /\ IF Reservable
       THEN /\ entry' = [status |-> "in_flight", body |-> command[c].body]
            /\ Goto(c, "reserved")
       ELSE Goto(c, "conflict") /\ UNCHANGED entry
    /\ UNCHANGED <<effects, replies, commands, crashes>>

(* Replayed, or a conflict: gone meanwhile, another command, in flight.    *)
Replay(c) ==
    /\ At(c, "conflict")
    /\ replies' = IF entry # Absent /\ entry.body = command[c].body
                     /\ entry.status = "completed"
                  THEN replies \union {<<command[c].body, entry.body>>} ELSE replies
    /\ Return(c)
    /\ UNCHANGED <<entry, effects, commands, crashes>>

Operate(c) ==
    /\ At(c, "reserved")
    /\ effects' = [effects EXCEPT ![command[c].body] = @ + 1]
    /\ Goto(c, "done")
    /\ UNCHANGED <<entry, replies, commands, crashes>>

Fail(c) ==
    /\ At(c, "reserved")
    /\ Goto(c, "failed")
    /\ UNCHANGED <<entry, effects, replies, commands, crashes>>

(* A failed operation must not poison the key.                             *)
Release(c) ==
    /\ At(c, "failed")
    /\ entry' = IF entry # Absent /\ entry.status = "in_flight" THEN Absent ELSE entry
    /\ Return(c)
    /\ UNCHANGED <<effects, replies, commands, crashes>>

Complete(c) ==
    /\ At(c, "done")
    /\ entry' = IF entry # Absent /\ entry.status = "in_flight"
                THEN [entry EXCEPT !.status = "completed"] ELSE entry
    /\ replies' = replies \union {<<command[c].body, command[c].body>>}
    /\ Return(c)
    /\ UNCHANGED <<effects, commands, crashes>>

(* The process dies and leaves the key in flight.                          *)
Crash(c) ==
    /\ ~At(c, "idle") /\ crashes < MaxCrashes
    /\ crashes' = crashes + 1
    /\ Return(c)
    /\ UNCHANGED <<entry, effects, replies, commands>>

Next == \E c \in Callers :
          \/ Call(c) \/ Reserve(c) \/ Replay(c) \/ Operate(c) \/ Fail(c)
          \/ Release(c) \/ Complete(c) \/ Crash(c)

Spec == Init /\ [][Next]_vars

-----------------------------------------------------------------------------
(* The types of the row and of the commands.                               *)
TypeOK ==
    /\ entry \in [status : {"in_flight", "completed"}, body : Bodies] \union {Absent}
    /\ command \in [Callers -> [pc : {"idle", "called", "reserved", "conflict", "done",
                                      "failed"},
                                body : Bodies \union {Absent}]]
    /\ effects \in [Bodies -> Nat]
    /\ replies \subseteq Bodies \X Bodies
    /\ {commands, crashes} \subseteq Nat

(* Whatever is repeated, races, fails or dies, the operation of a key      *)
(* takes effect at most once, for one request only, and whoever is told    *)
(* that it did asked for exactly that.                                     *)
RunsOnce ==
    /\ \A body \in Bodies : effects[body] <= 1
    /\ \A body, other \in Bodies : effects[body] > 0 /\ effects[other] > 0 => body = other
    /\ \A reply \in replies : reply[1] = reply[2] /\ effects[reply[2]] = 1
=============================================================================
