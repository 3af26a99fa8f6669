----------------------------- MODULE MCRecovery -----------------------------
(***************************************************************************)
(* Two workers, and the recovery authorised under one resolution, which a  *)
(* second resolution may supersede.                                        *)
(***************************************************************************)
EXTENDS Recovery

CONSTANTS w1, w2

TwoWorkers == {w1, w2}

(* A compensation the bound policy lets run by itself.                      *)
Compensates == [primary |-> "compensate", retry |-> "forbidden",
                continuation |-> "blocked", recovery |-> "compensate"]
SomeDecisions == {Compensates}

Automatic == [execution_mode |-> "automatic", auto_continuation |-> FALSE,
              auto_compensation |-> TRUE]
OnePolicy == {Automatic}

(* Production registers nothing; both, and an executor nobody can observe.   *)
SomeRegistries == {{}, {"executor"}, {"executor", "observer"}}
=============================================================================
