----------------------------- MODULE MCRuntime ------------------------------
(***************************************************************************)
(* Small instances of NystRuntime: two processes, at most two callers.     *)
(***************************************************************************)
EXTENDS NystRuntime, TLC

CONSTANTS c1, c2, h1, h2, source, dependent

TwoCallers == {c1, c2}
TwoHosts   == {h1, h2}

(* Callers of different processes, and of the same one.                    *)
Apart    == (c1 :> h1) @@ (c2 :> h2)
Together == (c1 :> h1) @@ (c2 :> h1)

(* Processes, each with its caller, may be exchanged: the permutations     *)
(* that leave Apart what it is.                                            *)
Alike == {p \in Permutations(TwoCallers \union TwoHosts) :
            \A c \in TwoCallers : p[c] \in TwoCallers /\ p[Apart[c]] = Apart[p[c]]}

OneAction  == {source}
BothActions == {source, dependent}

NoSource   == [a \in {source} |-> NoAction]
Dependency == (source :> NoAction) @@ (dependent :> source)

DispatchCommands == {"commit", "recover", "retry"} \X {source}
TogetherCommands == {"commit", "recover", "retry", "reconcile"} \X {source}

(* The reference effect can be retried after it was sent, and undone.      *)
ReferenceCommands == {"commit", "retry", "compensate"} \X {source}

(* The dependent action is only ever committed, under its guard, or is     *)
(* also recovered.                                                         *)
DependentCommands == ({"commit", "reconcile"} \X {source}) \union {<<"commit", dependent>>}
RecoveredCommands == DependentCommands \union {<<"recover", dependent>>}

OneCaller == {c1}
Alone     == c1 :> h1
ReconcileCommands == {"commit", "reconcile"} \X {source}
=============================================================================
