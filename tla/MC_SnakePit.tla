----------------------------- MODULE MC_SnakePit -----------------------------
(* Small instances of SnakePit for TLC. *)
EXTENDS SnakePit, TLC

CONSTANTS worker1, worker2

\* A concurrent module that handles messages and nick changes, and an exclusive one for
\* messages and for the tags that have no registered class.
TwoModules == <<"shared", "only">>
TwoHandles == "shared" :> {"msg", "nick"} @@ "only" :> {"msg", "tags"}
OneModule == <<"shared">>
OneHandles == "shared" :> {"msg", "nick"}
TwoWorkers == {worker1, worker2}
=============================================================================
