--------------------------- MODULE MCWorkerDispatch --------------------------
(***************************************************************************)
(* Build sets and bounds for model-checking WorkerDispatch.                *)
(***************************************************************************)
EXTENDS WorkerDispatch, TLC

CONSTANTS x86_64, aarch64, a, b, c, hash

Blocked(nodes, edges) ==
    [commit_hash |-> [n \in nodes |-> hash],
     status |-> [n \in nodes |-> "Blocked"],
     edges |-> edges]

\* a and b are dependencies of c; b and c depend on a.
JoinOrFork ==
    {x86_64 :> Blocked({a, b, c}, {<<a, c>>, <<b, c>>}),
     x86_64 :> Blocked({a, b, c}, {<<a, b>>, <<a, c>>})}

\* a before b, and a on a second architecture.
TwoArchitectures ==
    {x86_64 :> Blocked({a, b}, {<<a, b>>}) @@ aarch64 :> Blocked({a}, {})}

AllShapes == JoinOrFork \union TwoArchitectures
=============================================================================
