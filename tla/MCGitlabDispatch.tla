--------------------------- MODULE MCGitlabDispatch --------------------------
(***************************************************************************)
(* Build sets and bounds for model-checking GitlabDispatch.                *)
(***************************************************************************)
EXTENDS GitlabDispatch, TLC

CONSTANTS ns1, ns2, x86_64, aarch64, a, b, c, old, new

Blocked(nodes, edges, hash) ==
    [commit_hash |-> [n \in nodes |-> hash],
     status |-> [n \in nodes |-> "Blocked"],
     edges |-> edges]

\* a and b are dependencies of c.
Join(hash) == x86_64 :> Blocked({a, b, c}, {<<a, c>>, <<b, c>>}, hash)

\* a on two architectures.
TwoArchitectures(hash) == x86_64 :> Blocked({a}, {}, hash) @@ aarch64 :> Blocked({a}, {}, hash)

\* A single package.
Single(hash) == x86_64 :> Blocked({a}, {}, hash)

JoinOrTwoArchitectures == {Join(new), TwoArchitectures(old)}
OnePackage == {Single(old), Single(new)}
=============================================================================
