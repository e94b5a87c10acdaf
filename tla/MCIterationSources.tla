-------------------------- MODULE MCIterationSources -------------------------
(***************************************************************************)
(* The project and the branches for model-checking IterationSources.       *)
(***************************************************************************)
EXTENDS IterationSources, TLC

CONSTANT a

\* Commits on main, and on another branch: all of them valid, or one is not and
\* is followed by one that is.
MainAndOther ==
    {[branch |-> "main", srcinfo |-> 1 :> "valid" @@ 2 :> "valid" @@ 3 :> "valid"],
     [branch |-> "main", srcinfo |-> 1 :> "valid" @@ 2 :> "invalid" @@ 3 :> "valid"],
     [branch |-> "other", srcinfo |-> 1 :> "valid" @@ 2 :> "cyclic" @@ 3 :> "valid"]}
=============================================================================
