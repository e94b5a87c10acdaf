----------------------------- MODULE MCSourceFetch -----------------------------
(***************************************************************************)
(* Model values for model-checking SourceFetch: two projects on two pages. *)
(***************************************************************************)
EXTENDS SourceFetch

CONSTANTS a, b
================================================================================
