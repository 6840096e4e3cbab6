----------------------------- MODULE MCPipeline -----------------------------
(***************************************************************************)
(* Instance of Pipeline: three stages, two edits and one fault anywhere in  *)
(* any number of runs.  Definitions and texts are compared only with each   *)
(* other, so they are interchangeable.                                      *)
(***************************************************************************)
EXTENDS Pipeline, TLC

Interchangeable == Permutations(Defs) \cup Permutations(Texts)
=============================================================================
