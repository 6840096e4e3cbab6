---------------------------- MODULE MCEvolution ----------------------------
(***************************************************************************)
(* Instance of Evolution: three requests over two intents that are near    *)
(* each other; i32 is narrowed to 4 bits, so that 9 does not fit.          *)
(***************************************************************************)
EXTENDS Evolution, TLC

MCNear == {p \in Intents \X Intents : p[1] # p[2]}
Interchangeable == Permutations(Requests) \cup Permutations(Intents)
=============================================================================
