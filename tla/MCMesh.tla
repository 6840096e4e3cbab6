------------------------------- MODULE MCMesh -------------------------------
(***************************************************************************)
(* Instance of Mesh: a node that computes well, one whose machine may not  *)
(* and one that trusts another origin's key, with two connections among    *)
(* them: two nodes at work, or one that comes back for another owner.      *)
(***************************************************************************)
EXTENDS Mesh
=============================================================================
