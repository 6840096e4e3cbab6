------------------------------ MODULE MCVault ------------------------------
(***************************************************************************)
(* Instances of Vault: two processes of which one may die, so that at most *)
(* one process ever takes a stale lock over; and three, of which one may   *)
(* die, so that two of them may want to.                                   *)
(***************************************************************************)
EXTENDS Vault
=============================================================================
