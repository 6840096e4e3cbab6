---------------------------- MODULE MCReceiptLog ----------------------------
(***************************************************************************)
(* Instances of ReceiptLog: one log with files of two lines, six receipts  *)
(* and three faults; and two logs on one path with no fault at all.        *)
(***************************************************************************)
EXTENDS ReceiptLog
=============================================================================
