------------------------- MODULE MCTerminalSession -------------------------
(***************************************************************************)
(* Small instance of TerminalSession: two sessions of which one may be     *)
(* live at a time, two connections, two tokens, and chunks smaller and     *)
(* larger than the ring.                                                   *)
(***************************************************************************)
EXTENDS TerminalSession
=============================================================================
