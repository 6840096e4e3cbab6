-------------------------- MODULE MCTelegramBridge --------------------------
(***************************************************************************)
(* Two messages of a chat that is forgotten once in a process that dies    *)
(* once; their replies share three tokens, and two fill a message.         *)
(***************************************************************************)
EXTENDS TelegramBridge, TLC

Interchangeable == Permutations(Msgs)
=============================================================================
