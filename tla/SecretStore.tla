---------------------------- MODULE SecretStore ----------------------------
(***************************************************************************)
(* What the vault promises to the processes that share it (vault.js:40),   *)
(* with no lock, no key and no file: one set of secrets, on which a put or *)
(* a revoke acts at one instant between its call and its return, once or   *)
(* not at all, and the caller is told which.  Of two revokes of a secret   *)
(* one is told that it removed it.  A process that dies never returns; its *)
(* call may have acted or not.                                             *)
(***************************************************************************)

CONSTANTS Clients, Ids  (* the processes, and what may name a secret        *)

VARIABLES held,         (* the secrets that can be read                     *)
          call          (* what each process is doing; ok once it has acted *)

secretVars == <<held, call>>

NoCall == [kind |-> "none", secret |-> "none", ok |-> FALSE]

StoreInit == held = {} /\ call = [p \in Clients |-> NoCall]

Call(p) ==
    /\ call[p] = NoCall
    /\ \E s \in Ids, kind \in {"put", "revoke"} :
          call' = [call EXCEPT ![p] = [kind |-> kind, secret |-> s, ok |-> FALSE]]
    /\ UNCHANGED held

Waiting(p, kind) == call[p].kind = kind /\ ~call[p].ok

\* A new secret appears, and nothing else changes.
Put(p) ==
    /\ Waiting(p, "put") /\ call[p].secret \notin held
    /\ held' = held \cup {call[p].secret}
    /\ call' = [call EXCEPT ![p].ok = TRUE]

\* A secret that is there disappears, and nothing else changes.
Revoke(p) ==
    /\ Waiting(p, "revoke") /\ call[p].secret \in held
    /\ held' = held \ {call[p].secret}
    /\ call' = [call EXCEPT ![p].ok = TRUE]

Return(p) ==
    /\ call[p] # NoCall
    /\ call' = [call EXCEPT ![p] = NoCall]
    /\ UNCHANGED held

StoreNext == \E p \in Clients : Call(p) \/ Put(p) \/ Revoke(p) \/ Return(p)

StoreSpec == StoreInit /\ [][StoreNext]_secretVars
=============================================================================
