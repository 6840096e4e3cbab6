------------------------------- MODULE Vault -------------------------------
(***************************************************************************)
(* The credential vault (packages/stratos-agent/src/connectors/vault.js):  *)
(* a JSON store and a master key that several processes write under a lock *)
(* file created with O_EXCL and taken over when it is older than five      *)
(* seconds.                                                                *)
(*                                                                         *)
(* Processes interleave at every file operation, and may die at any.  A    *)
(* lock file is "stale" once it is old enough; that happens only while no  *)
(* living process is between its lock and its unlock, that is, critical    *)
(* sections take less than five seconds.  A secret in the store is the     *)
(* number of the key it is encrypted under; its content is left out.       *)
(***************************************************************************)
EXTENDS Integers, FiniteSets

CONSTANTS
    Procs,      (* the processes: the CLI, the broker, the daemon           *)
    Secrets,    (* handle ids, random and never used twice                  *)
    MaxCrashes  (* bound on the processes that die                          *)

ASSUME VaultAssumption == MaxCrashes \in Nat

VARIABLES
    lock,     (* the lock file: "none", "fresh" or "stale"                  *)
    key,      (* master.key: the number of the key, 0 when there is no file *)
    store,    (* vault.json: the key of each secret, 0 when it is not there *)
    pc,       (* where each process is                                      *)
    op,       (* what it does: putSecret or revoke, of which secret         *)
    local,    (* the store it has loaded, the key it has read               *)
    kept,     (* history: the secrets whose putSecret returned              *)
    revoked,  (* history: the secrets whose revoke returned true            *)
    keys      (* keys generated so far                                      *)

vars == <<lock, key, store, pc, op, local, kept, revoked, keys>>
files == <<lock, key, store>>

NoOp == [kind |-> "none", secret |-> "none", ok |-> FALSE]
Empty == [s \in Secrets |-> 0]

Init ==
    /\ lock = "none" /\ key = 0 /\ store = Empty
    /\ pc = [p \in Procs |-> "idle"]
    /\ op = [p \in Procs |-> NoOp]
    /\ local = [p \in Procs |-> [store |-> Empty, key |-> 0]]
    /\ kept = {} /\ revoked = {}
    /\ keys = 0

Goto(p, label) == pc' = [pc EXCEPT ![p] = label]

\* putSecret picks a random id; revoke is given the handle of a stored secret.
Begin(p) ==
    /\ pc[p] = "idle"
    /\ \E s \in Secrets :
          \/ /\ \A q \in Procs : op[q].secret # s
             /\ s \notin kept \cup revoked /\ store[s] = 0
             /\ op' = [op EXCEPT ![p] = [kind |-> "put", secret |-> s, ok |-> FALSE]]
          \/ /\ s \in kept
             /\ op' = [op EXCEPT ![p] = [kind |-> "revoke", secret |-> s, ok |-> FALSE]]
    /\ Goto(p, "open")
    /\ UNCHANGED <<files, local, kept, revoked, keys>>

Inside(p) == IF op[p].kind = "put" THEN "key" ELSE "load"

\* Mutant of OpenLock: the lock file is opened without O_EXCL.
OpenLockShared(p) ==
    /\ pc[p] = "open"
    /\ lock' = "fresh" /\ Goto(p, Inside(p))
    /\ UNCHANGED <<key, store, op, local, kept, revoked, keys>>

\* withLock: openSync(lock, 'wx').
OpenLock(p) ==
    /\ pc[p] = "open"
    /\ IF lock = "none"
       THEN lock' = "fresh" /\ Goto(p, Inside(p))
       ELSE UNCHANGED lock /\ Goto(p, "stat")
    /\ UNCHANGED <<key, store, op, local, kept, revoked, keys>>

\* Mutant of StatLock: every lock file is taken over, whatever its age.
StatLockEager(p) ==
    /\ pc[p] = "stat"
    /\ Goto(p, "unlink")
    /\ UNCHANGED <<files, op, local, kept, revoked, keys>>

\* Mutant of StatLock: no lock file is ever taken over.
StatLockNever(p) ==
    /\ pc[p] = "stat"
    /\ Goto(p, "open")
    /\ UNCHANGED <<files, op, local, kept, revoked, keys>>

\* EEXIST: an old lock file is taken over; else the caller is told to retry.
StatLock(p) ==
    /\ pc[p] = "stat"
    /\ Goto(p, IF lock = "stale" THEN "unlink" ELSE "open")
    /\ UNCHANGED <<files, op, local, kept, revoked, keys>>

\* unlinkSync removes whatever lock file is there by now.
UnlinkStale(p) ==
    /\ pc[p] = "unlink"
    /\ lock' = "none"
    /\ Goto(p, IF lock = "none" THEN "open" ELSE "reopen")
    /\ UNCHANGED <<key, store, op, local, kept, revoked, keys>>

ReopenLock(p) ==
    /\ pc[p] = "reopen"
    /\ IF lock = "none"
       THEN lock' = "fresh" /\ Goto(p, Inside(p))
       ELSE UNCHANGED lock /\ Goto(p, "open")
    /\ UNCHANGED <<key, store, op, local, kept, revoked, keys>>

\* masterKey: read; absent over a store with secrets is a fault.
ReadKey(p) ==
    /\ pc[p] = "key"
    /\ local' = [local EXCEPT ![p].key = key]
    /\ Goto(p, IF key # 0 THEN "load" ELSE IF store = Empty THEN "newkey" ELSE "unlock")
    /\ UNCHANGED <<files, op, kept, revoked, keys>>

WriteKey(p) ==
    /\ pc[p] = "newkey"
    /\ keys' = keys + 1
    /\ key' = keys'
    /\ local' = [local EXCEPT ![p].key = keys']
    /\ Goto(p, "load")
    /\ UNCHANGED <<lock, store, op, kept, revoked>>

\* Mutant of LoadStore: revoke does not look whether the secret is there.
LoadStoreUnchecked(p) ==
    /\ pc[p] = "load"
    /\ local' = [local EXCEPT ![p].store = store]
    /\ Goto(p, "save")
    /\ UNCHANGED <<files, op, kept, revoked, keys>>

\* loadStore; revoke of a secret that is not there returns false.
LoadStore(p) ==
    /\ pc[p] = "load"
    /\ local' = [local EXCEPT ![p].store = store]
    /\ Goto(p, IF op[p].kind = "revoke" /\ store[op[p].secret] = 0 THEN "unlock" ELSE "save")
    /\ UNCHANGED <<files, op, kept, revoked, keys>>

\* writeLocked: the whole store is written aside and renamed into place.
SaveStore(p) ==
    /\ pc[p] = "save"
    /\ store' = [local[p].store EXCEPT ![op[p].secret] =
                    IF op[p].kind = "put" THEN local[p].key ELSE 0]
    /\ op' = [op EXCEPT ![p].ok = TRUE]
    /\ Goto(p, "unlock")
    /\ UNCHANGED <<lock, key, local, kept, revoked, keys>>

\* fn throws anywhere, a full disk for one.
Throws(p) ==
    /\ pc[p] \in {"key", "newkey", "load", "save"}
    /\ Goto(p, "unlock")
    /\ UNCHANGED <<files, op, local, kept, revoked, keys>>

\* finally: the lock file is removed, and the operation returns.
Unlock(p) ==
    /\ pc[p] = "unlock"
    /\ lock' = "none"
    /\ kept' = IF op[p].ok /\ op[p].kind = "put" THEN kept \cup {op[p].secret} ELSE kept
    /\ revoked' = IF op[p].ok /\ op[p].kind = "revoke" THEN revoked \cup {op[p].secret} ELSE revoked
    /\ op' = [op EXCEPT ![p] = NoOp]
    /\ local' = [local EXCEPT ![p] = [store |-> Empty, key |-> 0]]
    /\ Goto(p, "idle")
    /\ UNCHANGED <<key, store, keys>>

Crashed == {p \in Procs : pc[p] = "crashed"}
Crash(p) ==
    /\ pc[p] \notin {"idle", "crashed"}
    /\ Cardinality(Crashed) < MaxCrashes
    /\ Goto(p, "crashed")
    /\ UNCHANGED <<files, op, local, kept, revoked, keys>>

Holding(p) == pc[p] \in {"key", "newkey", "load", "save", "unlock"}

\* Five seconds pass.
LockAges ==
    /\ lock = "fresh"
    /\ \A p \in Procs : ~Holding(p)
    /\ lock' = "stale"
    /\ UNCHANGED <<key, store, pc, op, local, kept, revoked, keys>>

Step(p) ==
    \/ OpenLock(p) \/ StatLock(p) \/ UnlinkStale(p) \/ ReopenLock(p)
    \/ ReadKey(p) \/ WriteKey(p) \/ LoadStore(p) \/ SaveStore(p) \/ Unlock(p)

Next ==
    \/ \E p \in Procs : Begin(p) \/ Step(p) \/ Throws(p) \/ Crash(p)
    \/ LockAges

Spec == Init /\ [][Next]_vars

\* Processes run, callers retry, and time passes.
Fairness == WF_vars(LockAges) /\ \A p \in Procs : WF_vars(Step(p))
FairSpec == Spec /\ Fairness
-----------------------------------------------------------------------------
\* The types, and mutual exclusion: one living process is inside at a time.
TypeOK ==
    /\ Cardinality({p \in Procs : Holding(p)}) <= 1
    /\ lock \in {"none", "fresh", "stale"}
    /\ key \in 0 .. keys
    /\ store \in [Secrets -> 0 .. keys]
    /\ \A p \in Procs :
          /\ pc[p] \in {"idle", "open", "stat", "unlink", "reopen", "key", "newkey",
                        "load", "save", "unlock", "crashed"}
          /\ op[p].kind \in {"none", "put", "revoke"}
          /\ op[p].secret \in Secrets \cup {"none"}
          /\ local[p].store \in [Secrets -> 0 .. keys]
          /\ local[p].key \in 0 .. keys
    /\ kept \subseteq Secrets /\ revoked \subseteq Secrets

\* The secrets some process may be removing from the store right now.
BeingRevoked == {op[p].secret : p \in {q \in Procs : op[q].kind = "revoke"}}

(***************************************************************************)
(* "Cross-process mutual exclusion so concurrent put/revoke can't lose     *)
(* writes or resurrect secrets" (vault.js:40): a secret whose putSecret    *)
(* returned is in the store, under the key the vault has now, until        *)
(* somebody revokes it; a revoked one never comes back.                    *)
(***************************************************************************)
NoLostSecret == \A s \in kept \ (revoked \cup BeingRevoked) : store[s] # 0 /\ store[s] = key
NoResurrection == \A s \in revoked : store[s] = 0
SecretsSafe == NoLostSecret /\ NoResurrection

\* A dead process does not lock the others out for ever: who waits for the
\* lock sees it free, or has given up.
LockFreed ==
    \A p \in Procs : pc[p] = "open" ~> lock = "none" \/ pc[p] \in {"idle", "crashed"}

\* Lock, key and store together are one atomic store of secrets: a put or a
\* revoke acts where the store is renamed into place, on the store as it is.
Readable == {s \in Secrets : store[s] # 0 /\ store[s] = key}
Atomic == INSTANCE SecretStore WITH
    Clients <- Procs, Ids <- Secrets, held <- Readable, call <- op
ImplementsSecretStore == Atomic!StoreSpec
=============================================================================
