---------------------------- MODULE VaultProofs ----------------------------
(***************************************************************************)
(* Proofs about Vault, for any number of secrets, and for any number of    *)
(* processes of which none dies, or for two processes whatever dies.       *)
(* Three processes of which one dies may lose a secret.                    *)
(***************************************************************************)
EXTENDS Vault, FiniteSetTheorems, TLAPS

\* Nobody dies, or there are at most two: a death leaves one process behind.
Lone == MaxCrashes = 0 \/ \E a, b : Procs \subseteq {a, b}

-----------------------------------------------------------------------------
(* The inductive invariant.                                                 *)

Labels == {"idle", "open", "stat", "unlink", "reopen", "key", "newkey", "load", "save",
           "unlock", "crashed"}
Ops == [kind : {"none", "put", "revoke"}, secret : Secrets \cup {"none"}, ok : BOOLEAN]
Stores == [Secrets -> Nat]
Locals == [store : Stores, key : Nat]

Typed ==
    /\ lock \in {"none", "fresh", "stale"}
    /\ pc \in [Procs -> Labels]
    /\ op \in [Procs -> Ops]
    /\ local \in [Procs -> Locals]
    /\ store \in Stores
    /\ kept \subseteq Secrets /\ revoked \subseteq Secrets
    /\ keys \in Nat /\ key \in 0 .. keys

\* No number of a key is above the last one.
Numbered ==
    /\ \A s \in Secrets : store[s] <= keys
    /\ \A p \in Procs : /\ local[p].key <= keys
                        /\ \A s \in Secrets : local[p].store[s] <= keys

\* One process is inside, and the lock file is its own: only the dead leave a
\* lock behind that others take over, and then one process is left to do so.
Locked ==
    /\ MaxCrashes = 0 => Crashed = {}
    /\ \A p, q \in Procs : Holding(p) /\ Holding(q) => p = q
    /\ \A p \in Procs : Holding(p) => lock = "fresh"
    /\ lock = "stale" => Crashed # {}
    /\ lock = "fresh" => Crashed # {} \/ \E p \in Procs : Holding(p)
    /\ \A p \in Procs : pc[p] = "unlink" => Crashed # {}

\* What an operation is at each of its steps, and what it has read.
Working ==
    \A p \in Procs :
        /\ pc[p] = "idle" => op[p] = NoOp
        /\ pc[p] # "idle" => op[p].kind # "none" /\ op[p].secret \in Secrets
        /\ op[p].ok => pc[p] \in {"unlock", "crashed"}
        /\ pc[p] \in {"key", "newkey"} => op[p].kind = "put"
        /\ pc[p] = "newkey" => key = 0 /\ store = Empty
        /\ pc[p] \in {"load", "save"} /\ op[p].kind = "put" => key # 0 /\ local[p].key = key
        /\ pc[p] = "save" => local[p].store = store

\* A secret is put once, and revoked only after that.
Handles ==
    /\ revoked \subseteq kept
    /\ \A p \in Procs :
          /\ op[p].kind = "put" => op[p].secret \notin kept
          /\ op[p].kind = "revoke" => op[p].secret \in kept
    /\ \A p, q \in Procs :
          op[p].kind = "put" /\ op[q].kind # "none" /\ op[q].secret = op[p].secret => p = q

\* The store is under the one key, and holds what was put and not revoked.
Stored ==
    /\ \A s \in Secrets : store[s] # 0 => store[s] = key
    /\ \A s \in kept \ revoked :
          \/ store[s] # 0
          \/ \E p \in Procs : op[p].kind = "revoke" /\ op[p].secret = s /\ op[p].ok
    /\ \A s \in revoked : store[s] = 0
    /\ \A p \in Procs : pc[p] = "unlock" /\ op[p].ok =>
          (store[op[p].secret] # 0 <=> op[p].kind = "put")

IInv == Typed /\ Numbered /\ Locked /\ Working /\ Handles /\ Stored

\* What is in the store was put by somebody, and a revoke saves only when the
\* secret is there.
Put(s) == \E p \in Procs : op[p].kind = "put" /\ op[p].secret = s /\ op[p].ok
Founded ==
    /\ \A s \in Secrets : store[s] # 0 => s \in kept \/ Put(s)
    /\ \A p \in Procs : pc[p] = "save" /\ op[p].kind = "revoke" => store[op[p].secret] # 0
-----------------------------------------------------------------------------
LEMMA InitIInv == ASSUME VaultAssumption PROVE Init => IInv
<1> SUFFICES ASSUME Init PROVE IInv
  OBVIOUS
<1>1. Typed /\ Numbered
  BY DEF Init, Typed, Numbered, Labels, Ops, Stores, Locals, NoOp, Empty
<1>2. Locked
  BY DEF Init, Locked, Holding, Crashed
<1>3. Working /\ Handles /\ Stored
  BY DEF Init, Working, Handles, Stored, NoOp, Empty
<1> QED
  BY <1>1, <1>2, <1>3 DEF IInv

\* What Begin asks for: a fresh id is put, a handle that was kept is revoked.
LEMMA BeginOp ==
  ASSUME Typed, NEW p \in Procs, Begin(p)
  PROVE  /\ op' \in [Procs -> Ops] /\ pc' = [pc EXCEPT ![p] = "open"]
         /\ op'[p].kind \in {"put", "revoke"} /\ op'[p].secret \in Secrets /\ ~op'[p].ok
         /\ \A q \in Procs : q # p => op'[q] = op[q]
         /\ op'[p].kind = "put" =>
               /\ \A q \in Procs : op[q].secret # op'[p].secret
               /\ op'[p].secret \notin kept \cup revoked
         /\ op'[p].kind = "revoke" => op'[p].secret \in kept
<1>1. PICK s \in Secrets, k \in {"put", "revoke"} :
         /\ op' = [op EXCEPT ![p] = [kind |-> k, secret |-> s, ok |-> FALSE]]
         /\ k = "put" => (\A q \in Procs : op[q].secret # s) /\ s \notin kept \cup revoked
         /\ k = "revoke" => s \in kept
  BY DEF Begin
<1>2. op' \in [Procs -> Ops]
  BY <1>1 DEF Typed, Ops
<1>3. op'[p] = [kind |-> k, secret |-> s, ok |-> FALSE]
  BY <1>1 DEF Typed
<1>4. \A q \in Procs : q # p => op'[q] = op[q]
  BY <1>1 DEF Typed
<1> QED
  BY <1>1, <1>2, <1>3, <1>4 DEF Begin, Goto

\* What Unlock leaves of its operation: nothing.
LEMMA UnlockOp ==
  ASSUME Typed, NEW p \in Procs, Unlock(p)
  PROVE  /\ op' \in [Procs -> Ops] /\ local' \in [Procs -> Locals]
         /\ op'[p] = NoOp
         /\ \A q \in Procs : q # p => op'[q] = op[q] /\ local'[q] = local[q]
<1>1. NoOp \in Ops /\ [store |-> Empty, key |-> 0] \in Locals
  BY DEF NoOp, Ops, Locals, Stores, Empty
<1> QED
  BY <1>1 DEF Unlock, Typed

\* Once somebody died, one process at most is left.
LEMMA Survivor ==
  ASSUME Lone, Locked, Crashed # {}, NEW p \in Procs \ Crashed, NEW q \in Procs \ Crashed
  PROVE  p = q
  BY DEF Lone, Locked, Crashed

LEMMA NextTyped ==
  ASSUME VaultAssumption, Typed, Working, [Next]_vars
  PROVE  Typed'
<1>1. ASSUME NEW p \in Procs, Begin(p) PROVE Typed'
  BY <1>1, BeginOp DEF Begin, files, Typed, Labels
<1>2. ASSUME NEW p \in Procs, OpenLock(p) PROVE Typed'
  BY <1>2 DEF OpenLock, Goto, Inside, Typed, Labels
<1>3. ASSUME NEW p \in Procs, StatLock(p) PROVE Typed'
  BY <1>3 DEF StatLock, files, Goto, Typed, Labels
<1>4. ASSUME NEW p \in Procs, UnlinkStale(p) PROVE Typed'
  BY <1>4 DEF UnlinkStale, Goto, Typed, Labels
<1>5. ASSUME NEW p \in Procs, ReopenLock(p) PROVE Typed'
  BY <1>5 DEF ReopenLock, Goto, Inside, Typed, Labels
<1>6. ASSUME NEW p \in Procs, ReadKey(p) PROVE Typed'
  BY <1>6 DEF ReadKey, files, Goto, Typed, Labels, Locals
<1>7. ASSUME NEW p \in Procs, WriteKey(p) PROVE Typed'
  BY <1>7 DEF WriteKey, Goto, Typed, Labels, Locals
<1>8. ASSUME NEW p \in Procs, LoadStore(p) PROVE Typed'
  BY <1>8 DEF LoadStore, files, Goto, Typed, Labels, Locals
<1>9. ASSUME NEW p \in Procs, SaveStore(p) PROVE Typed'
  BY <1>9 DEF SaveStore, Goto, Typed, Labels, Ops, Locals, Stores
<1>10. ASSUME NEW p \in Procs, Unlock(p) PROVE Typed'
  <2>1. kept' \subseteq Secrets /\ revoked' \subseteq Secrets
    BY <1>10 DEF Unlock, Typed, Working
  <2> QED
    BY <1>10, <2>1, UnlockOp DEF Unlock, Goto, Typed, Labels
<1>11. ASSUME NEW p \in Procs, Throws(p) PROVE Typed'
  BY <1>11 DEF Throws, files, Goto, Typed, Labels
<1>12. ASSUME NEW p \in Procs, Crash(p) PROVE Typed'
  BY <1>12 DEF Crash, files, Goto, Typed, Labels
<1>13. CASE LockAges
  BY <1>13 DEF LockAges, Typed, Labels
<1>14. CASE UNCHANGED vars
  BY <1>14 DEF vars, files, Typed
<1> QED
  BY <1>1, <1>2, <1>3, <1>4, <1>5, <1>6, <1>7, <1>8, <1>9, <1>10, <1>11, <1>12,
     <1>13, <1>14 DEF Next, Step

LEMMA NextNumbered ==
  ASSUME VaultAssumption, Typed, Numbered, [Next]_vars
  PROVE  Numbered'
<1>1. ASSUME NEW p \in Procs, Begin(p) PROVE Numbered'
  BY <1>1 DEF Begin, files, Numbered
<1>2. ASSUME NEW p \in Procs, OpenLock(p) PROVE Numbered'
  BY <1>2 DEF OpenLock, Numbered
<1>3. ASSUME NEW p \in Procs, StatLock(p) PROVE Numbered'
  BY <1>3 DEF StatLock, files, Numbered
<1>4. ASSUME NEW p \in Procs, UnlinkStale(p) PROVE Numbered'
  BY <1>4 DEF UnlinkStale, Numbered
<1>5. ASSUME NEW p \in Procs, ReopenLock(p) PROVE Numbered'
  BY <1>5 DEF ReopenLock, Numbered
<1>6. ASSUME NEW p \in Procs, ReadKey(p) PROVE Numbered'
  BY <1>6 DEF ReadKey, files, Goto, Typed, Numbered, Locals
<1>7. ASSUME NEW p \in Procs, WriteKey(p) PROVE Numbered'
  BY <1>7 DEF WriteKey, Goto, Typed, Numbered, Locals, Stores
<1>8. ASSUME NEW p \in Procs, LoadStore(p) PROVE Numbered'
  BY <1>8 DEF LoadStore, files, Goto, Typed, Numbered, Locals
<1>9. ASSUME NEW p \in Procs, SaveStore(p) PROVE Numbered'
  BY <1>9 DEF SaveStore, Goto, Typed, Numbered, Locals, Stores
<1>10. ASSUME NEW p \in Procs, Unlock(p) PROVE Numbered'
  BY <1>10 DEF Unlock, Goto, Typed, Numbered, Empty
<1>11. ASSUME NEW p \in Procs, Throws(p) PROVE Numbered'
  BY <1>11 DEF Throws, files, Numbered
<1>12. ASSUME NEW p \in Procs, Crash(p) PROVE Numbered'
  BY <1>12 DEF Crash, files, Numbered
<1>13. CASE LockAges
  BY <1>13 DEF LockAges, Numbered
<1>14. CASE UNCHANGED vars
  BY <1>14 DEF vars, files, Typed, Numbered
<1> QED
  BY <1>1, <1>2, <1>3, <1>4, <1>5, <1>6, <1>7, <1>8, <1>9, <1>10, <1>11, <1>12,
     <1>13, <1>14 DEF Next, Step

LEMMA NextLocked ==
  ASSUME VaultAssumption, Lone, Typed, Locked, [Next]_vars
  PROVE  Locked'
<1>1. ASSUME NEW p \in Procs, Begin(p) PROVE Locked'
  BY <1>1 DEF Begin, files, Goto, Typed, Locked, Holding, Crashed
<1>2. ASSUME NEW p \in Procs, OpenLock(p) PROVE Locked'
  BY <1>2 DEF OpenLock, Goto, Inside, Typed, Locked, Holding, Crashed
<1>3. ASSUME NEW p \in Procs, StatLock(p) PROVE Locked'
  BY <1>3 DEF StatLock, files, Goto, Typed, Locked, Holding, Crashed
<1>4. ASSUME NEW p \in Procs, UnlinkStale(p) PROVE Locked'
  <2>1. \A q \in Procs : ~Holding(q)
    BY <1>4, Survivor DEF UnlinkStale, Locked, Holding, Crashed
  <2>2. Crashed' = Crashed /\ Crashed # {}
    BY <1>4 DEF UnlinkStale, Goto, Typed, Locked, Crashed
  <2>3. \A q \in Procs : ~Holding(q)'
    BY <1>4, <2>1 DEF UnlinkStale, Goto, Typed, Holding
  <2> QED
    BY <1>4, <2>2, <2>3 DEF UnlinkStale, Locked
<1>5. ASSUME NEW p \in Procs, ReopenLock(p) PROVE Locked'
  BY <1>5 DEF ReopenLock, Goto, Inside, Typed, Locked, Holding, Crashed
<1>6. ASSUME NEW p \in Procs, ReadKey(p) PROVE Locked'
  BY <1>6 DEF ReadKey, files, Goto, Typed, Locked, Holding, Crashed
<1>7. ASSUME NEW p \in Procs, WriteKey(p) PROVE Locked'
  BY <1>7 DEF WriteKey, Goto, Typed, Locked, Holding, Crashed
<1>8. ASSUME NEW p \in Procs, LoadStore(p) PROVE Locked'
  BY <1>8 DEF LoadStore, files, Goto, Typed, Locked, Holding, Crashed
<1>9. ASSUME NEW p \in Procs, SaveStore(p) PROVE Locked'
  BY <1>9 DEF SaveStore, Goto, Typed, Locked, Holding, Crashed
<1>10. ASSUME NEW p \in Procs, Unlock(p) PROVE Locked'
  BY <1>10 DEF Unlock, Goto, Typed, Locked, Holding, Crashed
<1>11. ASSUME NEW p \in Procs, Throws(p) PROVE Locked'
  BY <1>11 DEF Throws, files, Goto, Typed, Locked, Holding, Crashed
<1>12. ASSUME NEW p \in Procs, Crash(p) PROVE Locked'
  <2>1. Crashed' # {} /\ MaxCrashes # 0
    BY <1>12, FS_EmptySet DEF Crash, Goto, Typed, Locked, Crashed
  <2>2. \A q \in Procs : Holding(q)' => Holding(q)
    BY <1>12 DEF Crash, Goto, Typed, Holding
  <2> QED
    BY <1>12, <2>1, <2>2 DEF Crash, files, Locked
<1>13. CASE LockAges
  BY <1>13 DEF LockAges, Typed, Locked, Holding, Crashed
<1>14. CASE UNCHANGED vars
  BY <1>14 DEF vars, files, Typed, Locked, Holding, Crashed
<1> QED
  BY <1>1, <1>2, <1>3, <1>4, <1>5, <1>6, <1>7, <1>8, <1>9, <1>10, <1>11, <1>12,
     <1>13, <1>14 DEF Next, Step

LEMMA NextWorking ==
  ASSUME VaultAssumption, Typed, Locked, Working, Stored, [Next]_vars
  PROVE  Working'
<1>1. ASSUME NEW p \in Procs, Begin(p) PROVE Working'
  BY <1>1, BeginOp DEF Begin, files, Typed, Working
<1>2. ASSUME NEW p \in Procs, OpenLock(p) PROVE Working'
  BY <1>2 DEF OpenLock, Goto, Inside, Typed, Locked, Holding, Working
<1>3. ASSUME NEW p \in Procs, StatLock(p) PROVE Working'
  BY <1>3 DEF StatLock, files, Goto, Typed, Locked, Holding, Working
<1>4. ASSUME NEW p \in Procs, UnlinkStale(p) PROVE Working'
  BY <1>4 DEF UnlinkStale, Goto, Typed, Locked, Holding, Working
<1>5. ASSUME NEW p \in Procs, ReopenLock(p) PROVE Working'
  BY <1>5 DEF ReopenLock, Goto, Inside, Typed, Locked, Holding, Working
<1>6. ASSUME NEW p \in Procs, ReadKey(p) PROVE Working'
  BY <1>6 DEF ReadKey, files, Goto, Typed, Locked, Holding, Working, Locals
<1>7. ASSUME NEW p \in Procs, WriteKey(p) PROVE Working'
  BY <1>7 DEF WriteKey, Goto, Typed, Locked, Holding, Working, Ops, Locals, Stores
<1>8. ASSUME NEW p \in Procs, LoadStore(p) PROVE Working'
  BY <1>8 DEF LoadStore, files, Goto, Typed, Locked, Holding, Working, Locals
<1>9. ASSUME NEW p \in Procs, SaveStore(p) PROVE Working'
  BY <1>9 DEF SaveStore, Goto, Typed, Locked, Holding, Working, Ops, Stored
<1>10. ASSUME NEW p \in Procs, Unlock(p) PROVE Working'
  BY <1>10, UnlockOp DEF Unlock, Goto, Typed, Working, NoOp
<1>11. ASSUME NEW p \in Procs, Throws(p) PROVE Working'
  BY <1>11 DEF Throws, files, Goto, Typed, Locked, Holding, Working
<1>12. ASSUME NEW p \in Procs, Crash(p) PROVE Working'
  BY <1>12 DEF Crash, files, Goto, Typed, Locked, Holding, Working
<1>13. CASE LockAges
  BY <1>13 DEF LockAges, Typed, Locked, Holding, Working
<1>14. CASE UNCHANGED vars
  BY <1>14 DEF vars, files, Typed, Locked, Holding, Working
<1> QED
  BY <1>1, <1>2, <1>3, <1>4, <1>5, <1>6, <1>7, <1>8, <1>9, <1>10, <1>11, <1>12,
     <1>13, <1>14 DEF Next, Step

LEMMA NextHandles ==
  ASSUME VaultAssumption, Typed, Working, Handles, [Next]_vars
  PROVE  Handles'
<1>1. ASSUME NEW p \in Procs, Begin(p) PROVE Handles'
  <2>1. kept' = kept /\ revoked' = revoked
    BY <1>1 DEF Begin
  <2>2. \A q \in Procs : op'[q].kind = "put" => op'[q].secret \notin kept'
    BY <1>1, <2>1, BeginOp DEF Handles
  <2>3. \A q \in Procs : op'[q].kind = "revoke" => op'[q].secret \in kept'
    BY <1>1, <2>1, BeginOp DEF Handles
  <2>4. \A q, r \in Procs :
           op'[q].kind = "put" /\ op'[r].kind # "none" /\ op'[r].secret = op'[q].secret
              => q = r
    BY <1>1, BeginOp DEF Begin, Working, Handles, NoOp
  <2>5. revoked' \subseteq kept'
    BY <2>1 DEF Handles
  <2> QED
    BY <2>2, <2>3, <2>4, <2>5 DEF Handles
<1>2. ASSUME NEW p \in Procs, OpenLock(p) PROVE Handles'
  BY <1>2 DEF OpenLock, Handles
<1>3. ASSUME NEW p \in Procs, StatLock(p) PROVE Handles'
  BY <1>3 DEF StatLock, Handles
<1>4. ASSUME NEW p \in Procs, UnlinkStale(p) PROVE Handles'
  BY <1>4 DEF UnlinkStale, Handles
<1>5. ASSUME NEW p \in Procs, ReopenLock(p) PROVE Handles'
  BY <1>5 DEF ReopenLock, Handles
<1>6. ASSUME NEW p \in Procs, ReadKey(p) PROVE Handles'
  BY <1>6 DEF ReadKey, Handles
<1>7. ASSUME NEW p \in Procs, WriteKey(p) PROVE Handles'
  BY <1>7 DEF WriteKey, Handles
<1>8. ASSUME NEW p \in Procs, LoadStore(p) PROVE Handles'
  BY <1>8 DEF LoadStore, Handles
<1>9. ASSUME NEW p \in Procs, SaveStore(p) PROVE Handles'
  BY <1>9 DEF SaveStore, Goto, Typed, Working, Handles, Ops
<1>10. ASSUME NEW p \in Procs, Unlock(p) PROVE Handles'
  <2>1. op[p].kind # "none" /\ op[p].secret \in Secrets
    BY <1>10 DEF Unlock, Working
  <2>2. op'[p].kind = "none" /\ op'[p].secret = "none"
    BY <1>10, UnlockOp DEF NoOp
  <2>3. \A q \in Procs : q # p => op'[q] = op[q]
    BY <1>10, UnlockOp
  <2>4. /\ kept \subseteq kept' /\ kept' \subseteq kept \cup {op[p].secret}
        /\ op[p].kind # "put" => kept' = kept
        /\ revoked' \subseteq kept'
    BY <1>10, <2>1 DEF Unlock, Handles
  <2>5. \A q \in Procs : op'[q].kind = "put" => op'[q].secret \notin kept'
    BY <2>2, <2>3, <2>4 DEF Handles
  <2>6. \A q \in Procs : op'[q].kind = "revoke" => op'[q].secret \in kept'
    BY <2>2, <2>3, <2>4 DEF Handles
  <2>7. \A q, r \in Procs :
           op'[q].kind = "put" /\ op'[r].kind # "none" /\ op'[r].secret = op'[q].secret
              => q = r
    BY <2>2, <2>3 DEF Handles
  <2> QED
    BY <2>4, <2>5, <2>6, <2>7 DEF Handles
<1>11. ASSUME NEW p \in Procs, Throws(p) PROVE Handles'
  BY <1>11 DEF Throws, Handles
<1>12. ASSUME NEW p \in Procs, Crash(p) PROVE Handles'
  BY <1>12 DEF Crash, Handles
<1>13. CASE LockAges
  BY <1>13 DEF LockAges, Handles
<1>14. CASE UNCHANGED vars
  BY <1>14 DEF vars, files, Typed, Working, Handles
<1> QED
  BY <1>1, <1>2, <1>3, <1>4, <1>5, <1>6, <1>7, <1>8, <1>9, <1>10, <1>11, <1>12,
     <1>13, <1>14 DEF Next, Step

LEMMA NextStored ==
  ASSUME VaultAssumption, Typed, Locked, Working, Handles, Stored, [Next]_vars
  PROVE  Stored'
<1>1. ASSUME NEW p \in Procs, Begin(p) PROVE Stored'
  <2>1. ASSUME NEW q \in Procs, op[q].ok PROVE op'[q] = op[q] /\ q # p
    BY <1>1, <2>1, BeginOp DEF Begin, Working
  <2>2. /\ pc'[p] = "open" /\ \A q \in Procs : q # p => pc'[q] = pc[q] /\ op'[q] = op[q]
        /\ store' = store /\ key' = key /\ kept' = kept /\ revoked' = revoked
    BY <1>1, BeginOp DEF Begin, files, Typed
  <2> QED
    BY <2>1, <2>2 DEF Stored
<1>2. ASSUME NEW p \in Procs, OpenLock(p) PROVE Stored'
  BY <1>2 DEF OpenLock, Goto, Inside, Typed, Locked, Holding, Working, Handles, Stored
<1>3. ASSUME NEW p \in Procs, StatLock(p) PROVE Stored'
  BY <1>3 DEF StatLock, files, Goto, Typed, Locked, Holding, Working, Handles, Stored
<1>4. ASSUME NEW p \in Procs, UnlinkStale(p) PROVE Stored'
  BY <1>4 DEF UnlinkStale, Goto, Typed, Locked, Holding, Working, Handles, Stored
<1>5. ASSUME NEW p \in Procs, ReopenLock(p) PROVE Stored'
  BY <1>5 DEF ReopenLock, Goto, Inside, Typed, Locked, Holding, Working, Handles, Stored
<1>6. ASSUME NEW p \in Procs, ReadKey(p) PROVE Stored'
  BY <1>6 DEF ReadKey, files, Goto, Typed, Locked, Holding, Working, Handles, Stored
<1>7. ASSUME NEW p \in Procs, WriteKey(p) PROVE Stored'
  BY <1>7 DEF WriteKey, Goto, Typed, Locked, Holding, Working, Handles, Stored, Ops,
     Locals, Stores, Empty
<1>8. ASSUME NEW p \in Procs, LoadStore(p) PROVE Stored'
  BY <1>8 DEF LoadStore, files, Goto, Typed, Locked, Holding, Working, Handles, Stored,
     Ops
<1>9. ASSUME NEW p \in Procs, SaveStore(p) PROVE Stored'
  BY <1>9 DEF SaveStore, Goto, Typed, Locked, Holding, Working, Handles, Stored, Ops,
     Locals, Stores
<1>10. ASSUME NEW p \in Procs, Unlock(p) PROVE Stored'
  BY <1>10 DEF Unlock, Goto, Typed, Locked, Holding, Working, Handles, Stored, Ops, NoOp
<1>11. ASSUME NEW p \in Procs, Throws(p) PROVE Stored'
  BY <1>11 DEF Throws, files, Goto, Typed, Locked, Holding, Working, Handles, Stored
<1>12. ASSUME NEW p \in Procs, Crash(p) PROVE Stored'
  BY <1>12 DEF Crash, files, Goto, Typed, Locked, Holding, Working, Handles, Stored
<1>13. CASE LockAges
  BY <1>13 DEF LockAges, Typed, Locked, Holding, Working, Handles, Stored
<1>14. CASE UNCHANGED vars
  BY <1>14 DEF vars, files, Typed, Locked, Holding, Working, Handles, Stored
<1> QED
  BY <1>1, <1>2, <1>3, <1>4, <1>5, <1>6, <1>7, <1>8, <1>9, <1>10, <1>11, <1>12,
     <1>13, <1>14 DEF Next, Step

LEMMA NextIInv == ASSUME VaultAssumption, Lone, IInv, [Next]_vars PROVE IInv'
  BY NextTyped, NextNumbered, NextLocked, NextWorking, NextHandles, NextStored DEF IInv

LEMMA Inductive == ASSUME VaultAssumption, Lone PROVE Spec => []IInv
<1>1. Init => IInv
  BY InitIInv
<1>2. IInv /\ [Next]_vars => IInv'
  BY NextIInv
<1> QED
  BY <1>1, <1>2, PTL DEF Spec

-----------------------------------------------------------------------------
(* What the vault promises.                                                 *)

\* The types, and mutual exclusion: one living process is inside at a time
\* (TypeOK; withLock of vault.js).
THEOREM TypeCorrect == ASSUME VaultAssumption, Lone PROVE Spec => []TypeOK
<1>1. ASSUME IInv PROVE TypeOK
  <2> DEFINE Inside1 == {p \in Procs : Holding(p)}
  <2>1. Cardinality(Inside1) <= 1
    <3>1. CASE Inside1 = {}
      BY <3>1, FS_EmptySet
    <3>2. CASE Inside1 # {}
      <4>1. PICK p \in Procs : Holding(p)
        BY <3>2
      <4>2. Inside1 = {p}
        BY <1>1, <4>1 DEF IInv, Locked
      <4> QED
        BY <4>2, FS_Singleton
    <3> QED
      BY <3>1, <3>2
  <2>2. store \in [Secrets -> 0 .. keys]
    BY <1>1 DEF IInv, Typed, Numbered, Stores
  <2>3. ASSUME NEW p \in Procs
        PROVE  /\ pc[p] \in Labels /\ op[p] \in Ops
               /\ local[p].store \in [Secrets -> 0 .. keys] /\ local[p].key \in 0 .. keys
    BY <1>1 DEF IInv, Typed, Numbered, Locals, Stores
  <2> QED
    BY <1>1, <2>1, <2>2, <2>3 DEF TypeOK, IInv, Typed, Labels, Ops
<1> QED
  BY <1>1, Inductive, PTL

\* A secret whose putSecret returned stays, under the key the vault has now,
\* until somebody revokes it, and a revoked one never comes back (SecretsSafe;
\* vault.js:40).
THEOREM SecretsSafeCorrect == ASSUME VaultAssumption, Lone PROVE Spec => []SecretsSafe
<1>1. ASSUME IInv PROVE SecretsSafe
  <2>1. ASSUME NEW s \in kept \ (revoked \cup BeingRevoked)
        PROVE  store[s] # 0 /\ store[s] = key
    BY <1>1 DEF IInv, Typed, Stored, BeingRevoked
  <2> QED
    BY <1>1, <2>1 DEF IInv, Stored, SecretsSafe, NoLostSecret, NoResurrection
<1> QED
  BY <1>1, Inductive, PTL
-----------------------------------------------------------------------------
(* The lock, the key and the store implement one atomic store.              *)

LEMMA InitFounded == ASSUME Init PROVE Founded
  BY DEF Init, Founded, Empty

LEMMA NextFounded ==
  ASSUME IInv, Founded, [Next]_vars
  PROVE  Founded'
<1> USE DEF IInv
<1>1. ASSUME NEW p \in Procs, Begin(p) PROVE Founded'
  <2>1. /\ store' = store /\ kept' = kept
        /\ pc'[p] = "open" /\ \A q \in Procs : q # p => pc'[q] = pc[q] /\ op'[q] = op[q]
    BY <1>1, BeginOp DEF Begin, files, Typed
  <2>2. op[p] = NoOp
    BY <1>1 DEF Begin, Working
  <2>3. \A s \in Secrets : Put(s) => Put(s)'
    BY <2>1, <2>2 DEF Put, NoOp
  <2> QED
    BY <2>1, <2>3 DEF Founded
<1>2. ASSUME NEW p \in Procs,
             OpenLock(p) \/ StatLock(p) \/ UnlinkStale(p) \/ ReopenLock(p) \/ ReadKey(p)
             \/ WriteKey(p) \/ Throws(p) \/ Crash(p) \/ LockAges
      PROVE  Founded'
  <2>1. /\ store' = store /\ kept' = kept /\ op' = op
        /\ \A q \in Procs : pc'[q] = "save" => pc[q] = "save"
    BY <1>2 DEF OpenLock, StatLock, UnlinkStale, ReopenLock, ReadKey, WriteKey, Throws,
                Crash, LockAges, Goto, Inside, files, Typed
  <2> QED
    BY <2>1 DEF Founded, Put
<1>3. ASSUME NEW p \in Procs, LoadStore(p) PROVE Founded'
  BY <1>3 DEF LoadStore, files, Goto, Typed, Founded, Put
<1>4. ASSUME NEW p \in Procs, SaveStore(p) PROVE Founded'
  <2>1. /\ kept' = kept /\ op'[p] = [op[p] EXCEPT !.ok = TRUE]
        /\ \A q \in Procs : q # p => op'[q] = op[q]
        /\ \A q \in Procs : pc'[q] # "save"
    BY <1>4 DEF SaveStore, Goto, Typed, Locked, Holding
  <2>2. \A s \in Secrets : s # op[p].secret => store'[s] = store[s]
    BY <1>4 DEF SaveStore, Typed, Working, Stores
  <2>3. op[p].kind # "put" => store'[op[p].secret] = 0
    BY <1>4 DEF SaveStore, Typed, Working, Stores
  <2>4. op[p].kind = "put" => Put(op[p].secret)'
    BY <2>1 DEF Typed, Ops, Put
  <2>5. \A s \in Secrets : Put(s) => Put(s)'
    BY <2>1 DEF Typed, Ops, Put
  <2> QED
    BY <2>1, <2>2, <2>3, <2>4, <2>5 DEF Founded
<1>5. ASSUME NEW p \in Procs, Unlock(p) PROVE Founded'
  <2>1. /\ store' = store /\ \A q \in Procs : q # p => op'[q] = op[q]
        /\ \A q \in Procs : pc'[q] = "save" => pc[q] = "save" /\ op'[q] = op[q]
    BY <1>5, UnlockOp DEF Unlock, Goto, Typed
  <2>2. \A s \in Secrets : s \in kept \/ Put(s) => s \in kept' \/ Put(s)'
    BY <1>5, <2>1 DEF Unlock, Put
  <2> QED
    BY <2>1, <2>2 DEF Founded
<1>6. CASE LockAges
  BY <1>6 DEF LockAges, Founded, Put
<1>7. CASE UNCHANGED vars
  BY <1>7 DEF vars, files, Founded, Put
<1> QED
  BY <1>1, <1>2, <1>3, <1>4, <1>5, <1>6, <1>7 DEF Next, Step

\* There is one key: what is in the store can be read.
LEMMA AllReadable == ASSUME IInv PROVE Readable = {s \in Secrets : store[s] # 0}
  BY DEF IInv, Stored, Readable

LEMMA AllReadableNext ==
  ASSUME IInv' PROVE Readable' = {s \in Secrets : store'[s] # 0}
  BY DEF IInv, Stored, Readable

\* What is written at "save" is the store with one secret more, or one less:
\* the put is of a new secret, the revoke of one that is there.
LEMMA SaveActs ==
  ASSUME IInv, IInv', Founded, NEW p \in Procs, SaveStore(p)
  PROVE  Atomic!Put(p) \/ Atomic!Revoke(p)
<1> DEFINE s == op[p].secret
<1>1. /\ pc[p] = "save" /\ ~op[p].ok /\ s \in Secrets
      /\ op[p].kind \in {"put", "revoke"}
      /\ store' = [store EXCEPT ![s] = IF op[p].kind = "put" THEN local[p].key ELSE 0]
      /\ op' = [op EXCEPT ![p].ok = TRUE]
  BY DEF IInv, SaveStore, Working, Typed, Ops
<1>2. store \in [Secrets -> Nat]
  BY DEF IInv, Typed, Stores
<1>3. CASE op[p].kind = "put"
  <2>1. key # 0 /\ local[p].key = key
    BY <1>1, <1>3 DEF IInv, Working
  <2>2. s \notin kept /\ ~Put(s)
    BY <1>1, <1>3 DEF IInv, Handles, Put
  <2>3. store[s] = 0
    BY <1>1, <2>2 DEF Founded
  <2>4. Readable' = Readable \cup {s}
    BY <1>1, <1>2, <1>3, <2>1, AllReadable, AllReadableNext
  <2>5. s \notin Readable
    BY <2>3 DEF Readable
  <2> QED
    BY <1>1, <1>3, <2>4, <2>5 DEF Atomic!Put, Atomic!Waiting
<1>4. CASE op[p].kind = "revoke"
  <2>1. store[s] # 0
    BY <1>1, <1>4 DEF Founded
  <2>2. Readable' = Readable \ {s}
    BY <1>1, <1>2, <1>4, AllReadable, AllReadableNext
  <2>3. s \in Readable
    BY <1>1, <2>1, AllReadable
  <2> QED
    BY <1>1, <1>4, <2>2, <2>3 DEF Atomic!Revoke, Atomic!Waiting
<1> QED
  BY <1>1, <1>3, <1>4

LEMMA StepRefines ==
  ASSUME IInv, IInv', Founded, [Next]_vars
  PROVE  [Atomic!StoreNext]_(Atomic!secretVars)
<1>1. ASSUME NEW p \in Procs, Begin(p) PROVE Atomic!Call(p)
  <2>1. op[p] = Atomic!NoCall
    BY <1>1 DEF Begin, IInv, Working, NoOp, Atomic!NoCall
  <2>2. Readable' = Readable
    BY <1>1 DEF Begin, files, Readable
  <2>3. \E s \in Secrets, kind \in {"put", "revoke"} :
           op' = [op EXCEPT ![p] = [kind |-> kind, secret |-> s, ok |-> FALSE]]
    BY <1>1 DEF Begin
  <2> QED
    BY <2>1, <2>2, <2>3 DEF Atomic!Call
<1>2. ASSUME NEW p \in Procs, SaveStore(p) PROVE Atomic!Put(p) \/ Atomic!Revoke(p)
  BY <1>2, SaveActs
<1>3. ASSUME NEW p \in Procs, Unlock(p) PROVE Atomic!Return(p)
  <2>1. op[p] # Atomic!NoCall
    BY <1>3 DEF Unlock, IInv, Working, Atomic!NoCall
  <2>2. Readable' = Readable
    BY <1>3 DEF Unlock, Readable
  <2>3. op' = [op EXCEPT ![p] = Atomic!NoCall]
    BY <1>3 DEF Unlock, NoOp, Atomic!NoCall
  <2> QED
    BY <2>1, <2>2, <2>3 DEF Atomic!Return
<1>4. ASSUME NEW p \in Procs, WriteKey(p) PROVE UNCHANGED <<Readable, op>>
  <2>1. store = Empty /\ store' = store /\ op' = op
    BY <1>4 DEF WriteKey, IInv, Working
  <2>2. \A s \in Secrets : store[s] = 0
    BY <2>1 DEF Empty
  <2> QED
    BY <2>1, <2>2 DEF Readable
<1>5. ASSUME NEW p \in Procs,
             OpenLock(p) \/ StatLock(p) \/ UnlinkStale(p) \/ ReopenLock(p) \/ ReadKey(p)
             \/ LoadStore(p) \/ Throws(p) \/ Crash(p)
      PROVE  UNCHANGED <<Readable, op>>
  BY <1>5 DEF OpenLock, StatLock, UnlinkStale, ReopenLock, ReadKey, LoadStore, Throws,
              Crash, files, Readable
<1>6. CASE LockAges
  BY <1>6 DEF LockAges, Readable, Atomic!secretVars
<1>7. CASE UNCHANGED vars
  BY <1>7 DEF vars, files, Readable, Atomic!secretVars
<1> QED
  BY <1>1, <1>2, <1>3, <1>4, <1>5, <1>6, <1>7
     DEF Next, Step, Atomic!StoreNext, Atomic!secretVars

(***************************************************************************)
(* "Can't lose writes or resurrect secrets" (vault.js:40), all of it: for  *)
(* any number of secrets, the processes with their lock file, key file and *)
(* store are one atomic store.  A put or a revoke acts at one instant      *)
(* between its call and its return, on the store as it then is, or not at  *)
(* all, and only one of two revokes is told that it removed the secret     *)
(* (ImplementsSecretStore).                                                *)
(***************************************************************************)
THEOREM RefinementCorrect ==
  ASSUME VaultAssumption, Lone PROVE Spec => ImplementsSecretStore
<1>1. Init => Atomic!StoreInit
  BY DEF Init, Atomic!StoreInit, Atomic!NoCall, NoOp, Readable, Empty
<1>2. Init => Founded
  BY InitFounded
<1>3. IInv /\ Founded /\ [Next]_vars => Founded'
  BY NextFounded
<1>4. IInv /\ IInv' /\ Founded /\ [Next]_vars => [Atomic!StoreNext]_(Atomic!secretVars)
  BY StepRefines
<1> QED
  BY <1>1, <1>2, <1>3, <1>4, Inductive, PTL
     DEF Spec, ImplementsSecretStore, Atomic!StoreSpec
=============================================================================
