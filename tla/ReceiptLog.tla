----------------------------- MODULE ReceiptLog -----------------------------
(***************************************************************************)
(* The signed receipt log (packages/stratos-agent/src/ledger/              *)
(* capability-receipt.js): an append-only hash chain of receipts in a      *)
(* JSONL file that is rotated by size into segments.                       *)
(*                                                                         *)
(* Logs are the ReceiptLog objects one process has open on the same path:  *)
(* the operating tap's (operating-tap.js), the terminal recorder's         *)
(* (terminal-sessions.js), the continuity recorder's                       *)
(* (continuity-receipt.js).  Each keeps its own head of the chain.  append *)
(* is synchronous, so those objects never interleave inside it, but any of *)
(* its file operations may throw, and the process may die between two.     *)
(*                                                                         *)
(* A receipt is its hash, a number never used twice, and the hash it       *)
(* chains onto.  Content, signatures and the byte length of a line are     *)
(* left out: a file is over the threshold when it has more than MaxLines   *)
(* lines.  Rotations of one path happen at different milliseconds, so      *)
(* segments sort in the order they were made.                              *)
(***************************************************************************)
EXTENDS Integers, Sequences, FiniteSets

CONSTANTS
    Logs,         (* the ReceiptLog objects of the process                  *)
    MaxLines,     (* rotateMaxBytes, in lines                               *)
    MaxReceipts,  (* bound on the receipts minted                           *)
    MaxFaults     (* bound on the errors and crashes                        *)

ASSUME ReceiptAssumption ==
    /\ MaxLines \in Nat \ {0}
    /\ MaxReceipts \in Nat
    /\ MaxFaults \in Nat

VARIABLES
    log,       (* the ReceiptLog objects                                    *)
    segments,  (* the archived segments, oldest first                       *)
    active,    (* the active file                                           *)
    minted,    (* hashes taken so far, kept or not                          *)
    acked,     (* the receipts append returned to its caller                *)
    faults,    (* errors and crashes so far                                 *)
    torn       (* the faults that hit between the rename and the control line *)

vars == <<log, segments, active, minted, acked, faults, torn>>

GENESIS == 0

(***************************************************************************)
(* A file is its control line's _prev_head ("none" without one) and its    *)
(* receipts.  exists is FALSE for the path between rename and write.       *)
(***************************************************************************)
NoFile == [exists |-> FALSE, control |-> FALSE, anchor |-> GENESIS, lines |-> <<>>]
File(control, anchor, lines) ==
    [exists |-> TRUE, control |-> control, anchor |-> anchor, lines |-> lines]

ClosedLog == [open |-> FALSE, anchor |-> GENESIS, chain |-> <<>>]

head(l) == IF log[l].chain = <<>> THEN log[l].anchor
           ELSE log[l].chain[Len(log[l].chain)].hash

Init ==
    /\ log = [l \in Logs |-> ClosedLog]
    /\ segments = <<>>
    /\ active = NoFile
    /\ minted = 0
    /\ acked = {}
    /\ faults = 0
    /\ torn = 0

\* constructor: the chain and the anchor are read back from the active file.
Open(l) ==
    /\ ~log[l].open
    /\ log' = [log EXCEPT ![l] = [open |-> TRUE, anchor |-> active.anchor,
                                  chain |-> active.lines]]
    /\ UNCHANGED <<segments, active, minted, acked, faults, torn>>

\* createReceipt: the next receipt of log l, chained onto its head.
Minted(l) == [hash |-> minted + 1, prev |-> head(l)]

\* Mutant of Oversized: the control line is not counted.
OversizedReceipts == active.exists /\ Len(active.lines) > MaxLines

\* _maybeRotate: no file, nothing to rotate.
Oversized == active.exists /\ Len(active.lines) + (IF active.control THEN 1 ELSE 0) > MaxLines

\* Mutant of Rotated: the chain is trimmed, the anchor forgotten.
RotatedUnanchored(l) == [log[l] EXCEPT !.chain = <<>>]

\* The log after its rotation, and the fresh file.
Rotated(l) == [log[l] EXCEPT !.anchor = head(l), !.chain = <<>>]
FreshFile(l) == File(TRUE, head(l), <<>>)

\* appendFileSync creates the file when there is none.
WithLine(file, r) == File(file.control, file.anchor, Append(file.lines, r))

\* Mutant of AppendReceipt: a second rotation writes over the first segment.
AppendReceiptOverwriting(l) ==
    LET r == Minted(l)
        kept == IF Oversized THEN Rotated(l) ELSE log[l]
    IN  /\ log[l].open
        /\ minted < MaxReceipts
        /\ segments' = IF Oversized THEN <<active>> ELSE segments
        /\ active' = WithLine(IF Oversized THEN FreshFile(l) ELSE active, r)
        /\ log' = [log EXCEPT ![l] = [kept EXCEPT !.chain = Append(@, r)]]
        /\ minted' = minted + 1
        /\ acked' = acked \cup {r.hash}
        /\ UNCHANGED <<faults, torn>>

\* append, all of it, with the rotation when one is due.
AppendReceipt(l) ==
    LET r == Minted(l)
        kept == IF Oversized THEN Rotated(l) ELSE log[l]
    IN  /\ log[l].open
        /\ minted < MaxReceipts
        /\ segments' = IF Oversized THEN Append(segments, active) ELSE segments
        /\ active' = WithLine(IF Oversized THEN FreshFile(l) ELSE active, r)
        /\ log' = [log EXCEPT ![l] = [kept EXCEPT !.chain = Append(@, r)]]
        /\ minted' = minted + 1
        /\ acked' = acked \cup {r.hash}
        /\ UNCHANGED <<faults, torn>>

Fault == faults < MaxFaults /\ faults' = faults + 1

\* Mutant of AppendFails: the error is swallowed and the receipt returned.
AppendFailsAcked(l) ==
    /\ Fault
    /\ log[l].open
    /\ minted < MaxReceipts
    /\ minted' = minted + 1
    /\ acked' = acked \cup {minted + 1}
    /\ UNCHANGED <<log, segments, active, torn>>

\* Mutant of AppendFails: the receipt enters the chain before it is written.
AppendFailsPushed(l) ==
    /\ Fault
    /\ log[l].open
    /\ minted < MaxReceipts
    /\ minted' = minted + 1
    /\ log' = [log EXCEPT ![l].chain = Append(@, Minted(l))]
    /\ UNCHANGED <<acked, segments, active, torn>>

\* append throws at the rename, or at its last write: then the rotation
\* before it stays done.
AppendFails(l) ==
    /\ Fault
    /\ log[l].open
    /\ minted < MaxReceipts
    /\ minted' = minted + 1
    /\ \/ UNCHANGED <<segments, active, log>>
       \/ /\ Oversized
          /\ segments' = Append(segments, active)
          /\ active' = FreshFile(l)
          /\ log' = [log EXCEPT ![l] = Rotated(l)]
    /\ UNCHANGED <<acked, torn>>

\* append throws at the control line: the file is renamed, the log is as
\* before (a file left empty by the failed write reads like no file).
ControlFails(l) ==
    /\ Fault
    /\ log[l].open
    /\ minted < MaxReceipts
    /\ minted' = minted + 1
    /\ Oversized
    /\ segments' = Append(segments, active)
    /\ active' = NoFile
    /\ torn' = torn + 1
    /\ UNCHANGED <<log, acked>>

\* The process dies outside append, or before its first write.
Crash ==
    /\ Fault
    /\ log' = [l \in Logs |-> ClosedLog]
    /\ UNCHANGED <<segments, active, minted, acked, torn>>

\* The process dies inside the append of log l, during a rotation.
CrashInRotation(l) ==
    /\ Fault
    /\ log[l].open
    /\ Oversized
    /\ segments' = Append(segments, active)
    /\ \/ active' = NoFile /\ torn' = torn + 1
       \/ active' = FreshFile(l) /\ UNCHANGED torn
    /\ log' = [x \in Logs |-> ClosedLog]
    /\ UNCHANGED <<minted, acked>>

\* The process dies after the write, and after the rotation before it when
\* one was due, and before the caller knows.
CrashAfterWrite(l) ==
    /\ Fault
    /\ log[l].open
    /\ minted < MaxReceipts
    /\ segments' = IF Oversized THEN Append(segments, active) ELSE segments
    /\ active' = WithLine(IF Oversized THEN FreshFile(l) ELSE active, Minted(l))
    /\ minted' = minted + 1
    /\ log' = [x \in Logs |-> ClosedLog]
    /\ UNCHANGED <<acked, torn>>

Next ==
    \/ \E l \in Logs : Open(l) \/ AppendReceipt(l) \/ AppendFails(l) \/ ControlFails(l)
    \/ Crash
    \/ \E l \in Logs : CrashInRotation(l) \/ CrashAfterWrite(l)

Spec == Init /\ [][Next]_vars
-----------------------------------------------------------------------------
(***************************************************************************)
(* The readers.  verify replays a file from its anchor; loadChainEntries   *)
(* strings the receipts of the segments and of the active file together.   *)
(***************************************************************************)
Linked(anchor, chain) ==
    \A i \in DOMAIN chain : chain[i].prev = IF i = 1 THEN anchor ELSE chain[i - 1].hash

verify(file) == Linked(file.anchor, file.lines)

Files == Append(segments, active)
Entry(f, i) == Files[f].lines[i]
Places == {<<f, i>> : f \in 1 .. Len(Files), i \in 1 .. MaxReceipts}
Written == {p \in Places : p[2] <= Len(Files[p[1]].lines)}
Before(p, q) == p[1] < q[1] \/ (p[1] = q[1] /\ p[2] < q[2])
\* The hash of the entry that comes right before p in the full history.
Predecessor(p) ==
    LET earlier == {q \in Written : Before(q, p)} IN
    IF earlier = {} THEN GENESIS
    ELSE LET q == CHOOSE q \in earlier : \A o \in earlier : o = q \/ Before(o, q)
         IN  Entry(q[1], q[2]).hash
Breaks == {p \in Written : Entry(p[1], p[2]).prev # Predecessor(p)}
Unverifiable == {f \in 1 .. Len(Files) : ~verify(Files[f])}
-----------------------------------------------------------------------------
IsReceipt(r) == r.hash \in 1 .. minted /\ r.prev \in 0 .. minted
IsFile(file) ==
    /\ file.exists \in BOOLEAN /\ file.control \in BOOLEAN
    /\ file.anchor \in 0 .. minted
    /\ \A i \in DOMAIN file.lines : IsReceipt(file.lines[i])

\* The types, and the threshold: no file outgrows it by more than one line.
TypeOK ==
    /\ \A l \in Logs : /\ log[l].open \in BOOLEAN
                       /\ log[l].anchor \in 0 .. minted
                       /\ \A i \in DOMAIN log[l].chain : IsReceipt(log[l].chain[i])
    /\ \A f \in DOMAIN Files :
          /\ IsFile(Files[f])
          /\ Len(Files[f].lines) + (IF Files[f].control THEN 1 ELSE 0) <= MaxLines + 1
    /\ minted \in 0 .. MaxReceipts
    /\ acked \subseteq 1 .. minted
    /\ faults \in 0 .. MaxFaults
    /\ torn \in 0 .. faults

(***************************************************************************)
(* "the TRUE receipt_id ... or null if the append fails (honest: no id     *)
(* implies no receipt)" (continuity-receipt.js:8): a receipt that append   *)
(* returned is on disk, once, whatever failed before or crashes after; a   *)
(* receipt nobody was given is there only if a crash came between.         *)
(***************************************************************************)
AckedOnDisk ==
    LET hashes == {Entry(p[1], p[2]).hash : p \in Written} IN
    /\ acked \subseteq hashes
    /\ Cardinality(Written) = Cardinality(hashes)
    /\ Cardinality(hashes \ acked) <= faults

\* What is on disk is never altered, moved or removed by a later append,
\* rotation, error or crash: a rotated file keeps its place and its content.
AppendOnly ==
    [][\A p \in Written : p \in Written' /\ Entry(p[1], p[2])' = Entry(p[1], p[2])]_vars

(***************************************************************************)
(* The head a lone log chains onto is the head on disk: an append that     *)
(* throws leaves the object in memory and the file in step (only a         *)
(* rotation that throws at its control line parts them).                   *)
(***************************************************************************)
MemoryIsDisk ==
    torn = 0 => \A l \in Logs : log[l].open =>
        log[l].chain = active.lines /\ log[l].anchor = active.anchor

(***************************************************************************)
(* "Returns plain receipt objects forming one genesis-rooted chain"        *)
(* (capability-receipt.js:281), and every file verifies on its own from    *)
(* its anchor (:205): each fault between the rename and the control line   *)
(* spoils at most one of the two, once, and no other fault spoils either.  *)
(***************************************************************************)
DamageOnlyByTornRotation == Cardinality(Breaks) + Cardinality(Unverifiable) <= torn

(***************************************************************************)
(* The same promise for all the logs of the process: the receipts of the   *)
(* path form one chain from GENESIS.                                       *)
(***************************************************************************)
OneChain == Breaks = {}
=============================================================================
