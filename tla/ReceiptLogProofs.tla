-------------------------- MODULE ReceiptLogProofs --------------------------
(***************************************************************************)
(* Proofs about ReceiptLog, for any number of logs on the path, any        *)
(* threshold and any number of receipts and faults; that the memory of a   *)
(* log agrees with the disk, and that only torn rotations damage the chain *)
(* or a file, for a log that is alone on its path.                         *)
(***************************************************************************)
EXTENDS ReceiptLog, SequenceTheorems, FiniteSetTheorems, TLAPS

-----------------------------------------------------------------------------
(* The inductive invariant.                                                 *)

Receipts == [hash : Nat, prev : Nat]
FileRecords == [exists : BOOLEAN, control : BOOLEAN, anchor : Nat, lines : Seq(Receipts)]
LogRecords == [open : BOOLEAN, anchor : Nat, chain : Seq(Receipts)]

Typed ==
    /\ log \in [Logs -> LogRecords]
    /\ segments \in Seq(FileRecords)
    /\ active \in FileRecords
    /\ minted \in 0 .. MaxReceipts
    /\ acked \subseteq 1 .. minted
    /\ faults \in 0 .. MaxFaults
    /\ torn \in 0 .. faults

\* With m receipts minted: the entries of a chain are among them, and a file
\* holds no more than them, within the threshold.
Known(chain, m) == \A i \in DOMAIN chain : chain[i].hash \in 1 .. m /\ chain[i].prev \in 0 .. m
Size(file) == Len(file.lines) + (IF file.control THEN 1 ELSE 0)
Sound(file, m) ==
    /\ ~file.exists => ~file.control /\ Len(file.lines) = 0
    /\ file.anchor <= m
    /\ Known(file.lines, m) /\ Len(file.lines) <= m
    /\ Size(file) <= MaxLines + 1

Bounded ==
    /\ \A f \in DOMAIN segments : Sound(segments[f], minted)
    /\ Sound(active, minted)
    /\ \A l \in Logs : log[l].anchor <= minted /\ Known(log[l].chain, minted)

Hashes == {Entry(p[1], p[2]).hash : p \in Written}

\* A receipt is on disk once, and only faults leave one that nobody was given.
Unique == \A p, q \in Written : Entry(p[1], p[2]).hash = Entry(q[1], q[2]).hash => p = q
Given == acked \subseteq Hashes /\ Cardinality(Hashes \ acked) <= faults

IInv == Typed /\ Bounded /\ Unique /\ Given

-----------------------------------------------------------------------------
(* Where the receipts are.                                                  *)

Laid ==
    /\ Len(segments) \in Nat /\ DOMAIN segments = 1 .. Len(segments)
    /\ Len(Files) = Len(segments) + 1 /\ DOMAIN Files = 1 .. Len(Files)
    /\ \A f \in 1 .. Len(segments) : Files[f] = segments[f]
    /\ Files[Len(segments) + 1] = active
    /\ \A f \in 1 .. Len(Files) : Files[f] \in FileRecords

LEMMA FilesAre == Typed => Laid
  BY AppendProperties, LenProperties DEF Typed, Files, Laid

LEMMA LinesAre ==
  ASSUME Typed, Bounded, NEW f \in 1 .. Len(Files)
  PROVE  /\ Files[f].lines \in Seq(Receipts)
         /\ Len(Files[f].lines) \in Nat
         /\ DOMAIN Files[f].lines = 1 .. Len(Files[f].lines)
         /\ Sound(Files[f], minted)
<1>1. Files[f] \in FileRecords /\ Sound(Files[f], minted)
  BY FilesAre DEF Bounded, Laid
<1>2. Files[f].lines \in Seq(Receipts)
  BY <1>1 DEF FileRecords
<1> QED
  BY <1>1, <1>2, LenProperties

\* Written, without its bound on the places.
Placed ==
    /\ \A f \in 1 .. Len(Files) : \A i \in 1 .. Len(Files[f].lines) : <<f, i>> \in Written
    /\ \A p \in Written :
          /\ p[1] \in 1 .. Len(Files) /\ p[2] \in 1 .. Len(Files[p[1]].lines)
          /\ p = <<p[1], p[2]>>
          /\ Entry(p[1], p[2]).hash \in 1 .. minted

LEMMA WrittenAre == Typed /\ Bounded => Placed
<1> SUFFICES ASSUME Typed, Bounded PROVE Placed
  OBVIOUS
<1>1. ASSUME NEW f \in 1 .. Len(Files), NEW i \in 1 .. Len(Files[f].lines)
      PROVE  <<f, i>> \in Written
  <2>1. /\ Len(Files[f].lines) \in Nat /\ Len(Files[f].lines) <= minted
        /\ minted \in 0 .. MaxReceipts
    BY LinesAre DEF Sound, Typed
  <2>2. i \in 1 .. MaxReceipts /\ i <= Len(Files[f].lines)
    BY <2>1, ReceiptAssumption DEF ReceiptAssumption
  <2>3. <<f, i>> \in Places
    BY <2>2 DEF Places
  <2> QED
    BY <2>2, <2>3 DEF Written
<1>2. ASSUME NEW p \in Written
      PROVE  /\ p[1] \in 1 .. Len(Files) /\ p[2] \in 1 .. Len(Files[p[1]].lines)
             /\ p = <<p[1], p[2]>>
             /\ Entry(p[1], p[2]).hash \in 1 .. minted
  <2>1. PICK f \in 1 .. Len(Files), i \in 1 .. MaxReceipts : p = <<f, i>>
    BY DEF Written, Places
  <2>2. f = p[1] /\ i = p[2]
    BY <2>1
  <2>3. i <= Len(Files[f].lines)
    BY <2>2 DEF Written
  <2>4. i \in DOMAIN Files[f].lines
    BY <2>3, LinesAre
  <2>5. Files[f].lines[i].hash \in 1 .. minted
    BY <2>4, LinesAre DEF Sound, Known
  <2> QED
    BY <2>1, <2>2, <2>4, <2>5, LinesAre DEF Entry
<1> QED
  BY <1>1, <1>2 DEF Placed

LEMMA HashesFinite ==
  ASSUME Typed, Bounded
  PROVE  IsFiniteSet(Hashes) /\ Hashes \subseteq 1 .. minted
<1>1. Hashes \subseteq 1 .. minted
  BY WrittenAre DEF Hashes, Placed
<1>2. IsFiniteSet(1 .. minted)
  BY FS_Interval DEF Typed
<1> QED
  BY <1>1, <1>2, FS_Subset

LEMMA NowAndThen ==
  ASSUME Typed, Bounded, Typed', Bounded'
  PROVE  Laid /\ Laid' /\ Placed /\ Placed'
<1>1. Laid /\ Placed
  BY FilesAre, WrittenAre
<1>2. (Typed => Laid)' /\ (Typed /\ Bounded => Placed)'
  BY FilesAre, WrittenAre, PTL
<1> QED
  BY <1>1, <1>2

-----------------------------------------------------------------------------
(* Types and bounds.                                                        *)

LEMMA InitIInv == Init => IInv
<1> SUFFICES ASSUME Init PROVE IInv
  OBVIOUS
<1> USE ReceiptAssumption DEF ReceiptAssumption
<1>1. NoFile \in FileRecords /\ ClosedLog \in LogRecords
  BY EmptySeq DEF NoFile, ClosedLog, FileRecords, LogRecords, GENESIS
<1>2. Typed
  BY <1>1, EmptySeq DEF Init, Typed
<1>3. Sound(NoFile, 0) /\ Known(<<>>, 0)
  BY DEF Sound, Known, Size, NoFile, GENESIS, Init
<1>4. Bounded
  BY <1>3 DEF Init, Bounded, ClosedLog, GENESIS
<1>5. Written = {}
  BY <1>2, <1>4, WrittenAre, FilesAre DEF Init, Placed, Laid, NoFile
<1> QED
  BY <1>2, <1>4, <1>5, FS_EmptySet DEF Init, IInv, Unique, Given, Hashes

LEMMA HeadType == ASSUME Typed, Bounded, NEW l \in Logs PROVE head(l) \in 0 .. minted
<1>1. log[l] \in LogRecords /\ log[l].anchor <= minted /\ Known(log[l].chain, minted)
  BY DEF Typed, Bounded
<1>2. CASE log[l].chain = <<>>
  BY <1>1, <1>2 DEF head, LogRecords, Typed
<1>3. CASE log[l].chain # <<>>
  <2>1. Len(log[l].chain) \in DOMAIN log[l].chain
    BY <1>1, <1>3, EmptySeq, LenProperties DEF LogRecords
  <2> QED
    BY <1>3, <2>1, <1>1 DEF head, Known, Typed
<1> QED
  BY <1>2, <1>3

\* The pieces that append puts together.
LEMMA Pieces ==
  ASSUME Typed, Bounded, NEW l \in Logs
  PROVE  /\ Minted(l) \in Receipts
         /\ Minted(l).hash = minted + 1 /\ Minted(l).prev \in 0 .. minted
         /\ NoFile \in FileRecords /\ FreshFile(l) \in FileRecords
         /\ ClosedLog \in LogRecords /\ Rotated(l) \in LogRecords
         /\ WithLine(active, Minted(l)) \in FileRecords
         /\ WithLine(FreshFile(l), Minted(l)) \in FileRecords
         /\ WithLine(FreshFile(l), Minted(l)).lines = <<Minted(l)>>
<1>1. head(l) \in Nat /\ head(l) \in 0 .. minted /\ minted \in Nat
  BY HeadType DEF Typed
<1>2. /\ Minted(l) \in Receipts /\ Minted(l).hash = minted + 1 /\ Minted(l).prev \in 0 .. minted
  BY <1>1 DEF Minted, Receipts
<1>3. NoFile \in FileRecords /\ FreshFile(l) \in FileRecords /\ ClosedLog \in LogRecords
  BY <1>1, EmptySeq DEF NoFile, FreshFile, File, ClosedLog, FileRecords, LogRecords, GENESIS
<1>4. Rotated(l) \in LogRecords
  BY <1>1, EmptySeq DEF Rotated, LogRecords, Typed
<1>5. active.lines \in Seq(Receipts) /\ FreshFile(l).lines = <<>>
  BY DEF Typed, FileRecords, FreshFile, File
<1>6. /\ Append(active.lines, Minted(l)) \in Seq(Receipts)
      /\ Append(<<>>, Minted(l)) \in Seq(Receipts)
  BY <1>2, <1>5, AppendProperties, EmptySeq
<1>7. Append(<<>>, Minted(l)) = <<Minted(l)>>
  OBVIOUS
<1>8. /\ WithLine(active, Minted(l)) \in FileRecords
      /\ WithLine(FreshFile(l), Minted(l)) \in FileRecords
      /\ WithLine(FreshFile(l), Minted(l)).lines = <<Minted(l)>>
  BY <1>3, <1>5, <1>6, <1>7 DEF WithLine, File, FileRecords, Typed
<1> QED
  BY <1>2, <1>3, <1>4, <1>8

LEMMA NextTyped ==
  ASSUME Typed, Bounded, [Next]_vars
  PROVE  Typed'
<1> USE ReceiptAssumption DEF ReceiptAssumption
<1>1. ASSUME NEW l \in Logs, Open(l) PROVE Typed'
  <2>1. [open |-> TRUE, anchor |-> active.anchor, chain |-> active.lines] \in LogRecords
    BY DEF Typed, FileRecords, LogRecords
  <2> QED
    BY <1>1, <2>1 DEF Open, Typed
<1>2. ASSUME NEW l \in Logs, AppendReceipt(l) PROVE Typed'
  <2> DEFINE kept == IF Oversized THEN Rotated(l) ELSE log[l]
  <2>1. kept \in LogRecords
    BY Pieces DEF Typed
  <2>2. [kept EXCEPT !.chain = Append(@, Minted(l))] \in LogRecords
    <3> HIDE DEF kept
    <3>1. Append(kept.chain, Minted(l)) \in Seq(Receipts)
      BY <2>1, Pieces, AppendProperties DEF LogRecords
    <3> QED
      BY <2>1, <3>1 DEF LogRecords
  <2>3. log' \in [Logs -> LogRecords]
    BY <1>2, <2>2 DEF AppendReceipt, Typed
  <2>4. segments' \in Seq(FileRecords) /\ active' \in FileRecords
    BY <1>2, Pieces, AppendProperties DEF AppendReceipt, Typed
  <2>5. minted' \in 0 .. MaxReceipts /\ acked' \subseteq 1 .. minted'
    BY <1>2, Pieces DEF AppendReceipt, Typed
  <2> QED
    BY <1>2, <2>3, <2>4, <2>5 DEF AppendReceipt, Typed
<1>3. ASSUME NEW l \in Logs, AppendFails(l) PROVE Typed'
  <2>1. segments' \in Seq(FileRecords) /\ active' \in FileRecords
    BY <1>3, Pieces, AppendProperties DEF AppendFails, Typed
  <2>2. log' \in [Logs -> LogRecords]
    BY <1>3, Pieces DEF AppendFails, Typed
  <2>3. minted' \in 0 .. MaxReceipts /\ acked' \subseteq 1 .. minted'
    BY <1>3 DEF AppendFails, Typed
  <2>4. faults' \in 0 .. MaxFaults /\ torn' \in 0 .. faults'
    BY <1>3 DEF AppendFails, Fault, Typed
  <2> QED
    BY <2>1, <2>2, <2>3, <2>4 DEF Typed
<1>4. ASSUME NEW l \in Logs, ControlFails(l) PROVE Typed'
  <2>1. segments' \in Seq(FileRecords) /\ active' \in FileRecords
    BY <1>4, Pieces, AppendProperties DEF ControlFails, Typed
  <2>2. log' \in [Logs -> LogRecords]
    BY <1>4, Pieces DEF ControlFails, Typed
  <2>3. minted' \in 0 .. MaxReceipts /\ acked' \subseteq 1 .. minted'
    BY <1>4 DEF ControlFails, Typed
  <2>4. faults' \in 0 .. MaxFaults /\ torn' \in 0 .. faults'
    BY <1>4 DEF ControlFails, Fault, Typed
  <2> QED
    BY <2>1, <2>2, <2>3, <2>4 DEF Typed
<1>5. ASSUME Crash PROVE Typed'
  <2>1. ClosedLog \in LogRecords
    BY EmptySeq DEF ClosedLog, LogRecords, GENESIS
  <2> QED
    BY <1>5, <2>1 DEF Crash, Fault, Typed
<1>6. ASSUME NEW l \in Logs, CrashInRotation(l) PROVE Typed'
  <2>1. segments' \in Seq(FileRecords) /\ active' \in FileRecords
    BY <1>6, Pieces, AppendProperties DEF CrashInRotation, Typed
  <2>2. log' \in [Logs -> LogRecords]
    BY <1>6, Pieces DEF CrashInRotation, Typed
  <2>3. minted' \in 0 .. MaxReceipts /\ acked' \subseteq 1 .. minted'
    BY <1>6 DEF CrashInRotation, Typed
  <2>4. faults' \in 0 .. MaxFaults /\ torn' \in 0 .. faults'
    BY <1>6 DEF CrashInRotation, Fault, Typed
  <2> QED
    BY <2>1, <2>2, <2>3, <2>4 DEF Typed
<1>7. ASSUME NEW l \in Logs, CrashAfterWrite(l) PROVE Typed'
  <2>1. segments' \in Seq(FileRecords) /\ active' \in FileRecords
    BY <1>7, Pieces, AppendProperties DEF CrashAfterWrite, Typed
  <2>2. log' \in [Logs -> LogRecords]
    BY <1>7, Pieces DEF CrashAfterWrite, Typed
  <2>3. minted' \in 0 .. MaxReceipts /\ acked' \subseteq 1 .. minted'
    BY <1>7 DEF CrashAfterWrite, Typed
  <2>4. faults' \in 0 .. MaxFaults /\ torn' \in 0 .. faults'
    BY <1>7 DEF CrashAfterWrite, Fault, Typed
  <2> QED
    BY <2>1, <2>2, <2>3, <2>4 DEF Typed
<1>8. CASE UNCHANGED vars
  BY <1>8 DEF vars, Typed
<1> QED
  BY <1>1, <1>2, <1>3, <1>4, <1>5, <1>6, <1>7, <1>8 DEF Next

\* What a step does to the files: nothing, or a rotation, or it writes the next
\* receipt of a log, after a rotation or not.
Still == active' = active /\ segments' = segments /\ minted' \in {minted, minted + 1}
RolledOver ==
    /\ segments' = Append(segments, active)
    /\ active' = NoFile \/ \E l \in Logs : active' = FreshFile(l)
    /\ minted' \in {minted, minted + 1}
Wrote(l) ==
    /\ \/ ~Oversized /\ segments' = segments /\ active' = WithLine(active, Minted(l))
       \/ /\ Oversized /\ segments' = Append(segments, active)
          /\ active' = WithLine(FreshFile(l), Minted(l))
    /\ minted' = minted + 1

LEMMA NextShape ==
  ASSUME Typed, [Next]_vars
  PROVE  Still \/ RolledOver \/ \E l \in Logs : Wrote(l)
<1>1. ASSUME NEW l \in Logs, AppendReceipt(l) \/ CrashAfterWrite(l) PROVE Wrote(l)
  BY <1>1 DEF AppendReceipt, CrashAfterWrite, Wrote
<1>2. ASSUME NEW l \in Logs, AppendFails(l) \/ ControlFails(l) \/ CrashInRotation(l)
      PROVE  Still \/ RolledOver
  BY <1>2 DEF AppendFails, ControlFails, CrashInRotation, Still, RolledOver
<1>3. ASSUME (\E l \in Logs : Open(l)) \/ Crash \/ UNCHANGED vars
      PROVE  Still
  BY <1>3 DEF Open, Crash, vars, Still
<1> QED
  BY <1>1, <1>2, <1>3 DEF Next

LEMMA SoundLater ==
  ASSUME NEW m \in Nat, NEW n \in {m, m + 1}, NEW file \in FileRecords, Sound(file, m)
  PROVE  Sound(file, n)
<1>1. Len(file.lines) \in Nat /\ file.anchor \in Nat
  BY LenProperties DEF FileRecords
<1> QED
  BY <1>1 DEF Sound, Known

LEMMA KnownLater ==
  ASSUME NEW m \in Nat, NEW n \in {m, m + 1}, NEW chain, Known(chain, m)
  PROVE  Known(chain, n)
  BY DEF Known

LEMMA KnownMore ==
  ASSUME NEW m \in Nat, NEW chain \in Seq(Receipts), Known(chain, m),
         NEW r \in Receipts, r.hash = m + 1, r.prev \in 0 .. m
  PROVE  Known(Append(chain, r), m + 1)
<1>1. /\ Len(Append(chain, r)) = Len(chain) + 1 /\ Len(chain) \in Nat
      /\ DOMAIN Append(chain, r) = 1 .. Len(chain) + 1 /\ DOMAIN chain = 1 .. Len(chain)
      /\ \A i \in 1 .. Len(chain) : Append(chain, r)[i] = chain[i]
      /\ Append(chain, r)[Len(chain) + 1] = r
  BY AppendProperties, LenProperties
<1>2. \A i \in 1 .. Len(chain) + 1 : i \in 1 .. Len(chain) \/ i = Len(chain) + 1
  BY <1>1
<1> QED
  BY <1>1, <1>2 DEF Known

LEMMA SizeType == ASSUME NEW file, Len(file.lines) \in Nat PROVE Size(file) \in Nat
<1> DEFINE one == IF file.control THEN 1 ELSE 0
<1>1. one \in {0, 1} /\ Size(file) = Len(file.lines) + one
  BY Zenon DEF Size
<1> HIDE DEF one
<1> QED
  BY <1>1

\* A rotation and a write keep the file within its bounds.
LEMMA SoundPieces ==
  ASSUME Typed, Bounded, NEW l \in Logs
  PROVE  /\ \A n \in {minted, minted + 1} : Sound(NoFile, n) /\ Sound(FreshFile(l), n)
         /\ ~Oversized => Sound(WithLine(active, Minted(l)), minted + 1)
         /\ Sound(WithLine(FreshFile(l), Minted(l)), minted + 1)
<1> USE ReceiptAssumption DEF ReceiptAssumption
<1>0. minted \in Nat /\ head(l) \in 0 .. minted
  BY HeadType DEF Typed
<1>1. \A n \in {minted, minted + 1} : Sound(NoFile, n) /\ Sound(FreshFile(l), n)
  BY <1>0 DEF Sound, Known, Size, NoFile, FreshFile, File, GENESIS
<1>2. ASSUME NEW file \in FileRecords, Sound(file, minted), Size(file) <= MaxLines
      PROVE  Sound(WithLine(file, Minted(l)), minted + 1)
  <2> DEFINE g == WithLine(file, Minted(l))
  <2>1. /\ g.exists /\ g.control = file.control /\ g.anchor = file.anchor
        /\ g.lines = Append(file.lines, Minted(l))
    BY DEF WithLine, File
  <2>2. /\ file.lines \in Seq(Receipts) /\ Len(file.lines) \in Nat
        /\ file.anchor \in Nat /\ file.control \in BOOLEAN
    BY LenProperties DEF FileRecords
  <2>3. Len(g.lines) = Len(file.lines) + 1
    BY <2>1, <2>2, Pieces, AppendProperties
  <2>4. Known(g.lines, minted + 1)
    BY <1>0, <1>2, <2>1, <2>2, Pieces, KnownMore DEF Sound
  <2> HIDE DEF g
  <2>5. Size(g) <= MaxLines + 1
    <3>1. Size(g) = Size(file) + 1
      <4> DEFINE one == IF file.control THEN 1 ELSE 0
      <4>1. one \in {0, 1}
        OBVIOUS
      <4>2. Size(file) = Len(file.lines) + one /\ Size(g) = Len(g.lines) + one
        BY <2>1, Zenon DEF Size
      <4> HIDE DEF one
      <4> QED
        BY <2>2, <2>3, <4>1, <4>2
    <3>2. Size(file) \in Nat
      BY <2>2, SizeType
    <3> QED
      BY <1>2, <3>1, <3>2
  <2>6. g.anchor <= minted + 1 /\ Len(g.lines) <= minted + 1
    BY <1>0, <1>2, <2>1, <2>2, <2>3 DEF Sound
  <2>7. Sound(g, minted + 1)
    BY <2>1, <2>4, <2>5, <2>6 DEF Sound
  <2> QED
    BY <2>7 DEF g
<1>3. ASSUME ~Oversized PROVE Size(active) <= MaxLines
  <2>1. active.lines \in Seq(Receipts) /\ Len(active.lines) \in Nat
    BY LenProperties DEF Typed, FileRecords
  <2>2. CASE active.exists
    <3>1. ~(Size(active) > MaxLines)
      BY <1>3, <2>2, Zenon DEF Oversized, Size
    <3>2. Size(active) \in Nat
      BY <2>1, SizeType
    <3> QED
      BY <3>1, <3>2
  <2>3. CASE ~active.exists
    <3>1. ~active.control /\ Len(active.lines) = 0
      BY <2>3, Zenon DEF Bounded, Sound
    <3>2. Size(active) = 0
      BY <3>1 DEF Size
    <3> QED
      BY <3>2
  <2> QED
    BY <2>2, <2>3
<1>4. Size(FreshFile(l)) <= MaxLines
  BY DEF Size, FreshFile, File
<1>5. active \in FileRecords /\ Sound(active, minted)
  BY DEF Typed, Bounded
<1> QED
  BY <1>1, <1>2, <1>3, <1>4, <1>5, Pieces

LEMMA NextBounded ==
  ASSUME Typed, Bounded, Typed', [Next]_vars
  PROVE  Bounded'
<1> USE ReceiptAssumption DEF ReceiptAssumption
<1>1. Still \/ RolledOver \/ \E l \in Logs : Wrote(l)
  BY NextShape
<1>2. minted \in Nat /\ minted' \in {minted, minted + 1}
  BY <1>1 DEF Still, RolledOver, Wrote, Typed
<1>3. \A f \in DOMAIN segments' : Sound(segments'[f], minted')
  <2>1. segments' = segments \/ segments' = Append(segments, active)
    BY <1>1 DEF Still, RolledOver, Wrote
  <2>2. /\ DOMAIN segments = 1 .. Len(segments)
        /\ \A f \in DOMAIN segments : segments[f] \in FileRecords
    BY LenProperties, ElementOfSeq DEF Typed
  <2>3. \A f \in DOMAIN segments : Sound(segments[f], minted')
    BY <1>2, <2>2, SoundLater DEF Bounded
  <2>4. Sound(active, minted')
    BY <1>2, SoundLater DEF Bounded, Typed
  <2>5. CASE segments' = Append(segments, active)
    <3>1. /\ DOMAIN segments' = 1 .. Len(segments) + 1 /\ Len(segments) \in Nat
          /\ \A f \in 1 .. Len(segments) : segments'[f] = segments[f]
          /\ segments'[Len(segments) + 1] = active
      BY <2>5, AppendProperties, LenProperties DEF Typed
    <3>2. \A f \in DOMAIN segments' : f \in 1 .. Len(segments) \/ f = Len(segments) + 1
      BY <3>1
    <3> QED
      BY <2>2, <2>3, <2>4, <3>1, <3>2
  <2> QED
    BY <2>1, <2>3, <2>5
<1>4. Sound(active', minted')
  <2>1. CASE active' = active
    BY <1>2, <2>1, SoundLater DEF Bounded, Typed
  <2>2. CASE active' = NoFile
    BY <1>2, <2>2 DEF Sound, Known, Size, NoFile, GENESIS
  <2>3. ASSUME NEW l \in Logs, active' = FreshFile(l) PROVE Sound(active', minted')
    BY <1>2, <2>3, SoundPieces
  <2>4. ASSUME NEW l \in Logs, Wrote(l) PROVE Sound(active', minted')
    BY <2>4, SoundPieces DEF Wrote
  <2> QED
    BY <1>1, <2>1, <2>2, <2>3, <2>4 DEF Still, RolledOver
<1>5. ASSUME NEW k \in Logs PROVE log'[k].anchor <= minted' /\ Known(log'[k].chain, minted')
  <2>1. ASSUME log'[k] = log[k] PROVE log'[k].anchor <= minted' /\ Known(log'[k].chain, minted')
    <3>1. log[k] \in LogRecords /\ log[k].anchor <= minted /\ Known(log[k].chain, minted)
      BY DEF Typed, Bounded
    <3> QED
      BY <1>2, <2>1, <3>1, KnownLater DEF LogRecords
  <2>2. CASE log'[k] = ClosedLog
    BY <1>2, <2>2 DEF ClosedLog, Known, GENESIS
  <2>3. CASE log'[k] = Rotated(k)
    BY <1>2, <2>3, HeadType DEF Rotated, Known, Typed, LogRecords
  <2>4. ASSUME NEW l \in Logs, Open(l)
        PROVE  log'[k].anchor <= minted' /\ Known(log'[k].chain, minted')
    BY <2>1, <2>4 DEF Open, Typed, Bounded, Sound
  <2>5. ASSUME NEW l \in Logs, AppendReceipt(l)
        PROVE  log'[k].anchor <= minted' /\ Known(log'[k].chain, minted')
    <3> DEFINE kept == IF Oversized THEN Rotated(l) ELSE log[l]
    <3>1. kept \in LogRecords /\ kept.anchor <= minted /\ Known(kept.chain, minted)
      <4>1. CASE Oversized
        <5>1. Rotated(l).anchor = head(l) /\ Rotated(l).chain = <<>>
          BY DEF Rotated, Typed, LogRecords
        <5> QED
          BY <4>1, <5>1, Pieces, HeadType DEF Known, Typed
      <4>2. CASE ~Oversized
        BY <4>2 DEF Typed, Bounded
      <4> QED
        BY <4>1, <4>2
    <3>2. /\ log' = [log EXCEPT ![l] = [kept EXCEPT !.chain = Append(@, Minted(l))]]
          /\ minted' = minted + 1
      BY <2>5 DEF AppendReceipt
    <3> HIDE DEF kept
    <3>3. CASE k # l
      BY <2>1, <3>2, <3>3 DEF Typed
    <3>4. CASE k = l
      <4>1. log'[k].anchor = kept.anchor /\ log'[k].chain = Append(kept.chain, Minted(l))
        BY <3>1, <3>2, <3>4 DEF Typed, LogRecords
      <4>2. Known(Append(kept.chain, Minted(l)), minted + 1)
        BY <1>2, <3>1, Pieces, KnownMore DEF LogRecords
      <4>3. kept.anchor <= minted + 1
        BY <1>2, <3>1 DEF LogRecords
      <4> QED
        BY <3>2, <4>1, <4>2, <4>3
    <3> QED
      BY <3>3, <3>4
  <2>6. ASSUME NEW l \in Logs, AppendFails(l) PROVE log'[k] = log[k] \/ log'[k] = Rotated(k)
    BY <2>6 DEF AppendFails, Typed
  <2>7. ASSUME NEW l \in Logs, ControlFails(l) PROVE log'[k] = log[k]
    BY <2>7 DEF ControlFails
  <2>8. ASSUME Crash \/ \E l \in Logs : CrashInRotation(l) \/ CrashAfterWrite(l)
        PROVE  log'[k] = ClosedLog
    BY <2>8 DEF Crash, CrashInRotation, CrashAfterWrite
  <2>9. CASE UNCHANGED vars
    BY <2>1, <2>9 DEF vars
  <2> QED
    BY <2>1, <2>2, <2>3, <2>4, <2>5, <2>6, <2>7, <2>8, <2>9 DEF Next
<1> QED
  BY <1>3, <1>4, <1>5 DEF Bounded

-----------------------------------------------------------------------------
(* A step writes nothing, or one receipt behind all the others.             *)

Same(p) == p \in Written' /\ Entry(p[1], p[2])' = Entry(p[1], p[2])

LEMMA RolledFiles ==
  ASSUME Typed, Laid, Laid', segments' = Append(segments, active)
  PROVE  /\ Len(Files') = Len(Files) + 1
         /\ \A f \in 1 .. Len(Files) : Files'[f] = Files[f]
         /\ Files'[Len(Files) + 1] = active'
<1>1. segments' = Files
  BY DEF Files
<1>2. Len(Files') = Len(Files) + 1
  BY <1>1 DEF Laid
<1> QED
  BY <1>1, <1>2 DEF Laid

LEMMA StillWritten ==
  ASSUME Typed, Bounded, Typed', Bounded', Still
  PROVE  Written' = Written /\ \A p \in Written : Same(p)
<1>1. Laid /\ Laid' /\ Placed /\ Placed'
  BY NowAndThen
<1>2. Files' = Files
  BY DEF Still, Files
<1>3. ASSUME NEW p \in Written PROVE p \in Written'
  BY <1>1, <1>2, <1>3 DEF Placed
<1>4. ASSUME NEW p \in Written' PROVE p \in Written
  BY <1>1, <1>2, <1>4 DEF Placed
<1> QED
  BY <1>2, <1>3, <1>4 DEF Same, Entry

LEMMA RolledWritten ==
  ASSUME Typed, Bounded, Typed', Bounded', RolledOver
  PROVE  Written' = Written /\ \A p \in Written : Same(p)
<1>1. Laid /\ Laid' /\ Placed /\ Placed'
  BY NowAndThen
<1>2. /\ Len(Files') = Len(Files) + 1 /\ Len(Files) \in Nat
      /\ \A f \in 1 .. Len(Files) : f \in 1 .. Len(Files') /\ Files'[f] = Files[f]
      /\ Files'[Len(Files) + 1] = active'
  BY <1>1, RolledFiles DEF RolledOver, Laid
<1>3. Len(active'.lines) = 0
  BY DEF RolledOver, NoFile, FreshFile, File
<1>4. ASSUME NEW p \in Written PROVE Same(p)
  BY <1>1, <1>2, <1>4 DEF Placed, Same, Entry
<1>5. ASSUME NEW p \in Written' PROVE p \in Written
  <2>1. p[1] \in 1 .. Len(Files) \/ p[1] = Len(Files) + 1
    BY <1>1, <1>2, <1>5 DEF Placed
  <2>2. p[1] # Len(Files) + 1
    BY <1>1, <1>2, <1>3, <1>5 DEF Placed
  <2> QED
    BY <1>1, <1>2, <1>5, <2>1, <2>2 DEF Placed
<1> QED
  BY <1>4, <1>5 DEF Same

LEMMA WroteWritten ==
  ASSUME Typed, Bounded, Typed', Bounded', NEW l \in Logs, Wrote(l)
  PROVE  /\ \A p \in Written : Same(p)
         /\ \E n : /\ n = <<Len(Files'), Len(active'.lines)>>
                  /\ n \notin Written /\ Written' = Written \cup {n}
                  /\ Entry(n[1], n[2])' = Minted(l)
                  /\ \A p \in Written : Before(p, n)
<1>1. Laid /\ Laid' /\ Placed /\ Placed'
  BY NowAndThen
<1>2. CASE segments' = Append(segments, active) /\ active' = WithLine(FreshFile(l), Minted(l))
  <2>0. PICK n : n = <<Len(Files) + 1, 1>>
    OBVIOUS
  <2>1. /\ Len(Files') = Len(Files) + 1 /\ Len(Files) \in Nat
        /\ \A f \in 1 .. Len(Files) : f \in 1 .. Len(Files') /\ Files'[f] = Files[f]
        /\ Files'[Len(Files) + 1] = active'
    BY <1>1, <1>2, RolledFiles DEF Laid
  <2>2. active'.lines = <<Minted(l)>> /\ Len(active'.lines) = 1 /\ active'.lines[1] = Minted(l)
    <3>1. \A r : Len(<<r>>) = 1 /\ <<r>>[1] = r
      OBVIOUS
    <3>2. active'.lines = <<Minted(l)>>
      BY <1>2, Pieces
    <3> QED
      BY <3>1, <3>2
  <2>3. ASSUME NEW p \in Written PROVE Same(p)
    BY <1>1, <2>1, <2>3 DEF Placed, Same, Entry
  <2>4. n \notin Written /\ n \in Written' /\ Entry(n[1], n[2])' = Minted(l)
    <3>1. n[1] = Len(Files) + 1 /\ n[2] = 1
      BY <2>0
    <3>2. n \notin Written
      BY <1>1, <2>1, <3>1 DEF Placed
    <3>3. n \in Written'
      BY <1>1, <2>0, <2>1, <2>2 DEF Placed
    <3>4. Entry(n[1], n[2])' = Files'[Len(Files) + 1].lines[1]
      BY <3>1 DEF Entry
    <3> QED
      BY <2>1, <2>2, <3>2, <3>3, <3>4
  <2>5. ASSUME NEW p \in Written' PROVE p \in Written \/ p = n
    <3>1. p[1] \in 1 .. Len(Files) \/ p[1] = Len(Files) + 1
      BY <1>1, <2>1, <2>5 DEF Placed
    <3>2. CASE p[1] \in 1 .. Len(Files)
      BY <1>1, <2>1, <2>5, <3>2 DEF Placed
    <3>3. CASE p[1] = Len(Files) + 1
      BY <1>1, <2>0, <2>1, <2>2, <2>5, <3>3 DEF Placed
    <3> QED
      BY <3>1, <3>2, <3>3
  <2>6. Written' = Written \cup {n}
    BY <2>3, <2>4, <2>5 DEF Same
  <2>7. \A p \in Written : Before(p, n)
    BY <1>1, <2>0, <2>1 DEF Placed, Before
  <2> QED
    BY <2>0, <2>1, <2>2, <2>3, <2>4, <2>6, <2>7
<1>3. CASE segments' = segments /\ active' = WithLine(active, Minted(l))
  <2> DEFINE k == Len(active.lines)
  <2>0. PICK n : n = <<Len(Files), k + 1>>
    OBVIOUS
  <2>1. /\ Len(Files') = Len(Files) /\ Len(Files) \in Nat \ {0}
        /\ \A f \in 1 .. Len(Files) : f # Len(Files) => Files'[f] = Files[f]
        /\ Files'[Len(Files)] = active' /\ Files[Len(Files)] = active
    BY <1>1, <1>3 DEF Laid
  <2>2. /\ k \in Nat /\ active'.lines = Append(active.lines, Minted(l))
        /\ Len(active'.lines) = k + 1
        /\ \A i \in 1 .. k : active'.lines[i] = active.lines[i]
        /\ active'.lines[k + 1] = Minted(l)
    <3>1. active.lines \in Seq(Receipts) /\ active'.lines = Append(active.lines, Minted(l))
      BY <1>3 DEF WithLine, File, Typed, FileRecords
    <3> QED
      BY <3>1, Pieces, AppendProperties, LenProperties
  <2> HIDE DEF k
  <2>3. ASSUME NEW p \in Written PROVE Same(p)
    <3>1. CASE p[1] = Len(Files)
      BY <1>1, <2>1, <2>2, <2>3, <3>1 DEF Placed, Same, Entry, k
    <3>2. CASE p[1] # Len(Files)
      BY <1>1, <2>1, <2>3, <3>2 DEF Placed, Same, Entry
    <3> QED
      BY <3>1, <3>2
  <2>4. n \notin Written /\ n \in Written' /\ Entry(n[1], n[2])' = Minted(l)
    <3>1. n[1] = Len(Files) /\ n[2] = k + 1
      BY <2>0
    <3>2. n \notin Written
      BY <1>1, <2>1, <2>2, <3>1 DEF Placed, k
    <3>3. n \in Written'
      BY <1>1, <2>0, <2>1, <2>2 DEF Placed
    <3>4. Entry(n[1], n[2])' = Files'[Len(Files)].lines[k + 1]
      BY <3>1 DEF Entry
    <3> QED
      BY <2>1, <2>2, <3>2, <3>3, <3>4
  <2>5. ASSUME NEW p \in Written' PROVE p \in Written \/ p = n
    <3>1. CASE p[1] = Len(Files)
      BY <1>1, <2>0, <2>1, <2>2, <2>5, <3>1 DEF Placed, k
    <3>2. CASE p[1] # Len(Files)
      BY <1>1, <2>1, <2>5, <3>2 DEF Placed
    <3> QED
      BY <3>1, <3>2
  <2>6. Written' = Written \cup {n}
    BY <2>3, <2>4, <2>5 DEF Same
  <2>7. \A p \in Written : Before(p, n)
    <3> SUFFICES ASSUME NEW p \in Written PROVE Before(p, n)
      OBVIOUS
    <3>1. p[1] \in 1 .. Len(Files) /\ (p[1] = Len(Files) => p[2] \in 1 .. k)
      BY <1>1, <2>1 DEF Placed, k
    <3> QED
      BY <2>0, <2>1, <2>2, <3>1 DEF Before
  <2> QED
    BY <2>0, <2>1, <2>2, <2>3, <2>4, <2>6, <2>7
<1> QED
  BY <1>2, <1>3 DEF Wrote

LEMMA NextSame ==
  ASSUME Typed, Bounded, Typed', Bounded', [Next]_vars
  PROVE  \A p \in Written : Same(p)
  BY NextShape, StillWritten, RolledWritten, WroteWritten

-----------------------------------------------------------------------------
(* The invariant is inductive.                                              *)

\* Who is given a receipt, and what a fault may leave behind.
LEMMA NextAcked ==
  ASSUME Typed, [Next]_vars
  PROVE  \/ (Still \/ RolledOver) /\ acked' = acked /\ faults' \in {faults, faults + 1}
         \/ /\ \E l \in Logs : Wrote(l)
            /\ \/ acked' = acked \cup {minted + 1} /\ faults' = faults
               \/ acked' = acked /\ faults' = faults + 1
<1>1. ASSUME NEW l \in Logs, AppendReceipt(l)
      PROVE  Wrote(l) /\ acked' = acked \cup {minted + 1} /\ faults' = faults
  BY <1>1 DEF AppendReceipt, Wrote, Minted
<1>2. ASSUME NEW l \in Logs, CrashAfterWrite(l)
      PROVE  Wrote(l) /\ acked' = acked /\ faults' = faults + 1
  BY <1>2 DEF CrashAfterWrite, Wrote, Fault
<1>3. ASSUME NEW l \in Logs, AppendFails(l) \/ ControlFails(l) \/ CrashInRotation(l)
      PROVE  (Still \/ RolledOver) /\ acked' = acked /\ faults' = faults + 1
  BY <1>3 DEF AppendFails, ControlFails, CrashInRotation, Still, RolledOver, Fault
<1>4. ASSUME (\E l \in Logs : Open(l)) \/ Crash \/ UNCHANGED vars
      PROVE  Still /\ acked' = acked /\ faults' \in {faults, faults + 1}
  BY <1>4 DEF Open, Crash, vars, Still, Fault
<1> QED
  BY <1>1, <1>2, <1>3, <1>4 DEF Next

LEMMA NextUnique ==
  ASSUME Typed, Bounded, Typed', Bounded', Unique, Given, [Next]_vars
  PROVE  Unique' /\ Given'
<1>1. ASSUME Still \/ RolledOver, acked' = acked, faults' \in {faults, faults + 1}
      PROVE  Unique' /\ Given'
  <2>1. Written' = Written /\ \A p \in Written : Same(p)
    BY <1>1, StillWritten, RolledWritten
  <2>2. Hashes' = Hashes
    BY <2>1 DEF Hashes, Same
  <2>3. Unique'
    BY <2>1 DEF Unique, Same
  <2>4. Cardinality(Hashes \ acked) <= faults'
    <3>1. IsFiniteSet(Hashes \ acked)
      BY HashesFinite, FS_Subset
    <3> QED
      BY <1>1, <3>1, FS_CardinalityType DEF Given, Typed
  <2> QED
    BY <1>1, <2>2, <2>3, <2>4 DEF Given
<1>2. ASSUME NEW l \in Logs, Wrote(l),
             \/ acked' = acked \cup {minted + 1} /\ faults' = faults
             \/ acked' = acked /\ faults' = faults + 1
      PROVE  Unique' /\ Given'
  <2>1. /\ \A p \in Written : Same(p)
        /\ \E n : /\ n \notin Written /\ Written' = Written \cup {n}
                 /\ Entry(n[1], n[2])' = Minted(l)
    BY <1>2, WroteWritten
  <2>2. PICK n : /\ n \notin Written /\ Written' = Written \cup {n}
                 /\ Entry(n[1], n[2])'.hash = minted + 1
    BY <2>1 DEF Minted
  <2>3. /\ Hashes \subseteq 1 .. minted /\ IsFiniteSet(Hashes)
        /\ minted \in Nat /\ minted + 1 \notin Hashes
    BY HashesFinite DEF Typed
  <2>4. Hashes' = Hashes \cup {minted + 1}
    BY <2>1, <2>2 DEF Hashes, Same
  <2>5. Unique'
    BY <2>1, <2>2, <2>3 DEF Unique, Same, Hashes
  <2>6. IsFiniteSet(Hashes \ acked) /\ Cardinality(Hashes \ acked) \in Nat
    BY <2>3, FS_Subset, FS_CardinalityType
  <2>7. CASE acked' = acked \cup {minted + 1} /\ faults' = faults
    <3>1. Hashes' \ acked' = Hashes \ acked /\ acked' \subseteq Hashes'
      BY <2>3, <2>4, <2>7 DEF Given
    <3> QED
      BY <2>5, <2>7, <3>1 DEF Given
  <2>8. CASE acked' = acked /\ faults' = faults + 1
    <3>1. Hashes' \ acked' = (Hashes \ acked) \cup {minted + 1}
      <4>1. minted + 1 \notin acked
        BY <2>3 DEF Typed
      <4> QED
        BY <2>4, <2>8, <4>1
    <3>2. /\ Cardinality(Hashes' \ acked') <= Cardinality(Hashes \ acked) + 1
          /\ IsFiniteSet(Hashes' \ acked')
      BY <2>6, <3>1, FS_AddElement
    <3>3. /\ Cardinality(Hashes' \ acked') \in Nat /\ faults \in Nat
          /\ Cardinality(Hashes \ acked) <= faults
      BY <3>2, FS_CardinalityType DEF Given, Typed
    <3>4. acked' \subseteq Hashes'
      BY <2>4, <2>8 DEF Given
    <3> QED
      BY <2>5, <2>6, <2>8, <3>2, <3>3, <3>4 DEF Given
  <2> QED
    BY <1>2, <2>7, <2>8
<1> QED
  BY <1>1, <1>2, NextAcked

LEMMA Inductive == Spec => []IInv
<1>1. IInv /\ [Next]_vars => IInv'
  BY NextTyped, NextBounded, NextUnique DEF IInv
<1> QED
  BY <1>1, InitIInv, PTL DEF Spec

-----------------------------------------------------------------------------
(* What the log promises.                                                   *)

\* The types, and the threshold: no file outgrows it by more than one line
\* (TypeOK; _maybeRotate).
THEOREM TypeCorrect == Spec => []TypeOK
<1>1. ASSUME IInv PROVE TypeOK
  <2>1. Typed /\ Bounded /\ Laid
    BY <1>1, FilesAre DEF IInv
  <2>2. ASSUME NEW l \in Logs
        PROVE  /\ log[l].open \in BOOLEAN /\ log[l].anchor \in 0 .. minted
               /\ \A i \in DOMAIN log[l].chain : IsReceipt(log[l].chain[i])
    BY <2>1 DEF Typed, Bounded, LogRecords, Known, IsReceipt
  <2>3. ASSUME NEW f \in DOMAIN Files
        PROVE  /\ IsFile(Files[f])
               /\ Len(Files[f].lines) + (IF Files[f].control THEN 1 ELSE 0) <= MaxLines + 1
    <3>1. Files[f] \in FileRecords /\ Sound(Files[f], minted)
      BY <2>1, LinesAre DEF Laid
    <3>2. IsFile(Files[f])
      BY <2>1, <3>1 DEF IsFile, FileRecords, Sound, Known, IsReceipt, Typed
    <3> QED
      BY <3>1, <3>2, Zenon DEF Sound, Size
  <2> QED
    BY <2>1, <2>2, <2>3 DEF TypeOK, Typed
<1> QED
  BY <1>1, Inductive, PTL

\* A receipt that append returned is on disk, once, and one that nobody was
\* given is there only for a fault (AckedOnDisk; continuity-receipt.js:8).
THEOREM AckedOnDiskCorrect == Spec => []AckedOnDisk
<1>1. ASSUME IInv PROVE AckedOnDisk
  <2> DEFINE hash == [p \in Written |-> Entry(p[1], p[2]).hash]
  <2>1. IsFiniteSet(Hashes)
    BY <1>1, HashesFinite DEF IInv
  <2>2. hash \in Injection(Written, Hashes) /\ hash \in Surjection(Written, Hashes)
    BY <1>1 DEF IInv, Unique, Hashes, Injection, Surjection, IsInjective
  <2>3. Cardinality(Written) = Cardinality(Hashes)
    BY <2>1, <2>2, FS_Injection
  <2> QED
    BY <1>1, <2>3 DEF IInv, Given, Hashes, AckedOnDisk
<1> QED
  BY <1>1, Inductive, PTL

\* What is on disk is never altered, moved or removed (AppendOnly).
THEOREM AppendOnlyCorrect == Spec => AppendOnly
<1>1. IInv /\ IInv' /\ [Next]_vars =>
         [\A p \in Written : p \in Written' /\ Entry(p[1], p[2])' = Entry(p[1], p[2])]_vars
  BY NextSame DEF IInv, Same
<1> QED
  BY <1>1, Inductive, PTL DEF Spec, AppendOnly

\* The head a lone log chains onto is the head on disk, unless a rotation threw
\* at its control line (MemoryIsDisk).
THEOREM MemoryIsDiskCorrect ==
  ASSUME \A k, l \in Logs : k = l
  PROVE  Spec => []MemoryIsDisk
<1>1. Init => MemoryIsDisk
  BY DEF Init, MemoryIsDisk, ClosedLog
<1>2. ASSUME IInv, MemoryIsDisk, [Next]_vars PROVE MemoryIsDisk'
  <2>0. Typed /\ Bounded
    BY <1>2 DEF IInv
  <2>1. SUFFICES ASSUME torn' = 0, NEW k \in Logs, log'[k].open
                 PROVE  log'[k].chain = active'.lines /\ log'[k].anchor = active'.anchor
    BY DEF MemoryIsDisk
  <2>2. /\ torn = 0
        /\ log[k].open => log[k].chain = active.lines /\ log[k].anchor = active.anchor
    <3>1. torn' \in {torn, torn + 1} /\ torn \in Nat
      BY <1>2, <2>0 DEF Typed, Next, vars, Open, AppendReceipt, AppendFails, ControlFails,
         Crash, CrashInRotation, CrashAfterWrite
    <3>2. torn = 0
      BY <2>1, <3>1
    <3> QED
      BY <1>2, <3>2 DEF MemoryIsDisk
  <2>3. ASSUME NEW l \in Logs, Open(l)
        PROVE  log'[k].chain = active'.lines /\ log'[k].anchor = active'.anchor
    BY <2>0, <2>3 DEF Open, Typed
  <2>4. ASSUME NEW l \in Logs, AppendReceipt(l)
        PROVE  log'[k].chain = active'.lines /\ log'[k].anchor = active'.anchor
    <3> DEFINE kept == IF Oversized THEN Rotated(l) ELSE log[l]
               file == IF Oversized THEN FreshFile(l) ELSE active
    <3>1. k = l /\ log[k].open
      BY <2>4 DEF AppendReceipt
    <3>2. kept \in LogRecords /\ file \in FileRecords
      BY <2>0, Pieces DEF Typed
    <3>3. kept.chain = file.lines /\ kept.anchor = file.anchor
      <4>1. Rotated(l).chain = FreshFile(l).lines /\ Rotated(l).anchor = FreshFile(l).anchor
        BY <2>0 DEF Rotated, FreshFile, File, Typed, LogRecords
      <4> QED
        BY <2>2, <3>1, <4>1
    <3>4. /\ log' = [log EXCEPT ![l] = [kept EXCEPT !.chain = Append(@, Minted(l))]]
          /\ active' = WithLine(file, Minted(l))
      BY <2>4 DEF AppendReceipt
    <3> HIDE DEF kept, file
    <3>5. log'[k] = [kept EXCEPT !.chain = Append(@, Minted(l))]
      BY <2>0, <3>1, <3>4 DEF Typed
    <3> QED
      BY <3>2, <3>3, <3>4, <3>5 DEF LogRecords, WithLine, File
  <2>5. ASSUME NEW l \in Logs, AppendFails(l)
        PROVE  log'[k].chain = active'.lines /\ log'[k].anchor = active'.anchor
    <3>1. k = l /\ log[k].open
      BY <2>5 DEF AppendFails
    <3>2. CASE active' = active /\ log' = log
      BY <2>1, <2>2, <3>2
    <3>3. CASE active' = FreshFile(l) /\ log' = [log EXCEPT ![l] = Rotated(l)]
      BY <2>0, <3>1, <3>3 DEF Rotated, FreshFile, File, Typed, LogRecords
    <3> QED
      BY <2>5, <3>2, <3>3 DEF AppendFails
  <2>6. ASSUME NEW l \in Logs, ControlFails(l) PROVE FALSE
    BY <2>0, <2>1, <2>2, <2>6 DEF ControlFails
  <2>7. ASSUME Crash \/ \E l \in Logs : CrashInRotation(l) \/ CrashAfterWrite(l) PROVE FALSE
    BY <2>1, <2>7 DEF Crash, CrashInRotation, CrashAfterWrite, ClosedLog
  <2>8. CASE UNCHANGED vars
    BY <2>1, <2>2, <2>8 DEF vars
  <2> QED
    BY <1>2, <2>3, <2>4, <2>5, <2>6, <2>7, <2>8 DEF Next
<1> QED
  BY <1>1, <1>2, Inductive, PTL DEF Spec

-----------------------------------------------------------------------------
(* One chain, and files that verify.  Damage is Breaks and Unverifiable     *)
(* together; the inductive invariant also counts the one a rotation torn at *)
(* its control line has in store for the next receipt: it is spent as a     *)
(* break when a log that was read back from no file writes it, and as a     *)
(* file that does not verify when the log that was open all along does.     *)

Latest(E) == CHOOSE q \in E : \A o \in E : o = q \/ Before(o, q)
HasLatest(E) == E = {} \/ \E q \in E : \A o \in E : o = q \/ Before(o, q)
HashAfter(E) == IF E = {} THEN GENESIS ELSE Entry(Latest(E)[1], Latest(E)[2]).hash
Earlier(p) == {q \in Written : Before(q, p)}

\* The receipts on disk have an order: before each of them there is a last one.
Ordered == HasLatest(Written) /\ \A p \in Written : HasLatest(Earlier(p))

ChainEnd(anchor, chain) == IF chain = <<>> THEN anchor ELSE chain[Len(chain)].hash
DiskEnd == ChainEnd(active.anchor, active.lines)
\* The path is empty, but for the segments: a rotation was torn.
Lost == ~active.exists /\ segments # <<>>
Debt == IF Lost THEN 1 ELSE 0

\* With a file, what a log chains onto is the last receipt on disk.
Heads ==
    /\ ~active.exists => active = NoFile
    /\ ~Lost => DiskEnd = HashAfter(Written)
    /\ \A l \in Logs : log[l].open =>
          /\ ~Lost => head(l) = DiskEnd
          /\ Lost => head(l) \in {HashAfter(Written), GENESIS}

Spent == Cardinality(Breaks) + Cardinality(Unverifiable) + Debt <= torn

Whole == Ordered /\ Heads /\ Spent

LEMMA LatestIs ==
  ASSUME NEW E, \A p \in E : p[1] \in Nat /\ p[2] \in Nat, NEW q \in E,
         \A o \in E : o = q \/ Before(o, q)
  PROVE  Latest(E) = q
<1>1. PICK r : r = Latest(E)
  OBVIOUS
<1>2. r \in E /\ \A o \in E : o = r \/ Before(o, r)
  BY <1>1 DEF Latest
<1>3. ~(Before(q, r) /\ Before(r, q))
  BY <1>2 DEF Before
<1> QED
  BY <1>1, <1>2, <1>3

\* What stays where it is keeps its hash.
LEMMA SameHash ==
  ASSUME NEW E, E \subseteq Written, HasLatest(E), \A p \in Written : Same(p)
  PROVE  HashAfter(E)' = HashAfter(E)
<1>1. E # {} => Latest(E) \in E
  BY DEF HasLatest, Latest
<1> QED
  BY <1>1 DEF HashAfter, Same

LEMMA PredecessorIs == ASSUME NEW p PROVE Predecessor(p) = HashAfter(Earlier(p))
  BY Zenon DEF Predecessor, HashAfter, Earlier, Latest

LEMMA SamePredecessor ==
  ASSUME Ordered, \A p \in Written : Same(p), NEW p \in Written, Earlier(p)' = Earlier(p)
  PROVE  Predecessor(p)' = Predecessor(p)
<1>1. PICK E : E = Earlier(p)
  OBVIOUS
<1>2. E \subseteq Written /\ HasLatest(E)
  BY <1>1 DEF Earlier, Ordered
<1>3. HashAfter(E)' = HashAfter(E)
  BY <1>2, SameHash
<1>4. Predecessor(p)' = HashAfter(Earlier(p))'
  BY Zenon DEF Predecessor, HashAfter, Earlier, Latest
<1>5. HashAfter(Earlier(p))' = HashAfter(E)'
  BY <1>1 DEF HashAfter
<1> QED
  BY <1>1, <1>3, <1>4, <1>5, PredecessorIs

\* Nothing is written: nothing breaks, and the last receipt is the same.
LEMMA QuietChain ==
  ASSUME Ordered, Written' = Written, \A p \in Written : Same(p)
  PROVE  Ordered' /\ Breaks' = Breaks /\ HashAfter(Written)' = HashAfter(Written)
<1>1. \A p : Earlier(p)' = Earlier(p)
  BY DEF Earlier
<1>2. \A p \in Written : Predecessor(p)' = Predecessor(p)
  BY <1>1, SamePredecessor
<1>3. Breaks' = Breaks
  BY <1>2 DEF Breaks, Same
<1>4. Ordered'
  BY <1>1 DEF Ordered, HasLatest
<1>5. HashAfter(Written)' = HashAfter(Written)
  <2>1. PICK E : E = Written
    OBVIOUS
  <2>2. HashAfter(E)' = HashAfter(E)
    BY <2>1, SameHash DEF Ordered
  <2>3. HashAfter(Written)' = HashAfter(E)'
    BY <2>1 DEF HashAfter
  <2> QED
    BY <2>1, <2>2, <2>3
<1> QED
  BY <1>3, <1>4, <1>5

\* A receipt behind all the others breaks the chain only if it is not chained
\* onto the last of them.
LEMMA LongerChain ==
  ASSUME Typed', Bounded', Ordered, NEW n, n \notin Written, Written' = Written \cup {n},
         \A p \in Written : Same(p) /\ Before(p, n), NEW r, Entry(n[1], n[2])' = r
  PROVE  /\ Ordered' /\ HashAfter(Written)' = r.hash
         /\ Breaks' \subseteq Breaks \cup {n}
         /\ r.prev = HashAfter(Written) => Breaks' \subseteq Breaks
<1>0. \A p \in Written' : p[1] \in Nat /\ p[2] \in Nat
  <2>1. (Typed /\ Bounded => Placed)'
    BY WrittenAre, PTL
  <2>2. \A p \in Written' : p[1] \in 1 .. Len(Files') /\ p[2] \in 1 .. Len(Files'[p[1]].lines)
    BY <2>1 DEF Placed
  <2> QED
    BY <2>2
<1>1. ~Before(n, n) /\ \A p \in Written : ~Before(n, p)
  BY <1>0 DEF Before
<1>2. /\ \A p \in Written : Earlier(p)' = Earlier(p)
      /\ Earlier(n)' = Written
  BY <1>1 DEF Earlier
<1>3. \A p \in Written : Predecessor(p)' = Predecessor(p)
  BY <1>2, SamePredecessor
<1>4. PICK W : W = Written
  OBVIOUS
<1>5. Predecessor(n)' = HashAfter(Written)
  <2>1. HashAfter(W)' = HashAfter(W)
    BY <1>4, SameHash DEF Ordered
  <2>2. Predecessor(n)' = HashAfter(Earlier(n))'
    BY Zenon DEF Predecessor, HashAfter, Earlier, Latest
  <2>3. HashAfter(Earlier(n))' = HashAfter(W)'
    BY <1>2, <1>4 DEF HashAfter
  <2> QED
    BY <1>4, <2>1, <2>2, <2>3
<1>6. /\ Breaks' \subseteq Breaks \cup {n}
      /\ r.prev = HashAfter(Written) => Breaks' \subseteq Breaks
  <2>1. \A p \in Breaks' : /\ p \in Written \/ p = n
                           /\ Entry(p[1], p[2])'.prev # Predecessor(p)'
    BY DEF Breaks
  <2>2. \A p \in Breaks' : p \in Written => p \in Breaks
    BY <1>3, <2>1 DEF Breaks, Same
  <2>3. r.prev = HashAfter(Written) => n \notin Breaks'
    BY <1>5, <2>1
  <2> QED
    BY <2>1, <2>2, <2>3
<1>7. \A o \in Written' : o = n \/ Before(o, n)
  OBVIOUS
<1>8. Latest(Written') = n
  BY <1>0, <1>7, LatestIs
<1>9. Ordered'
  <2>1. HasLatest(Written)'
    BY <1>7 DEF HasLatest
  <2>2. HasLatest(Earlier(n))'
    BY <1>2, <1>4 DEF Ordered, HasLatest
  <2>3. \A p \in Written : HasLatest(Earlier(p))'
    BY <1>2 DEF Ordered, HasLatest
  <2> QED
    BY <2>1, <2>2, <2>3 DEF Ordered
<1>10. HashAfter(Written)' = r.hash
  BY <1>8 DEF HashAfter
<1> QED
  BY <1>6, <1>9, <1>10

\* Chains, and the files that hold them.
LEMMA LastOne ==
  ASSUME NEW anchor, NEW chain \in Seq(Receipts), NEW r \in Receipts
  PROVE  ChainEnd(anchor, Append(chain, r)) = r.hash
<1>1. /\ Len(Append(chain, r)) = Len(chain) + 1 /\ Append(chain, r) # <<>>
      /\ Append(chain, r)[Len(chain) + 1] = r
  BY AppendProperties
<1> QED
  BY <1>1 DEF ChainEnd

LEMMA LinkedMore ==
  ASSUME NEW anchor, NEW chain \in Seq(Receipts), NEW r \in Receipts
  PROVE  Linked(anchor, chain) /\ r.prev = ChainEnd(anchor, chain)
           => Linked(anchor, Append(chain, r))
<1>1. /\ Len(Append(chain, r)) = Len(chain) + 1 /\ Len(chain) \in Nat
      /\ DOMAIN Append(chain, r) = 1 .. Len(chain) + 1 /\ DOMAIN chain = 1 .. Len(chain)
      /\ \A i \in 1 .. Len(chain) : Append(chain, r)[i] = chain[i]
      /\ Append(chain, r)[Len(chain) + 1] = r
      /\ chain = <<>> <=> Len(chain) = 0
  BY AppendProperties, LenProperties, EmptySeq
<1>2. ASSUME Linked(anchor, chain), r.prev = ChainEnd(anchor, chain)
      PROVE  Linked(anchor, Append(chain, r))
  <2> SUFFICES ASSUME NEW i \in 1 .. Len(chain) + 1
               PROVE  Append(chain, r)[i].prev =
                          IF i = 1 THEN anchor ELSE Append(chain, r)[i - 1].hash
    BY <1>1 DEF Linked
  <2>1. CASE i \in 1 .. Len(chain)
    <3>1. i # 1 => i - 1 \in 1 .. Len(chain)
      BY <1>1, <2>1
    <3> QED
      BY <1>1, <1>2, <2>1, <3>1 DEF Linked
  <2>2. CASE i = Len(chain) + 1
    <3>1. i # 1 => i - 1 = Len(chain) /\ Len(chain) \in 1 .. Len(chain) /\ chain # <<>>
      BY <1>1, <2>2
    <3>2. i = 1 => chain = <<>>
      BY <1>1, <2>2
    <3> QED
      BY <1>1, <1>2, <2>2, <3>1, <3>2 DEF ChainEnd
  <2> QED
    BY <1>1, <2>1, <2>2
<1> QED
  BY <1>2

LEMMA RolledVerify ==
  ASSUME Typed, Bounded, Typed', Bounded', segments' = Append(segments, active), verify(active')
  PROVE  Unverifiable' = Unverifiable
<1>1. Laid /\ Laid'
  BY NowAndThen
<1>2. /\ Len(Files') = Len(Files) + 1 /\ Len(Files) \in Nat
      /\ \A f \in 1 .. Len(Files) : Files'[f] = Files[f]
      /\ Files'[Len(Files) + 1] = active'
  BY <1>1, RolledFiles DEF Laid
<1>3. \A f \in 1 .. Len(Files) + 1 : f \in 1 .. Len(Files) \/ f = Len(Files) + 1
  BY <1>2
<1>4. \A f \in 1 .. Len(Files) : f \in 1 .. Len(Files) + 1
  BY <1>2
<1> QED
  BY <1>2, <1>3, <1>4 DEF Unverifiable

LEMMA WroteVerify ==
  ASSUME Typed, Bounded, Typed', Bounded', segments' = segments
  PROVE  /\ Unverifiable' \subseteq Unverifiable \cup {Len(Files)}
         /\ (verify(active) => verify(active')) => Unverifiable' \subseteq Unverifiable
<1>1. Laid /\ Laid'
  BY NowAndThen
<1>2. /\ Len(Files') = Len(Files) /\ Len(Files) \in Nat \ {0}
      /\ \A f \in 1 .. Len(Files) : f # Len(Files) => Files'[f] = Files[f]
      /\ Files'[Len(Files)] = active' /\ Files[Len(Files)] = active
  BY <1>1 DEF Laid
<1> QED
  BY <1>2 DEF Unverifiable

-----------------------------------------------------------------------------
(* Counting the damage.                                                     *)

LEMMA DamageFinite ==
  ASSUME Typed, Bounded, Unique
  PROVE  /\ IsFiniteSet(Breaks) /\ IsFiniteSet(Unverifiable)
         /\ Cardinality(Breaks) \in Nat /\ Cardinality(Unverifiable) \in Nat
         /\ torn \in Nat
<1>1. IsFiniteSet(Written)
  <2> DEFINE hash == [p \in Written |-> Entry(p[1], p[2]).hash]
  <2>1. IsFiniteSet(Hashes)
    BY HashesFinite
  <2>2. hash \in Injection(Written, Hashes)
    BY DEF Unique, Hashes, Injection, IsInjective
  <2> QED
    BY <2>1, <2>2, FS_Injection
<1>2. IsFiniteSet(Breaks)
  BY <1>1, FS_Subset DEF Breaks
<1>3. IsFiniteSet(Unverifiable)
  <2>1. Len(Files) \in Nat
    BY FilesAre DEF Laid
  <2>2. IsFiniteSet(1 .. Len(Files))
    BY <2>1, FS_Interval
  <2> QED
    BY <2>2, FS_Subset DEF Unverifiable
<1>4. torn \in Nat
  BY DEF Typed
<1> QED
  BY <1>2, <1>3, <1>4, FS_CardinalityType

\* No more damage than before, and none in store that no tear put there.
LEMMA SpentStays ==
  ASSUME Typed, Bounded, Unique, Spent, Breaks' \subseteq Breaks,
         Unverifiable' \subseteq Unverifiable,
         \/ torn' = torn /\ (Lost' => Lost)
         \/ torn' = torn + 1
  PROVE  Spent'
<1>1. /\ Cardinality(Breaks') <= Cardinality(Breaks) /\ Cardinality(Breaks') \in Nat
      /\ Cardinality(Unverifiable') <= Cardinality(Unverifiable)
      /\ Cardinality(Unverifiable') \in Nat
  BY DamageFinite, FS_Subset, FS_CardinalityType
<1>2. Debt \in {0, 1} /\ Debt' \in {0, 1} /\ (torn' = torn => Debt' <= Debt)
  BY DamageFinite DEF Debt
<1> QED
  BY <1>1, <1>2, DamageFinite DEF Spent

LEMMA OneMore ==
  ASSUME NEW S, IsFiniteSet(S), NEW x
  PROVE  /\ IsFiniteSet(S \cup {x}) /\ Cardinality(S \cup {x}) \in Nat
         /\ Cardinality(S \cup {x}) <= Cardinality(S) + 1
<1>1. Cardinality(S) \in Nat
  BY FS_CardinalityType
<1>2. IsFiniteSet(S \cup {x})
  BY FS_AddElement
<1>3. Cardinality(S \cup {x}) \in {Cardinality(S), Cardinality(S) + 1}
  BY FS_AddElement
<1> QED
  BY <1>1, <1>2, <1>3, FS_CardinalityType

\* What was in store happens, once.
LEMMA SpentNow ==
  ASSUME Typed, Bounded, Unique, Spent, Lost, ~Lost', torn' = torn, NEW n, NEW f,
         \/ Breaks' \subseteq Breaks \cup {n} /\ Unverifiable' \subseteq Unverifiable
         \/ Breaks' \subseteq Breaks /\ Unverifiable' \subseteq Unverifiable \cup {f}
  PROVE  Spent'
<1>1. /\ IsFiniteSet(Breaks \cup {n}) /\ Cardinality(Breaks \cup {n}) <= Cardinality(Breaks) + 1
      /\ IsFiniteSet(Unverifiable \cup {f})
      /\ Cardinality(Unverifiable \cup {f}) <= Cardinality(Unverifiable) + 1
      /\ Cardinality(Breaks \cup {n}) \in Nat /\ Cardinality(Unverifiable \cup {f}) \in Nat
  BY DamageFinite, OneMore
<1>2. Debt = 1 /\ Debt' = 0
  BY DEF Debt
<1>3. CASE Breaks' \subseteq Breaks \cup {n} /\ Unverifiable' \subseteq Unverifiable
  <2>1. /\ Cardinality(Breaks') <= Cardinality(Breaks \cup {n}) /\ Cardinality(Breaks') \in Nat
        /\ Cardinality(Unverifiable') <= Cardinality(Unverifiable)
        /\ Cardinality(Unverifiable') \in Nat
    BY <1>1, <1>3, DamageFinite, FS_Subset, FS_CardinalityType
  <2> QED
    BY <1>1, <1>2, <2>1, DamageFinite DEF Spent
<1>4. CASE Breaks' \subseteq Breaks /\ Unverifiable' \subseteq Unverifiable \cup {f}
  <2>1. /\ Cardinality(Breaks') <= Cardinality(Breaks) /\ Cardinality(Breaks') \in Nat
        /\ Cardinality(Unverifiable') <= Cardinality(Unverifiable \cup {f})
        /\ Cardinality(Unverifiable') \in Nat
    BY <1>1, <1>4, DamageFinite, FS_Subset, FS_CardinalityType
  <2> QED
    BY <1>1, <1>2, <2>1, DamageFinite DEF Spent
<1> QED
  BY <1>3, <1>4
-----------------------------------------------------------------------------
(* The steps.                                                               *)

LEMMA HeadIs == ASSUME NEW l PROVE head(l) = ChainEnd(log[l].anchor, log[l].chain)
  BY DEF head, ChainEnd

LEMMA InitWhole == Init => Whole
<1> SUFFICES ASSUME Init PROVE Whole
  OBVIOUS
<1>1. Typed /\ Bounded /\ Laid /\ Placed
  BY InitIInv, FilesAre, WrittenAre DEF IInv
<1>2. segments = <<>> /\ active = NoFile /\ torn = 0 /\ \A l \in Logs : ~log[l].open
  BY DEF Init, ClosedLog
<1>3. Len(Files) = 1 /\ Files[1] = NoFile
  BY <1>1, <1>2 DEF Laid
<1>4. Written = {}
  BY <1>1, <1>3 DEF Placed, NoFile
<1>5. Breaks = {}
  BY <1>4 DEF Breaks
<1>6. verify(NoFile)
  BY DEF verify, Linked, NoFile
<1>7. Unverifiable = {}
  BY <1>3, <1>6 DEF Unverifiable
<1>8. ~Lost /\ DiskEnd = GENESIS
  BY <1>2 DEF Lost, DiskEnd, ChainEnd, NoFile
<1>9. Ordered /\ HashAfter(Written) = GENESIS
  BY <1>4 DEF Ordered, HasLatest, HashAfter
<1>10. Heads
  BY <1>2, <1>8, <1>9 DEF Heads
<1>11. Spent
  BY <1>2, <1>5, <1>7, <1>8, FS_EmptySet DEF Spent, Debt
<1> QED
  BY <1>9, <1>10, <1>11 DEF Whole

\* The files stay as they are; a log that opens reads its head back from them.
LEMMA StillWhole ==
  ASSUME IInv, IInv', Whole, Still, torn' = torn,
         \A l \in Logs : log'[l].open =>
             \/ log'[l] = log[l]
             \/ log'[l].chain = active.lines /\ log'[l].anchor = active.anchor
  PROVE  Whole'
<1>1. /\ Written' = Written /\ \A p \in Written : Same(p)
      /\ Ordered' /\ Breaks' = Breaks /\ HashAfter(Written)' = HashAfter(Written)
  BY StillWritten, QuietChain DEF IInv, Whole
<1>2. active' = active /\ segments' = segments /\ Files' = Files
  BY DEF Still, Files
<1>3. Unverifiable' = Unverifiable /\ Lost' = Lost /\ DiskEnd' = DiskEnd
  BY <1>2 DEF Unverifiable, verify, Linked, Lost, DiskEnd, ChainEnd
<1>4. Heads'
  <2>1. ~active'.exists => active' = NoFile
    BY <1>2 DEF Whole, Heads
  <2>2. ~Lost' => DiskEnd' = HashAfter(Written)'
    BY <1>1, <1>3 DEF Whole, Heads
  <2>3. ASSUME NEW l \in Logs, log'[l].open
        PROVE  /\ ~Lost' => head(l)' = DiskEnd'
               /\ Lost' => head(l)' \in {HashAfter(Written)', GENESIS}
    <3>1. CASE log'[l] = log[l]
      <4>1. head(l)' = head(l) /\ log[l].open
        BY <2>3, <3>1 DEF head
      <4> QED
        BY <1>1, <1>3, <4>1 DEF Whole, Heads
    <3>2. CASE log'[l].chain = active.lines /\ log'[l].anchor = active.anchor
      <4>1. head(l)' = DiskEnd
        BY <3>2 DEF head, DiskEnd, ChainEnd
      <4>2. Lost => DiskEnd = GENESIS
        BY DEF Whole, Heads, Lost, DiskEnd, ChainEnd, NoFile
      <4> QED
        BY <1>3, <4>1, <4>2
    <3> QED
      BY <2>3, <3>1, <3>2
  <2> QED
    BY <2>1, <2>2, <2>3 DEF Heads
<1>5. Spent'
  BY <1>1, <1>3, SpentStays DEF IInv, Whole
<1> QED
  BY <1>1, <1>4, <1>5 DEF Whole

\* A rotation, with its control line or torn before it.
LEMMA RolledWhole ==
  ASSUME IInv, IInv', Whole, NEW l \in Logs, \A k \in Logs : k = l, log[l].open,
         Oversized, segments' = Append(segments, active), minted' \in {minted, minted + 1},
         \/ /\ active' = FreshFile(l) /\ torn' = torn
            /\ ~log'[l].open \/ log'[l] = Rotated(l)
         \/ /\ active' = NoFile /\ torn' = torn + 1
            /\ ~log'[l].open \/ log'[l] = log[l]
  PROVE  Whole'
<1>0. Typed /\ Bounded /\ Unique /\ Typed' /\ Bounded' /\ Ordered /\ Heads /\ Spent
  BY DEF IInv, Whole
<1>1. active.exists /\ ~Lost /\ head(l) = DiskEnd /\ head(l) = HashAfter(Written)
  BY <1>0 DEF Oversized, Lost, Heads
<1>2. /\ Written' = Written /\ \A p \in Written : Same(p)
      /\ Ordered' /\ Breaks' = Breaks /\ HashAfter(Written)' = HashAfter(Written)
  <2>1. RolledOver
    BY DEF RolledOver
  <2> QED
    BY <1>0, <2>1, RolledWritten, QuietChain
<1>3. Unverifiable' = Unverifiable
  <2>1. active'.lines = <<>>
    BY DEF FreshFile, File, NoFile
  <2>2. verify(active')
    BY <2>1 DEF verify, Linked
  <2> QED
    BY <1>0, <2>2, RolledVerify
<1>4. segments' # <<>>
  BY <1>0, AppendProperties DEF Typed
<1>5. CASE active' = FreshFile(l) /\ torn' = torn /\ (~log'[l].open \/ log'[l] = Rotated(l))
  <2>1. active'.exists /\ active'.lines = <<>> /\ active'.anchor = head(l)
    BY <1>5 DEF FreshFile, File
  <2>2. ~Lost' /\ DiskEnd' = head(l)
    BY <2>1 DEF Lost, DiskEnd, ChainEnd
  <2>3. log'[l].open => head(l)' = head(l)
    <3>1. log'[l].open => log'[l].chain = <<>> /\ log'[l].anchor = head(l)
      BY <1>0, <1>5 DEF Rotated, Typed, LogRecords
    <3> QED
      BY <3>1 DEF head
  <2>4. Heads'
    BY <1>1, <1>2, <2>1, <2>2, <2>3 DEF Heads
  <2>5. Spent'
    BY <1>0, <1>2, <1>3, <1>5, <2>2, SpentStays
  <2> QED
    BY <1>2, <2>4, <2>5 DEF Whole
<1>6. CASE active' = NoFile /\ torn' = torn + 1 /\ (~log'[l].open \/ log'[l] = log[l])
  <2>1. Lost'
    BY <1>4, <1>6 DEF Lost, NoFile
  <2>2. log'[l].open => head(l)' = head(l)
    BY <1>6 DEF head
  <2>3. Heads'
    BY <1>1, <1>2, <1>6, <2>1, <2>2 DEF Heads
  <2>4. Spent'
    BY <1>0, <1>2, <1>3, <1>6, SpentStays
  <2> QED
    BY <1>2, <2>3, <2>4 DEF Whole
<1> QED
  BY <1>5, <1>6

\* A receipt is written behind the others, on the file there is, on a fresh one
\* or on none.
LEMMA WroteWhole ==
  ASSUME IInv, IInv', Whole, NEW l \in Logs, \A k \in Logs : k = l, log[l].open,
         Wrote(l), torn' = torn,
         \/ ~log'[l].open
         \/ log'[l] = [(IF Oversized THEN Rotated(l) ELSE log[l])
                          EXCEPT !.chain = Append(@, Minted(l))]
  PROVE  Whole'
<1>0. /\ Typed /\ Bounded /\ Unique /\ Typed' /\ Bounded' /\ Ordered /\ Heads /\ Spent
      /\ Minted(l) \in Receipts /\ Minted(l).prev = head(l)
      /\ active \in FileRecords /\ active.lines \in Seq(Receipts)
  <2>1. Typed /\ Bounded /\ Unique /\ Typed' /\ Bounded' /\ Ordered /\ Heads /\ Spent
    BY DEF IInv, Whole
  <2> QED
    BY <2>1, Pieces DEF Minted, Typed, FileRecords
<1>1. PICK n, r :
         /\ n = <<Len(Files'), Len(active'.lines)>> /\ r = Minted(l)
         /\ n \notin Written /\ Written' = Written \cup {n}
         /\ Entry(n[1], n[2])' = r
         /\ \A p \in Written : Same(p) /\ Before(p, n)
  BY <1>0, WroteWritten
<1>2. /\ Ordered' /\ HashAfter(Written)' = r.hash
      /\ Breaks' \subseteq Breaks \cup {n}
      /\ r.prev = HashAfter(Written) => Breaks' \subseteq Breaks
  BY <1>0, <1>1, LongerChain
<1>3. r \in Receipts /\ r.prev = head(l)
  BY <1>0, <1>1
<1>4. PICK file : /\ file = (IF Oversized THEN FreshFile(l) ELSE active)
                  /\ active' = WithLine(file, r) /\ file \in FileRecords
  <2>1. FreshFile(l) \in FileRecords
    BY <1>0, Pieces
  <2> QED
    BY <1>0, <1>1, <2>1 DEF Wrote
<1>5. /\ active'.exists /\ active'.anchor = file.anchor
      /\ active'.lines = Append(file.lines, r) /\ file.lines \in Seq(Receipts)
  BY <1>4 DEF WithLine, File, FileRecords
<1>6. ~Lost' /\ DiskEnd' = r.hash
  <2>1. ChainEnd(file.anchor, Append(file.lines, r)) = r.hash
    BY <1>3, <1>5, LastOne
  <2> QED
    BY <1>5, <2>1 DEF Lost, DiskEnd
<1>7. log'[l].open => head(l)' = r.hash
  <2>1. PICK kept : kept = (IF Oversized THEN Rotated(l) ELSE log[l])
    OBVIOUS
  <2>2. kept \in LogRecords
    BY <1>0, <2>1, Pieces DEF Typed
  <2>3. log'[l].open => log'[l] = [kept EXCEPT !.chain = Append(@, r)]
    BY <1>1, <2>1
  <2>4. log'[l].open => log'[l].chain = Append(kept.chain, r)
    BY <2>2, <2>3 DEF LogRecords
  <2>5. ChainEnd(log'[l].anchor, Append(kept.chain, r)) = r.hash
    <3>1. PICK anchor, chain : anchor = log'[l].anchor /\ chain = kept.chain
      OBVIOUS
    <3>2. chain \in Seq(Receipts)
      BY <2>2, <3>1 DEF LogRecords
    <3>3. r \in Receipts
      BY <1>3
    <3>4. ChainEnd(anchor, Append(chain, r)) = r.hash
      BY <3>2, <3>3, LastOne
    <3> QED
      BY <3>1, <3>4
  <2>6. head(l)' = ChainEnd(log'[l].anchor, log'[l].chain)
    BY DEF head, ChainEnd
  <2> QED
    BY <2>4, <2>5, <2>6
<1>8. Heads'
  BY <1>2, <1>5, <1>6, <1>7 DEF Heads
<1>9. CASE ~Lost
  <2>1. r.prev = HashAfter(Written) /\ r.prev = DiskEnd
    BY <1>0, <1>3, <1>9 DEF Heads
  <2>2. r.prev = ChainEnd(file.anchor, file.lines)
    <3>1. CASE Oversized
      BY <1>3, <1>4, <3>1 DEF FreshFile, File, ChainEnd
    <3>2. CASE ~Oversized
      BY <1>4, <2>1, <3>2 DEF DiskEnd
    <3> QED
      BY <3>1, <3>2
  <2>3. verify(file) => verify(active')
    BY <1>3, <1>5, <2>2, LinkedMore DEF verify
  <2>4. Unverifiable' \subseteq Unverifiable
    <3>1. CASE Oversized
      <4>1. verify(FreshFile(l))
        BY DEF verify, Linked, FreshFile, File
      <4>2. verify(active') /\ segments' = Append(segments, active)
        BY <1>4, <2>3, <3>1, <4>1 DEF Wrote
      <4> QED
        BY <1>0, <4>2, RolledVerify
    <3>2. CASE ~Oversized
      <4>1. segments' = segments /\ file = active
        BY <1>4, <3>2 DEF Wrote
      <4> QED
        BY <1>0, <2>3, <4>1, WroteVerify
    <3> QED
      BY <3>1, <3>2
  <2>5. Spent'
    BY <1>0, <1>2, <1>6, <2>1, <2>4, SpentStays
  <2> QED
    BY <1>2, <1>8, <2>5 DEF Whole
<1>10. CASE Lost
  <2>1. ~Oversized /\ active = NoFile /\ segments' = segments /\ file = NoFile
    <3>1. ~Oversized /\ active = NoFile
      BY <1>0, <1>10 DEF Lost, Oversized, Heads
    <3> QED
      BY <1>4, <3>1 DEF Wrote
  <2>2. /\ Unverifiable' \subseteq Unverifiable \cup {Len(Files)}
        /\ (verify(active) => verify(active')) => Unverifiable' \subseteq Unverifiable
    BY <1>0, <2>1, WroteVerify
  <2>3. r.prev = HashAfter(Written) \/ r.prev = GENESIS
    BY <1>0, <1>3, <1>10 DEF Heads
  <2>4. r.prev = GENESIS => verify(active')
    <3>1. verify(NoFile) /\ GENESIS = ChainEnd(NoFile.anchor, NoFile.lines)
      BY DEF verify, Linked, NoFile, ChainEnd
    <3> QED
      BY <1>3, <1>5, <2>1, <3>1, LinkedMore DEF verify
  <2>5. \/ Breaks' \subseteq Breaks \cup {n} /\ Unverifiable' \subseteq Unverifiable
        \/ Breaks' \subseteq Breaks /\ Unverifiable' \subseteq Unverifiable \cup {Len(Files)}
    BY <1>2, <2>2, <2>3, <2>4
  <2>6. Spent'
    BY <1>0, <1>6, <1>10, <2>5, SpentNow
  <2> QED
    BY <1>2, <1>8, <2>6 DEF Whole
<1> QED
  BY <1>9, <1>10

LEMMA NextWhole ==
  ASSUME IInv, IInv', Whole, \A k, l \in Logs : k = l, [Next]_vars
  PROVE  Whole'
<1>0. log \in [Logs -> LogRecords]
  BY DEF IInv, Typed
<1>1. ASSUME NEW l \in Logs, Open(l) PROVE Whole'
  <2>1. log'[l].chain = active.lines /\ log'[l].anchor = active.anchor
    BY <1>0, <1>1 DEF Open
  <2>2. Still /\ torn' = torn
    BY <1>1 DEF Open, Still
  <2> QED
    BY <2>1, <2>2, StillWhole
<1>2. ASSUME NEW l \in Logs, AppendReceipt(l) PROVE Whole'
  <2>1. Wrote(l) /\ torn' = torn /\ log[l].open
    BY <1>2 DEF AppendReceipt, Wrote
  <2>2. log' = [log EXCEPT ![l] = [(IF Oversized THEN Rotated(l) ELSE log[l])
                                      EXCEPT !.chain = Append(@, Minted(l))]]
    BY <1>2 DEF AppendReceipt
  <2>3. log'[l] = [(IF Oversized THEN Rotated(l) ELSE log[l])
                      EXCEPT !.chain = Append(@, Minted(l))]
    BY <1>0, <2>2
  <2> QED
    BY <2>1, <2>3, WroteWhole
<1>3. ASSUME NEW l \in Logs, AppendFails(l) PROVE Whole'
  <2>1. log[l].open /\ minted' = minted + 1 /\ torn' = torn
    BY <1>3 DEF AppendFails
  <2>2. CASE UNCHANGED <<segments, active, log>>
    <3>1. Still
      BY <2>1, <2>2 DEF Still
    <3> QED
      BY <2>1, <2>2, <3>1, StillWhole
  <2>3. CASE /\ Oversized
             /\ segments' = Append(segments, active)
             /\ active' = FreshFile(l)
             /\ log' = [log EXCEPT ![l] = Rotated(l)]
    <3>1. log'[l] = Rotated(l)
      BY <1>0, <2>3
    <3> QED
      BY <2>1, <2>3, <3>1, RolledWhole
  <2> QED
    BY <1>3, <2>2, <2>3 DEF AppendFails
<1>4. ASSUME NEW l \in Logs, ControlFails(l) PROVE Whole'
  <2>1. /\ log[l].open /\ Oversized /\ segments' = Append(segments, active)
        /\ minted' = minted + 1 /\ active' = NoFile /\ torn' = torn + 1 /\ log' = log
    BY <1>4 DEF ControlFails
  <2> QED
    BY <2>1, RolledWhole
<1>5. ASSUME Crash PROVE Whole'
  <2>1. Still /\ torn' = torn /\ \A l \in Logs : ~log'[l].open
    BY <1>5 DEF Crash, Still, ClosedLog
  <2> QED
    BY <2>1, StillWhole
<1>6. ASSUME NEW l \in Logs, CrashInRotation(l) PROVE Whole'
  <2>1. /\ log[l].open /\ Oversized /\ segments' = Append(segments, active)
        /\ minted' = minted /\ ~log'[l].open
        /\ \/ active' = FreshFile(l) /\ torn' = torn
           \/ active' = NoFile /\ torn' = torn + 1
    BY <1>6 DEF CrashInRotation, ClosedLog
  <2> QED
    BY <2>1, RolledWhole
<1>7. ASSUME NEW l \in Logs, CrashAfterWrite(l) PROVE Whole'
  <2>1. Wrote(l) /\ torn' = torn /\ log[l].open /\ ~log'[l].open
    BY <1>7 DEF CrashAfterWrite, Wrote, ClosedLog
  <2> QED
    BY <2>1, WroteWhole
<1>8. CASE UNCHANGED vars
  <2>1. Still /\ torn' = torn /\ log' = log
    BY <1>8 DEF vars, Still
  <2> QED
    BY <2>1, StillWhole
<1> QED
  BY <1>1, <1>2, <1>3, <1>4, <1>5, <1>6, <1>7, <1>8 DEF Next

\* For a log alone on its path: each fault between the rename and the control
\* line spoils at most one link of the chain or one file, once, and no other
\* fault spoils either (DamageOnlyByTornRotation; capability-receipt.js:205, :281).
THEOREM DamageOnlyByTornRotationCorrect ==
  ASSUME \A k, l \in Logs : k = l
  PROVE  Spec => []DamageOnlyByTornRotation
<1>1. Init => Whole
  BY InitWhole
<1>2. IInv /\ IInv' /\ Whole /\ [Next]_vars => Whole'
  BY NextWhole
<1>3. ASSUME IInv, Whole PROVE DamageOnlyByTornRotation
  <2>1. Debt \in {0, 1}
    BY DEF Debt
  <2>2. Typed /\ Bounded /\ Unique /\ Spent
    BY <1>3 DEF IInv, Whole
  <2> QED
    BY <2>1, <2>2, DamageFinite DEF Spent, DamageOnlyByTornRotation
<1> QED
  BY <1>1, <1>2, <1>3, Inductive, PTL DEF Spec
=============================================================================
