--------------------------- MODULE PipelineProofs ---------------------------
(***************************************************************************)
(* Proofs about Pipeline, for every number of stages, every set of          *)
(* definitions and texts, and any number of edits, faults and runs.         *)
(***************************************************************************)
EXTENDS Pipeline, TLAPS

-----------------------------------------------------------------------------
(* The inductive invariant.  What a stage's files say holds in every state; *)
(* what the run has established holds while nobody touches the files.       *)

\* Only a finished or a running stage names what it was made from, and a
\* finished one's output is the recorded one unless a person typed it.
Recorded ==
    \A s \in Stages :
        /\ meta[s].status \in {"none", "failed", "blocked"} => meta[s].print = NoPrint
        /\ meta[s].status = "done" /\ out[s] # NoText => out[s] = meta[s].hash \/ typed[s]

\* A run that no failed stage blocks goes no further than where it is to stop.
OnTheWay ==
    /\ run.pc \in InStage => ~run.blocked
    /\ ~run.blocked => run.at <= run.stop

\* The stage being run is marked, and its runner's answer is on its way.
Marked ==
    /\ run.pc \in InStage => meta[run.at].status = "running" /\ run.print # NoPrint
    /\ run.pc \in {"write", "record"} => run.text \in Texts
    /\ run.pc = "record" => out[run.at] \in {NoText, run.text} \/ typed[run.at]

\* The directory is as the run found it, and the stages behind it are current.
Settled ==
    ~run.touched =>
        /\ run.pc \in Active => run.defs = def
        /\ run.pc \in InStage => run.print = PrintOf(def[run.at], Prior(run.at))
        /\ run.pc = "record" => out[run.at] = run.text
        /\ run.pc \in Active /\ ~run.blocked => \A s \in 1 .. run.at - 1 : Current(s)
        /\ run.pc = "ended" /\ ~run.blocked => run.at = run.stop /\ \A s \in 1 .. run.at : Current(s)

\* What an edited output was typed over is still what its stage is recorded
\* to have read, unless a fault hit it or the stage is being run again.
Typed ==
    \A s \in Stages :
        typed[s] =>
            /\ out[s] # NoText
            /\ \/ base[s] = NoPrint \/ lost[s]
               \/ run.pc \in InStage /\ run.at = s
               \/ meta[s].status = "done" /\ meta[s].print = base[s]

\* A stage that is being run over an edited output has a reason to.
Reason ==
    /\ run.pc \in InStage /\ typed[run.at] => run.force \/ lost[run.at] \/ run.print # base[run.at]
    /\ run.pc = "record" /\ typed[run.at] => base[run.at] = NoPrint

IInv == TypeOK /\ OnTheWay /\ Recorded /\ Marked /\ Settled /\ Typed /\ Reason

-----------------------------------------------------------------------------
LEMMA MetaTypes ==
  /\ NoPrint \in Prints /\ NoMeta \in Metas /\ NoMeta.print = NoPrint
  /\ [NoMeta EXCEPT !.status = "blocked"] \in Metas
  /\ [NoMeta EXCEPT !.status = "failed"] \in Metas
  /\ \A p \in Prints, t \in Texts \cup {NoText}, st \in {"running", "done"} :
        [status |-> st, print |-> p, hash |-> t] \in Metas
<1>1. NoPrint \in Prints
  BY DEF Prints
<1> QED
  BY <1>1 DEF Metas, NoMeta

LEMMA IdleType == ASSUME NAssumption, def \in [Stages -> Defs] PROVE Idle \in Runs
  BY MetaTypes DEF Idle, Runs, NAssumption, Stages

LEMMA InitType == ASSUME NAssumption PROVE Init => TypeOK
  BY MetaTypes, IdleType DEF Init, TypeOK

(* What a stage is told and what it reads make a fingerprint. *)
LEMMA PriorType == ASSUME NAssumption, TypeOK, NEW s \in Stages PROVE Prior(s) \in Texts \cup {NoText}
  BY DEF TypeOK, Prior, Stages, NAssumption

LEMMA PrintType ==
  ASSUME NEW d \in Defs, NEW t \in Texts
  PROVE  PrintOf(d, t) \in Prints /\ PrintOf(d, t) # NoPrint
  BY DEF PrintOf, Prints, NoPrint

(* Where a run goes after a stage. *)
LEMMA AdvancedType ==
  ASSUME NAssumption, TypeOK, run.at <= run.stop, NEW b \in BOOLEAN
  PROVE  /\ Advanced(b) \in Runs
         /\ ~Advanced(b).blocked => Advanced(b).at <= Advanced(b).stop
<1>1. run.at # run.stop => run.at + 1 \in Stages /\ run.at + 1 <= run.stop
  BY DEF TypeOK, Runs, Stages, NAssumption
<1> QED
  BY <1>1, MetaTypes DEF TypeOK, Runs, Advanced, Active

(* Every action keeps the types. *)
LEMMA NextType ==
  ASSUME NAssumption, TypeOK, OnTheWay, [Next]_vars
  PROVE  TypeOK'
<1> USE MetaTypes
<1>1. CASE Start
  <2>1. Idle \in Runs
    BY IdleType DEF TypeOK
  <2>2. run' \in Runs
    BY <1>1, <2>1 DEF Start, Runs, Active
  <2> QED
    BY <1>1, <2>2 DEF Start, TypeOK, ghosts
<1>2. CASE Blocked
  <2>1. run.at # N => run.at + 1 \in Stages
    BY DEF TypeOK, Runs, Stages, NAssumption
  <2>2. run' \in Runs
    BY <1>2, <2>1 DEF Blocked, TypeOK, Runs, Active
  <2> QED
    BY <1>2, <2>2 DEF Blocked, TypeOK
<1>3. CASE PriorGone
  <2>1. run' \in Runs
    BY <1>3 DEF PriorGone, TypeOK, Runs
  <2> QED
    BY <1>3, <2>1 DEF PriorGone, TypeOK, files, ghosts
<1>4. CASE Skip
  <2>1. run' \in Runs
    BY <1>4, AdvancedType DEF Skip, OnTheWay
  <2> QED
    BY <1>4, <2>1 DEF Skip, TypeOK, files, ghosts
<1>5. CASE RunStage
  <2>1. Prior(run.at) \in Texts /\ run.defs[run.at] \in Defs /\ run.at \in Stages
    BY <1>5, PriorType DEF RunStage, TypeOK, Runs
  <2>2. inputFingerprint(run.at) \in Prints
    BY <2>1, PrintType DEF inputFingerprint
  <2>3. run' \in Runs
    BY <1>5, <2>2 DEF RunStage, TypeOK, Runs, Active
  <2> QED
    BY <1>5, <2>1, <2>2, <2>3 DEF RunStage, TypeOK, ghosts
<1>6. CASE RunnerReturns
  <2>1. run' \in Runs
    BY <1>6 DEF RunnerReturns, TypeOK, Runs, Active
  <2> QED
    BY <1>6, <2>1 DEF RunnerReturns, TypeOK, files, ghosts
<1>7. CASE WriteOutput
  <2>1. run' \in Runs /\ run.text \in Texts \cup {NoText} /\ run.at \in Stages
    BY <1>7 DEF WriteOutput, TypeOK, Runs, Active
  <2> QED
    BY <1>7, <2>1 DEF WriteOutput, TypeOK
<1>8. CASE WriteDone
  <2>1. Record(run.print, run.text) \in Metas
    BY DEF Record, TypeOK, Runs
  <2>2. run' \in Runs
    BY <1>8, AdvancedType DEF WriteDone, OnTheWay, InStage
  <2> QED
    BY <1>8, <2>1, <2>2 DEF WriteDone, TypeOK, ghosts
<1>9. CASE StageFails
  <2>1. run' \in Runs
    BY <1>9, AdvancedType DEF StageFails, OnTheWay
  <2>2. lost' \in [Stages -> BOOLEAN] /\ meta' \in [Stages -> Metas]
    BY <1>9 DEF StageFails, TypeOK
  <2>3. faults' \in Nat /\ UNCHANGED <<def, input, out, typed, base, edits>>
    BY <1>9 DEF StageFails, TypeOK
  <2> QED
    BY <2>1, <2>2, <2>3 DEF TypeOK
<1>10. CASE Crash
  <2>1. Idle \in Runs
    BY IdleType DEF TypeOK
  <2>2. lost' \in [Stages -> BOOLEAN]
    BY <1>10 DEF Crash, TypeOK
  <2> QED
    BY <1>10, <2>1, <2>2 DEF Crash, TypeOK, files
<1>11. ASSUME Edit PROVE run' \in Runs /\ edits' \in Nat
  <2>1. run' = [run EXCEPT !.touched = TRUE] /\ edits' = edits + 1
    BY <1>11 DEF Edit
  <2>2. run \in Runs /\ edits \in Nat
    BY DEF TypeOK
  <2>3. run' \in Runs
    BY <2>1, <2>2 DEF Runs
  <2> QED
    BY <2>1, <2>2, <2>3
<1>12. ASSUME NEW s \in Stages, EditStage(s) PROVE TypeOK'
  <2>1. def' \in [Stages -> Defs]
    BY <1>12 DEF EditStage, TypeOK
  <2> QED
    BY <1>11, <1>12, <2>1 DEF EditStage, Edit, TypeOK, ghosts
<1>13. ASSUME NEW s \in Stages, EditOutput(s) PROVE TypeOK'
  <2>1. PICK text \in Texts \cup {NoText} :
          /\ out' = [out EXCEPT ![s] = text]
          /\ typed' = [typed EXCEPT ![s] = text # NoText]
          /\ base' = [base EXCEPT ![s] = IF text # NoText /\ meta[s].status = "done"
                                         THEN meta[s].print ELSE NoPrint]
    BY <1>13 DEF EditOutput
  <2>2. meta[s].print \in Prints
    BY DEF TypeOK, Metas
  <2> QED
    BY <1>11, <1>13, <2>1, <2>2 DEF EditOutput, Edit, TypeOK
<1>14. CASE UNCHANGED vars
  BY <1>14 DEF vars, files, ghosts, TypeOK
<1> QED
  BY <1>1, <1>2, <1>3, <1>4, <1>5, <1>6, <1>7, <1>8, <1>9, <1>10, <1>12, <1>13, <1>14 DEF Next

-----------------------------------------------------------------------------
LEMMA AtStage == ASSUME TypeOK PROVE run.at \in Stages /\ run.stop \in Stages
  BY DEF TypeOK, Runs

LEMMA FingerprintType ==
  ASSUME NAssumption, TypeOK, Prior(run.at) # NoText
  PROVE  inputFingerprint(run.at) \in Prints /\ inputFingerprint(run.at) # NoPrint
<1>1. Prior(run.at) \in Texts /\ run.defs[run.at] \in Defs
  BY AtStage, PriorType DEF TypeOK, Runs
<1> QED
  BY <1>1, PrintType DEF inputFingerprint

(* What a stage that is kept says of itself. *)
LEMMA KeptDone ==
  ASSUME NAssumption, TypeOK, Recorded, Kept(run.at), Prior(run.at) # NoText
  PROVE  /\ meta[run.at].status = "done" /\ meta[run.at].print = inputFingerprint(run.at)
         /\ out[run.at] # NoText
         /\ out[run.at] = meta[run.at].hash \/ typed[run.at]
<1>1. meta[run.at].print # NoPrint /\ meta[run.at].status # "running" /\ out[run.at] # NoText
  BY FingerprintType DEF Kept
<1>2. meta[run.at].status \in {"none", "running", "done", "failed", "blocked"}
  BY AtStage DEF TypeOK, Metas
<1> QED
  BY <1>1, <1>2, AtStage DEF Recorded, Kept

LEMMA NextOnTheWay ==
  ASSUME NAssumption, TypeOK, OnTheWay, [Next]_vars
  PROVE  OnTheWay'
<1>1. CASE Start
  BY <1>1 DEF Start, OnTheWay, Idle, InStage, Stages, NAssumption
<1>2. CASE Blocked
  <2>1. run'.blocked = TRUE /\ run'.pc \notin InStage
    BY <1>2 DEF Blocked, TypeOK, Runs, InStage
  <2> QED
    BY <2>1 DEF OnTheWay
<1>3. CASE PriorGone \/ RunStage \/ RunnerReturns \/ WriteOutput
  <2>1. run'.blocked = run.blocked /\ run'.at = run.at /\ run'.stop = run.stop
    BY <1>3 DEF PriorGone, RunStage, RunnerReturns, WriteOutput, TypeOK, Runs
  <2>2. ~run.blocked
    BY <1>3 DEF PriorGone, RunStage, RunnerReturns, WriteOutput, OnTheWay, InStage
  <2> QED
    BY <2>1, <2>2 DEF OnTheWay
<1>4. CASE Skip \/ WriteDone \/ StageFails
  <2>1. PICK b \in BOOLEAN : run' = Advanced(b)
    BY <1>4 DEF Skip, WriteDone, StageFails
  <2>2. run.at <= run.stop
    BY <1>4 DEF Skip, WriteDone, StageFails, OnTheWay, InStage
  <2>3. run'.pc \notin InStage
    BY <2>1 DEF Advanced, InStage, TypeOK, Runs
  <2> QED
    BY <2>1, <2>2, <2>3, AdvancedType DEF OnTheWay
<1>5. CASE Crash
  BY <1>5 DEF Crash, OnTheWay, Idle, InStage, NAssumption
<1>6. CASE \E s \in Stages : EditStage(s) \/ EditOutput(s)
  <2>1. run' = [run EXCEPT !.touched = TRUE]
    BY <1>6 DEF EditStage, EditOutput, Edit
  <2>2. run'.blocked = run.blocked /\ run'.at = run.at /\ run'.stop = run.stop /\ run'.pc = run.pc
    BY <2>1 DEF TypeOK, Runs
  <2> QED
    BY <2>2 DEF OnTheWay
<1>7. CASE UNCHANGED vars
  BY <1>7 DEF vars, OnTheWay
<1> QED
  BY <1>1, <1>2, <1>3, <1>4, <1>5, <1>6, <1>7 DEF Next

-----------------------------------------------------------------------------
(* What the actions leave alone, once for all the conjuncts.               *)

\* The actions that advance the run: the stage is over, and nothing of the run
\* but its place is left.
LEMMA AdvancedFields ==
  ASSUME TypeOK, NEW b \in BOOLEAN, run' = Advanced(b)
  PROVE  /\ run'.pc \in {"stage", "ended"} /\ (run'.pc = "ended" <=> run.at = run.stop)
         /\ run'.at = IF run.at = run.stop THEN run.at ELSE run.at + 1
         /\ run'.blocked = b /\ run'.touched = run.touched /\ run'.force = run.force
         /\ run'.defs = run.defs /\ run'.stop = run.stop
  BY DEF Advanced, TypeOK, Runs

LEMMA EditFields ==
  ASSUME TypeOK, Edit
  PROVE  /\ run'.pc = run.pc /\ run'.at = run.at /\ run'.force = run.force
         /\ run'.print = run.print /\ run'.text = run.text /\ run'.touched = TRUE
         /\ UNCHANGED <<input, meta>>
  BY DEF Edit, TypeOK, Runs

\* The actions that do not touch a file.
FilesLeft == Start \/ PriorGone \/ Skip \/ RunnerReturns \/ Crash \/ UNCHANGED vars

LEMMA FilesLeftFrame ==
  ASSUME FilesLeft PROVE UNCHANGED <<def, out, meta, typed, base>>
  BY DEF FilesLeft, Start, PriorGone, Skip, RunnerReturns, Crash, vars, files, ghosts

LEMMA EditOutputFields ==
  ASSUME TypeOK, NEW t \in Stages, EditOutput(t), NEW s \in Stages
  PROVE  /\ Edit /\ def' = def
         /\ s # t => out'[s] = out[s] /\ typed'[s] = typed[s] /\ base'[s] = base[s] /\ lost'[s] = lost[s]
         /\ s = t => /\ typed'[s] = (out'[s] # NoText)
                     /\ base'[s] # NoPrint => meta[s].status = "done" /\ base'[s] = meta[s].print
<1>1. PICK text \in Texts \cup {NoText} :
          /\ out' = [out EXCEPT ![t] = text]
          /\ typed' = [typed EXCEPT ![t] = text # NoText]
          /\ base' = [base EXCEPT ![t] = IF text # NoText /\ meta[t].status = "done"
                                         THEN meta[t].print ELSE NoPrint]
  BY DEF EditOutput
<1>2. Edit /\ def' = def /\ lost' = [lost EXCEPT ![t] = FALSE]
  BY DEF EditOutput
<1>3. CASE s # t
  BY <1>1, <1>2, <1>3 DEF TypeOK
<1>4. CASE s = t
  BY <1>1, <1>2, <1>4 DEF TypeOK
<1> QED
  BY <1>3, <1>4

LEMMA RunFrame ==
  ASSUME RunStage
  PROVE  UNCHANGED <<def, input, out, typed, base, lost>>
  BY DEF RunStage, ghosts

LEMMA NextRecorded ==
  ASSUME NAssumption, TypeOK, Recorded, Marked, [Next]_vars
  PROVE  Recorded'
<1> SUFFICES ASSUME NEW s \in Stages
             PROVE  /\ meta'[s].status \in {"none", "failed", "blocked"} => meta'[s].print = NoPrint
                    /\ meta'[s].status = "done" /\ out'[s] # NoText
                       => out'[s] = meta'[s].hash \/ typed'[s]
  BY DEF Recorded
<1>0. /\ meta[s].status \in {"none", "failed", "blocked"} => meta[s].print = NoPrint
      /\ meta[s].status = "done" /\ out[s] # NoText => out[s] = meta[s].hash \/ typed[s]
  BY DEF Recorded
<1>1. CASE FilesLeft
  BY <1>0, <1>1, FilesLeftFrame
<1>2. CASE Blocked \/ StageFails
  <2>1. PICK st \in {"blocked", "failed"} : meta' = [meta EXCEPT ![run.at] = [NoMeta EXCEPT !.status = st]]
    BY <1>2 DEF Blocked, StageFails
  <2>2. UNCHANGED <<out, typed>>
    BY <1>2 DEF Blocked, StageFails
  <2>3. [NoMeta EXCEPT !.status = st].status = st /\ [NoMeta EXCEPT !.status = st].print = NoPrint
    BY DEF NoMeta
  <2>4. s = run.at => meta'[s] = [NoMeta EXCEPT !.status = st]
    BY <2>1 DEF TypeOK
  <2>5. s # run.at => meta'[s] = meta[s]
    BY <2>1 DEF TypeOK
  <2> QED
    BY <1>0, <2>2, <2>3, <2>4, <2>5
<1>3. CASE RunStage
  <2>1. s # run.at => meta'[s] = meta[s]
    BY <1>3 DEF RunStage, TypeOK
  <2>2. s = run.at => meta'[s].status = "running"
    BY <1>3 DEF RunStage, TypeOK
  <2> QED
    BY <1>0, <1>3, <2>1, <2>2, RunFrame
<1>4. CASE WriteOutput
  <2>1. meta[run.at].status = "running" /\ meta' = meta
    BY <1>4 DEF WriteOutput, Marked, InStage
  <2>2. s # run.at => out'[s] = out[s] /\ typed'[s] = typed[s]
    BY <1>4 DEF WriteOutput, TypeOK
  <2> QED
    BY <1>0, <2>1, <2>2
<1>5. CASE WriteDone
  <2>1. s # run.at => meta'[s] = meta[s]
    BY <1>5 DEF WriteDone, TypeOK
  <2>2. s = run.at => meta'[s].status = "done" /\ meta'[s].hash = run.text
    BY <1>5 DEF WriteDone, TypeOK, Record
  <2>3. out' = out /\ typed' = typed
    BY <1>5 DEF WriteDone, ghosts
  <2>4. out[run.at] \in {NoText, run.text} \/ typed[run.at]
    BY <1>5 DEF WriteDone, Marked
  <2> QED
    BY <1>0, <2>1, <2>2, <2>3, <2>4
<1>6. ASSUME NEW t \in Stages, EditStage(t)
      PROVE  UNCHANGED <<out, meta, typed>>
  BY <1>6 DEF EditStage, Edit, ghosts
<1>7. ASSUME NEW t \in Stages, EditOutput(t)
      PROVE  /\ meta' = meta
             /\ s # t => out'[s] = out[s] /\ typed'[s] = typed[s]
             /\ s = t => typed'[s] = (out'[s] # NoText)
  BY <1>7, EditOutputFields DEF Edit
<1>8. CASE \E t \in Stages : EditStage(t) \/ EditOutput(t)
  BY <1>0, <1>6, <1>7, <1>8
<1> QED
  BY <1>1, <1>2, <1>3, <1>4, <1>5, <1>8 DEF Next, FilesLeft

LEMMA NextMarked ==
  ASSUME NAssumption, TypeOK, Marked, [Next]_vars
  PROVE  Marked'
<1>1. CASE Start \/ Blocked \/ PriorGone \/ Crash
  <2>1. run'.pc \notin InStage
    <3>1. Blocked => run'.pc \in {"stage", "ended"}
      BY DEF Blocked, TypeOK, Runs
    <3>2. Start => run'.pc = "stage"
      BY DEF Start, Idle
    <3>3. PriorGone => run'.pc = "threw"
      BY DEF PriorGone, TypeOK, Runs
    <3>4. Crash => run'.pc = "idle"
      BY DEF Crash, Idle
    <3> QED
      BY <1>1, <3>1, <3>2, <3>3, <3>4 DEF InStage
  <2> QED
    BY <2>1 DEF Marked, InStage
<1>2. CASE Skip \/ WriteDone \/ StageFails
  <2>1. run'.pc \in {"stage", "ended"}
    BY <1>2, AdvancedFields DEF Skip, WriteDone, StageFails
  <2> QED
    BY <2>1 DEF Marked, InStage
<1>3. CASE RunStage
  <2>1. run'.pc = "await" /\ run'.at = run.at /\ run'.print = inputFingerprint(run.at)
    BY <1>3 DEF RunStage, TypeOK, Runs
  <2>2. meta'[run.at].status = "running"
    BY <1>3, AtStage DEF RunStage, TypeOK
  <2>3. inputFingerprint(run.at) # NoPrint
    BY <1>3, FingerprintType DEF RunStage
  <2> QED
    BY <2>1, <2>2, <2>3 DEF Marked
<1>4. CASE RunnerReturns
  <2>1. run'.pc = "write" /\ run'.at = run.at /\ run'.print = run.print /\ run'.text \in Texts
    BY <1>4 DEF RunnerReturns, TypeOK, Runs
  <2> QED
    BY <1>4, <2>1 DEF RunnerReturns, Marked, InStage, files
<1>5. CASE WriteOutput
  <2>1. run'.pc = "record" /\ run'.at = run.at /\ run'.print = run.print /\ run'.text = run.text
    BY <1>5 DEF WriteOutput, TypeOK, Runs
  <2>2. meta' = meta /\ out'[run.at] = run.text
    BY <1>5, AtStage DEF WriteOutput, TypeOK
  <2> QED
    BY <1>5, <2>1, <2>2 DEF WriteOutput, Marked, InStage
<1>6. ASSUME NEW t \in Stages, EditStage(t) PROVE Marked'
  BY <1>6, EditFields DEF EditStage, Marked, ghosts
<1>7. ASSUME NEW t \in Stages, EditOutput(t) PROVE Marked'
  <2>1. \/ out'[run.at] = out[run.at] /\ typed'[run.at] = typed[run.at]
        \/ typed'[run.at] \/ out'[run.at] = NoText
    BY <1>7, AtStage, EditOutputFields
  <2> QED
    BY <1>7, <2>1, AtStage, EditOutputFields, EditFields DEF Marked
<1>8. CASE UNCHANGED vars
  BY <1>8 DEF vars, files, ghosts, Marked
<1> QED
  BY <1>1, <1>2, <1>3, <1>4, <1>5, <1>6, <1>7, <1>8 DEF Next

LEMMA PriorFrame ==
  ASSUME NEW s \in Stages, UNCHANGED input, s # 1 => out'[s - 1] = out[s - 1]
  PROVE  Prior(s)' = Prior(s)
  BY DEF Prior

\* A stage stays current as long as its own files and what it read stay.
LEMMA CurrentFrame ==
  ASSUME NEW s \in Stages, Current(s), UNCHANGED <<def, input>>,
         meta'[s] = meta[s], out'[s] = out[s], typed'[s] = typed[s],
         s # 1 => out'[s - 1] = out[s - 1]
  PROVE  Current(s)'
  BY PriorFrame DEF Current

\* What is written at a stage leaves the stages behind it, and what it reads.
LEMMA BehindFrame ==
  ASSUME NAssumption, NEW k \in Stages, UNCHANGED <<def, input>>,
         \A t \in Stages : t # k => meta'[t] = meta[t] /\ out'[t] = out[t] /\ typed'[t] = typed[t]
  PROVE  /\ \A s \in 1 .. k - 1 : Current(s) => Current(s)'
         /\ Prior(k)' = Prior(k)
<1>1. \A s \in 1 .. k : s # 1 => s - 1 \in Stages /\ s - 1 # k
  BY DEF Stages, NAssumption
<1>2. ASSUME NEW s \in 1 .. k - 1, Current(s) PROVE Current(s)'
  <2>1. s \in 1 .. k /\ s \in Stages /\ s # k
    BY DEF Stages, NAssumption
  <2>2. s # 1 => out'[s - 1] = out[s - 1]
    BY <1>1, <2>1
  <2> QED
    BY <1>2, <2>1, <2>2, CurrentFrame
<1>3. k \in 1 .. k
  BY DEF Stages, NAssumption
<1>4. k # 1 => out'[k - 1] = out[k - 1]
  BY <1>1, <1>3
<1> QED
  BY <1>2, <1>4, PriorFrame

LEMMA NextSettled ==
  ASSUME NAssumption, TypeOK, OnTheWay, Recorded, Marked, Settled, [Next]_vars
  PROVE  Settled'
<1> SUFFICES ASSUME ~run'.touched PROVE Settled'
  BY DEF Settled
<1> DEFINE k == run.at
<1>0. k \in Stages /\ run.stop \in Stages
  BY AtStage
<1>1. CASE Start
  <2>1. run'.at = 1 /\ run'.defs = def /\ run'.pc = "stage"
    BY <1>1 DEF Start, Idle
  <2>2. def' = def
    BY <1>1 DEF Start
  <2>3. \A s \in 1 .. 0 : FALSE
    OBVIOUS
  <2> QED
    BY <2>1, <2>2, <2>3 DEF Settled, InStage
<1>2. CASE Blocked
  <2>1. /\ run'.pc \in {"stage", "ended"} /\ run'.blocked = TRUE
        /\ run'.defs = run.defs /\ run'.touched = run.touched /\ run.pc \in Active /\ def' = def
    BY <1>2 DEF Blocked, TypeOK, Runs, Active
  <2> QED
    BY <2>1 DEF Settled, InStage
<1>3. CASE PriorGone
  <2>1. run'.pc = "threw"
    BY <1>3 DEF PriorGone, TypeOK, Runs
  <2> QED
    BY <2>1 DEF Settled, Active, InStage
<1>4. CASE Crash
  <2>1. run'.pc = "idle"
    BY <1>4 DEF Crash, Idle
  <2> QED
    BY <2>1 DEF Settled, Active, InStage
<1>5. CASE StageFails
  <2>1. run' = Advanced(TRUE) /\ def' = def /\ run.pc \in Active
    BY <1>5 DEF StageFails, InStage, Active
  <2> QED
    BY <2>1, AdvancedFields DEF Settled, InStage
\* The stage is over and current: so are all up to it.
<1>6. ASSUME run' = Advanced(FALSE), ~run.blocked, run.pc \in Active, UNCHANGED <<def, input>>,
             \A t \in Stages : t # k => meta'[t] = meta[t] /\ out'[t] = out[t] /\ typed'[t] = typed[t],
             \A s \in 1 .. k - 1 : Current(s),
             \A s \in {k} : Current(s)'
      PROVE  Settled'
  <2>1. \A s \in 1 .. k - 1 : Current(s)'
    BY <1>0, <1>6, BehindFrame
  <2>2. \A s \in 1 .. k : s \in 1 .. k - 1 \/ s \in {k}
    BY <1>0 DEF Stages, NAssumption
  <2>3. \A s \in 1 .. k : Current(s)'
    BY <1>6, <2>1, <2>2
  <2>4. /\ run'.pc \in {"stage", "ended"} /\ (run'.pc = "ended" <=> k = run.stop)
        /\ run'.at = IF k = run.stop THEN k ELSE k + 1
        /\ run'.touched = run.touched /\ run'.defs = run.defs /\ run'.stop = run.stop
    BY <1>6, AdvancedFields
  <2>5. run'.pc = "stage" => run'.at - 1 = k
    BY <1>0, <2>4 DEF Stages, NAssumption
  <2>6. run'.pc = "stage" => \A s \in 1 .. run'.at - 1 : Current(s)'
    BY <2>3, <2>5
  <2>7. run'.pc = "ended" => run'.at = run'.stop /\ \A s \in 1 .. run'.at : Current(s)'
    BY <2>3, <2>4
  <2>8. run'.defs = def'
    BY <1>6, <2>4 DEF Settled
  <2> QED
    BY <2>4, <2>6, <2>7, <2>8 DEF Settled, Active, InStage
<1>7. CASE Skip
  <2>1. run' = Advanced(FALSE) /\ ~run.blocked /\ run.pc = "stage" /\ Kept(run.at) /\ Prior(run.at) # NoText
    BY <1>7 DEF Skip
  <2>2. ~run.touched
    BY <2>1, AdvancedFields
  <2>3. run.defs = def /\ \A s \in 1 .. k - 1 : Current(s)
    BY <2>1, <2>2 DEF Settled, Active
  <2>4. UNCHANGED <<files, ghosts>>
    BY <1>7 DEF Skip
  <2>5. Current(k)
    BY <2>1, <2>3, KeptDone DEF Current, inputFingerprint
  <2>6. \A s \in {k} : Current(s)'
    BY <1>0, <2>4, <2>5, CurrentFrame DEF files, ghosts
  <2> QED
    BY <1>6, <2>1, <2>3, <2>4, <2>6 DEF files, ghosts, Active
<1>8. CASE WriteDone
  <2>1. /\ run' = Advanced(FALSE) /\ run.pc = "record"
        /\ UNCHANGED <<def, input, out, typed>>
        /\ meta' = [meta EXCEPT ![k] = Record(run.print, run.text)]
    BY <1>8 DEF WriteDone, ghosts
  <2>2. ~run.touched
    BY <2>1, AdvancedFields
  <2>3. ~run.blocked
    BY <2>1 DEF OnTheWay, InStage
  <2>4. /\ run.print = PrintOf(def[k], Prior(k)) /\ out[k] = run.text /\ run.text # NoText
        /\ \A s \in 1 .. k - 1 : Current(s)
    BY <2>1, <2>2, <2>3, TextAssumption DEF Settled, Active, InStage, Marked
  <2>5. meta'[k] = Record(run.print, run.text) /\ \A t \in Stages : t # k => meta'[t] = meta[t]
    BY <1>0, <2>1 DEF TypeOK
  <2>6. ASSUME NEW s \in {k} PROVE Current(s)'
    <3>1. s \in Stages /\ Prior(s)' = Prior(s)
      BY <1>0, <2>1, PriorFrame
    <3>2. meta'[s].status = "done" /\ meta'[s].print = PrintOf(def'[s], Prior(s)') /\ meta'[s].hash = out'[s]
      BY <2>1, <2>4, <2>5, <3>1 DEF Record
    <3>3. out'[s] # NoText
      BY <2>1, <2>4
    <3> QED
      BY <3>2, <3>3 DEF Current
  <2> QED
    BY <1>6, <2>1, <2>3, <2>4, <2>5, <2>6 DEF Active
\* The stage goes on: what is behind it, and what it reads, stay.
<1>9. ASSUME ~run.touched, ~run.blocked, run.pc \in Active, run'.pc \in InStage, UNCHANGED <<def, input>>,
             run'.at = k, run'.blocked = run.blocked, run'.defs = run.defs,
             \A t \in Stages : t # k => meta'[t] = meta[t] /\ out'[t] = out[t] /\ typed'[t] = typed[t],
             run'.print = PrintOf(def[k], Prior(k)),
             run'.pc = "record" => out'[k] = run'.text
      PROVE  Settled'
  <2>1. run.defs = def /\ \A s \in 1 .. k - 1 : Current(s)
    BY <1>9 DEF Settled
  <2>2. (\A s \in 1 .. k - 1 : Current(s)') /\ Prior(k)' = Prior(k)
    BY <1>0, <1>9, <2>1, BehindFrame
  <2> QED
    BY <1>9, <2>1, <2>2 DEF Settled, InStage
<1>10. CASE RunStage
  <2>1. /\ run'.pc = "await" /\ run'.at = k /\ run'.print = inputFingerprint(run.at)
        /\ run'.blocked = run.blocked /\ run'.defs = run.defs /\ run'.touched = run.touched
        /\ ~run.blocked /\ run.pc = "stage"
    BY <1>10 DEF RunStage, TypeOK, Runs
  <2>2. \A t \in Stages : t # k => meta'[t] = meta[t]
    BY <1>10 DEF RunStage, TypeOK
  <2>3. run.defs = def
    BY <2>1 DEF Settled, Active
  <2> QED
    BY <1>9, <1>10, <2>1, <2>2, <2>3, RunFrame DEF Active, InStage, inputFingerprint
<1>11. CASE RunnerReturns
  <2>1. /\ run'.pc = "write" /\ run'.at = k /\ run'.print = run.print
        /\ run'.blocked = run.blocked /\ run'.defs = run.defs /\ run'.touched = run.touched
        /\ run.pc = "await"
    BY <1>11 DEF RunnerReturns, TypeOK, Runs
  <2>2. ~run.blocked /\ run.print = PrintOf(def[k], Prior(k))
    BY <2>1 DEF OnTheWay, InStage, Settled
  <2>3. UNCHANGED <<files, ghosts>>
    BY <1>11 DEF RunnerReturns
  <2> QED
    BY <1>9, <2>1, <2>2, <2>3 DEF Active, InStage, files, ghosts
<1>12. CASE WriteOutput
  <2>1. /\ run'.pc = "record" /\ run'.at = k /\ run'.print = run.print /\ run'.text = run.text
        /\ run'.blocked = run.blocked /\ run'.defs = run.defs /\ run'.touched = run.touched
        /\ run.pc = "write"
    BY <1>12 DEF WriteOutput, TypeOK, Runs
  <2>2. ~run.blocked /\ run.print = PrintOf(def[k], Prior(k))
    BY <2>1 DEF OnTheWay, InStage, Settled
  <2>3. /\ UNCHANGED <<def, input, meta>> /\ out'[k] = run.text
        /\ \A t \in Stages : t # k => out'[t] = out[t] /\ typed'[t] = typed[t]
    BY <1>0, <1>12 DEF WriteOutput, TypeOK
  <2> QED
    BY <1>9, <2>1, <2>2, <2>3 DEF Active, InStage
<1>13. CASE \E s \in Stages : EditStage(s) \/ EditOutput(s)
  <2>1. Edit
    BY <1>13 DEF EditStage, EditOutput
  <2> QED
    BY <2>1, EditFields
<1>14. CASE UNCHANGED vars
  <2>1. UNCHANGED <<def, input, out, meta, typed, run>>
    BY <1>14 DEF vars, files, ghosts
  <2>2. \A s : Prior(s)' = Prior(s)
    BY <2>1 DEF Prior
  <2>3. \A s : Current(s)' <=> Current(s)
    BY <2>1, <2>2 DEF Current
  <2>4. Prior(run.at)' = Prior(run.at)
    BY <2>1 DEF Prior
  <2> QED
    BY <2>1, <2>3, <2>4 DEF Settled
<1> HIDE DEF k
<1> QED
  BY <1>1, <1>2, <1>3, <1>4, <1>5, <1>7, <1>8, <1>10, <1>11, <1>12, <1>13, <1>14 DEF Next

-----------------------------------------------------------------------------
LEMMA NextTyped ==
  ASSUME NAssumption, TypeOK, Typed, Reason, [Next]_vars
  PROVE  Typed'
<1> SUFFICES ASSUME NEW s \in Stages, typed'[s]
             PROVE  /\ out'[s] # NoText
                    /\ \/ base'[s] = NoPrint \/ lost'[s]
                       \/ run'.pc \in InStage /\ run'.at = s
                       \/ meta'[s].status = "done" /\ meta'[s].print = base'[s]
  BY DEF Typed
<1>0. typed[s] => /\ out[s] # NoText
                  /\ \/ base[s] = NoPrint \/ lost[s]
                     \/ run.pc \in InStage /\ run.at = s
                     \/ meta[s].status = "done" /\ meta[s].print = base[s]
  BY DEF Typed
<1>1. CASE Start \/ PriorGone \/ Skip
  <2>1. run.pc \notin InStage /\ UNCHANGED <<out, meta, typed, base, lost>>
    BY <1>1 DEF Start, PriorGone, Skip, files, ghosts, Active, InStage
  <2> QED
    BY <1>0, <2>1
<1>2. CASE RunnerReturns \/ RunStage
  <2>1. /\ UNCHANGED <<out, typed, base, lost>> /\ run'.pc \in InStage /\ run'.at = run.at
        /\ s # run.at => meta'[s] = meta[s]
    BY <1>2 DEF RunnerReturns, RunStage, files, ghosts, InStage, TypeOK, Runs
  <2> QED
    BY <1>0, <2>1
<1>3. CASE Crash
  <2>1. UNCHANGED <<out, meta, typed, base>>
    BY <1>3 DEF Crash, files
  <2>2. (s = run.at /\ run.pc \in InStage => lost'[s]) /\ (lost[s] => lost'[s])
    BY <1>3 DEF Crash, TypeOK
  <2> QED
    BY <1>0, <2>1, <2>2
<1>4. CASE Blocked \/ StageFails
  <2>1. UNCHANGED <<out, typed, base>>
    BY <1>4 DEF Blocked, StageFails
  <2>2. s = run.at => lost'[s]
    BY <1>4 DEF Blocked, StageFails, TypeOK
  <2>3. s # run.at => meta'[s] = meta[s] /\ lost'[s] = lost[s]
    BY <1>4 DEF Blocked, StageFails, TypeOK
  <2> QED
    BY <1>0, <2>1, <2>2, <2>3
<1>5. CASE WriteOutput
  <2>1. s # run.at
    BY <1>5 DEF WriteOutput, TypeOK
  <2>2. meta' = meta /\ out'[s] = out[s] /\ typed'[s] = typed[s] /\ base'[s] = base[s] /\ lost'[s] = lost[s]
    BY <1>5, <2>1 DEF WriteOutput, TypeOK
  <2> QED
    BY <1>0, <2>1, <2>2
<1>6. CASE WriteDone
  <2>1. UNCHANGED <<out, typed, base, lost>> /\ (s # run.at => meta'[s] = meta[s])
    BY <1>6 DEF WriteDone, ghosts, TypeOK
  <2>2. s = run.at => base[s] = NoPrint
    BY <1>6, <2>1 DEF WriteDone, Reason
  <2> QED
    BY <1>0, <2>1, <2>2
<1>7. ASSUME NEW t \in Stages, EditStage(t)
      PROVE  /\ UNCHANGED <<out, meta, typed, base, lost>> /\ run'.pc = run.pc /\ run'.at = run.at
  BY <1>7, EditFields DEF EditStage, ghosts
<1>8. ASSUME NEW t \in Stages, EditOutput(t)
      PROVE  /\ s # t => out'[s] = out[s] /\ typed'[s] = typed[s] /\ base'[s] = base[s] /\ lost'[s] = lost[s]
             /\ meta' = meta /\ run'.pc = run.pc /\ run'.at = run.at
             /\ s = t => /\ typed'[s] = (out'[s] # NoText)
                         /\ base'[s] # NoPrint => meta[s].status = "done" /\ base'[s] = meta[s].print
  BY <1>8, EditOutputFields, EditFields
<1>9. CASE \E t \in Stages : EditStage(t) \/ EditOutput(t)
  BY <1>0, <1>7, <1>8, <1>9
<1>10. CASE UNCHANGED vars
  BY <1>0, <1>10 DEF vars, files, ghosts
<1> QED
  BY <1>1, <1>2, <1>3, <1>4, <1>5, <1>6, <1>9, <1>10 DEF Next

LEMMA NextReason ==
  ASSUME NAssumption, TypeOK, Marked, Typed, Reason, [Next]_vars
  PROVE  Reason'
<1>1. CASE Start \/ PriorGone \/ Crash \/ Blocked
  <2>1. run'.pc \notin InStage
    <3>1. Blocked => run'.pc \in {"stage", "ended"}
      BY DEF Blocked, TypeOK, Runs
    <3>2. Start => run'.pc = "stage"
      BY DEF Start, Idle
    <3>3. PriorGone => run'.pc = "threw"
      BY DEF PriorGone, TypeOK, Runs
    <3>4. Crash => run'.pc = "idle"
      BY DEF Crash, Idle
    <3> QED
      BY <1>1, <3>1, <3>2, <3>3, <3>4 DEF InStage
  <2> QED
    BY <2>1 DEF Reason, InStage
<1>2. CASE Skip \/ WriteDone \/ StageFails
  <2>1. run'.pc \in {"stage", "ended"}
    BY <1>2, AdvancedFields DEF Skip, WriteDone, StageFails
  <2> QED
    BY <2>1 DEF Reason, InStage
<1>3. CASE RunStage
  <2>1. /\ run'.pc = "await" /\ run'.at = run.at /\ run'.print = inputFingerprint(run.at)
        /\ run'.force = run.force /\ run.pc = "stage"
        /\ ~Kept(run.at) /\ Prior(run.at) # NoText
    BY <1>3 DEF RunStage, TypeOK, Runs
  <2>2. run'.print # NoPrint
    BY <2>1, FingerprintType
  <2>3. ASSUME typed[run.at], ~run.force, ~lost[run.at], base[run.at] # NoPrint
        PROVE  meta[run.at].print # inputFingerprint(run.at) /\ meta[run.at].print = base[run.at]
    <3>1. out[run.at] # NoText /\ meta[run.at].status = "done" /\ meta[run.at].print = base[run.at]
      BY <2>1, <2>3, AtStage DEF Typed, InStage
    <3> QED
      BY <2>1, <2>3, <3>1 DEF Kept
  <2> QED
    BY <1>3, <2>1, <2>2, <2>3, RunFrame DEF Reason
<1>4. CASE RunnerReturns
  <2>1. /\ run'.pc = "write" /\ run'.at = run.at /\ run'.print = run.print /\ run'.force = run.force
        /\ run.pc = "await" /\ UNCHANGED <<typed, base, lost>>
    BY <1>4 DEF RunnerReturns, TypeOK, Runs, ghosts
  <2> QED
    BY <2>1 DEF Reason, InStage
<1>5. CASE WriteOutput
  <2>1. run'.at = run.at /\ typed'[run.at] = FALSE
    BY <1>5, AtStage DEF WriteOutput, TypeOK, Runs
  <2> QED
    BY <2>1 DEF Reason
<1>6. ASSUME NEW t \in Stages, EditStage(t) PROVE Reason'
  BY <1>6, EditFields DEF EditStage, ghosts, Reason
<1>7. ASSUME NEW t \in Stages, EditOutput(t) PROVE Reason'
  <2>1. /\ run'.pc = run.pc /\ run'.at = run.at /\ run'.force = run.force /\ run'.print = run.print
    BY <1>7, AtStage, EditOutputFields, EditFields
  <2>2. CASE run.at = t /\ run.pc \in InStage
    <3>1. meta[run.at].status # "done" /\ run.print # NoPrint
      BY <2>2 DEF Marked
    <3>2. base'[run.at] = NoPrint
      BY <1>7, <2>2, <3>1, AtStage, EditOutputFields
    <3> QED
      BY <2>1, <3>1, <3>2 DEF Reason
  <2>3. CASE run.at # t
    <3>1. typed'[run.at] = typed[run.at] /\ base'[run.at] = base[run.at] /\ lost'[run.at] = lost[run.at]
      BY <1>7, <2>3, AtStage, EditOutputFields
    <3> QED
      BY <2>1, <3>1 DEF Reason
  <2>4. CASE run.pc \notin InStage
    BY <2>1, <2>4 DEF Reason, InStage
  <2> QED
    BY <2>2, <2>3, <2>4
<1>8. CASE UNCHANGED vars
  BY <1>8 DEF vars, ghosts, Reason
<1> QED
  BY <1>1, <1>2, <1>3, <1>4, <1>5, <1>6, <1>7, <1>8 DEF Next

-----------------------------------------------------------------------------
LEMMA InitIInv == ASSUME NAssumption PROVE Init => IInv
<1> SUFFICES ASSUME Init PROVE IInv
  OBVIOUS
<1>1. TypeOK
  BY InitType
<1>2. run.pc = "idle" /\ run.at = 1 /\ run.stop = N /\ run.blocked = FALSE
  BY DEF Init, Idle
<1>3. OnTheWay
  BY <1>2 DEF OnTheWay, InStage, NAssumption
<1>4. \A s \in Stages : meta[s] = NoMeta /\ typed[s] = FALSE
  BY DEF Init
<1>5. NoMeta.status = "none" /\ NoMeta.print = NoPrint
  BY DEF NoMeta
<1>6. Recorded
  BY <1>4, <1>5 DEF Recorded
<1>7. Marked /\ Reason /\ Settled
  BY <1>2 DEF Marked, Reason, Settled, InStage, Active
<1>8. Typed
  BY <1>4 DEF Typed
<1> QED
  BY <1>1, <1>3, <1>6, <1>7, <1>8 DEF IInv

LEMMA NextIInv == ASSUME NAssumption PROVE IInv /\ [Next]_vars => IInv'
  BY NextType, NextOnTheWay, NextRecorded, NextMarked, NextSettled, NextTyped, NextReason DEF IInv

THEOREM Invariance == Spec => []IInv
<1>1. Init => IInv
  BY NAssumption, InitIInv
<1>2. IInv /\ [Next]_vars => IInv'
  BY NAssumption, NextIInv
<1> QED
  BY <1>1, <1>2, PTL DEF Spec

(* Every reachable state of the run directory, of the run and of the marks  *)
(* on it is of its type: the status, fingerprint and hash of every          *)
(* meta.json, and a run that never looks at a stage past the last.          *)
THEOREM TypeCorrect == Spec => []TypeOK
<1>1. IInv => TypeOK
  BY DEF IInv
<1> QED
  BY <1>1, Invariance, PTL

(* However many runs resumed, crashed, failed or stopped before it, a run   *)
(* that ends unblocked and untouched leaves every stage it covers current   *)
(* (engine.js runPipeline: the freshness decision and the order of its      *)
(* writes).                                                                 *)
THEOREM RunsEndCurrent == Spec => []EndsCurrent
<1>1. ASSUME IInv PROVE EndsCurrent
  <2>1. run.stop \in Stages
    BY <1>1, AtStage DEF IInv
  <2> QED
    BY <1>1, <2>1 DEF IInv, Settled, EndsCurrent
<1> QED
  BY <1>1, Invariance, PTL

(* A person's edit is overwritten only by a forced run, after a fault, or   *)
(* when its stage reads something else than it did (engine.js: 'edited',    *)
(* respect the human's edit).                                               *)
THEOREM EditsRespected == Spec => EditRespected
<1> DEFINE Respected ==
      \A s \in Stages : typed[s] /\ ~typed'[s] /\ out'[s] # NoText
          => run.force \/ lost[s] \/ run.print # base[s]
<1>1. ASSUME IInv, Next PROVE Respected
  <2> SUFFICES ASSUME NEW s \in Stages, typed[s], ~typed'[s], out'[s] # NoText
               PROVE  run.force \/ lost[s] \/ run.print # base[s]
    OBVIOUS
  <2>0. TypeOK /\ Reason
    BY <1>1 DEF IInv
  <2>1. CASE WriteOutput
    <3>1. s = run.at /\ run.pc \in InStage
      BY <2>0, <2>1 DEF WriteOutput, TypeOK, InStage
    <3> QED
      BY <2>0, <3>1 DEF Reason
  <2>2. CASE Start \/ Blocked \/ PriorGone \/ Skip \/ RunStage \/ RunnerReturns
             \/ WriteDone \/ StageFails \/ Crash
    BY <2>2 DEF Start, Blocked, PriorGone, Skip, RunStage, RunnerReturns, WriteDone, StageFails,
                Crash, ghosts
  <2>3. ASSUME NEW t \in Stages, EditStage(t) PROVE FALSE
    BY <2>3 DEF EditStage, ghosts
  <2>4. ASSUME NEW t \in Stages, EditOutput(t) PROVE FALSE
    BY <2>0, <2>4, EditOutputFields
  <2> QED
    BY <1>1, <2>1, <2>2, <2>3, <2>4 DEF Next
<1>2. IInv /\ [Next]_vars => [Respected]_vars
  BY <1>1
<1> QED
  BY <1>2, Invariance, PTL DEF Spec, EditRespected
=============================================================================
