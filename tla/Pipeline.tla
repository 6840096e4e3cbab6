------------------------------ MODULE Pipeline ------------------------------
(***************************************************************************)
(* The folder-stage pipeline (stratos-agent/src/pipeline/engine.js): the    *)
(* files of one run directory, the runs that resume it one after the other, *)
(* and the person who edits stage definitions and outputs at any time.      *)
(*                                                                          *)
(* Every write is a tmp file and a rename, so a file changes at once; the   *)
(* process may die between any two writes.  What a stage is told (its body, *)
(* model, runner and references) is one value of Defs, an output one of     *)
(* Texts; a hash is the text it stands for.  A runner may answer anything.  *)
(***************************************************************************)
EXTENDS Naturals

CONSTANTS
    N,            \* number of stages; the directories' names are their order
    Defs,         \* what a stage may be told
    Texts,        \* inputs and outputs
    NoText,       \* a file that is not there
    MaxEdits,     \* bound: what the person changes
    MaxFaults     \* bound: failing stages and crashes

ASSUME NAssumption == N \in Nat \ {0}
ASSUME TextAssumption == NoText \notin Texts
ASSUME BoundsAssumption == {MaxEdits, MaxFaults} \subseteq Nat

VARIABLES
    def,          \* stage.md of each stage
    input,        \* input.md
    out,          \* output.md of each stage
    meta,         \* meta.json of each stage
    run,          \* the call of runPipeline
    typed,        \* ghost: the output was last written by the person
    base,         \* ghost: what the stage had been run on when it was edited
    lost,         \* ghost: a fault has since hit the stage, or one before it
    edits, faults

files == <<def, input, out, meta>>
ghosts == <<typed, base, lost>>
vars == <<files, run, ghosts, edits, faults>>

Stages == 1 .. N
NoPrint == <<>>
PrintOf(d, prior) == <<d, prior>>
Prints == {NoPrint} \cup (Defs \X Texts)
NoMeta == [status |-> "none", print |-> NoPrint, hash |-> NoText]

Active == {"stage", "await", "write", "record"}
InStage == {"await", "write", "record"}

Idle == [pc |-> "idle", at |-> 1, defs |-> def, force |-> FALSE, stop |-> N, blocked |-> FALSE,
         print |-> NoPrint, text |-> NoText, touched |-> FALSE]

Init ==
    /\ def \in [Stages -> Defs]
    /\ input = NoText
    /\ out = [s \in Stages |-> NoText]
    /\ meta = [s \in Stages |-> NoMeta]
    /\ run = Idle
    /\ typed = [s \in Stages |-> FALSE]
    /\ base = [s \in Stages |-> NoPrint]
    /\ lost = [s \in Stages |-> FALSE]
    /\ edits = 0 /\ faults = 0

Metas == [status : {"none", "running", "done", "failed", "blocked"},
          print : Prints, hash : Texts \cup {NoText}]

Runs == [pc : Active \cup {"idle", "ended", "threw"}, at : Stages, defs : [Stages -> Defs],
         force : BOOLEAN, stop : Stages, blocked : BOOLEAN,
         print : Prints, text : Texts \cup {NoText}, touched : BOOLEAN]

TypeOK ==
    /\ def \in [Stages -> Defs]
    /\ input \in Texts \cup {NoText}
    /\ out \in [Stages -> Texts \cup {NoText}]
    /\ meta \in [Stages -> Metas]
    /\ run \in Runs
    /\ typed \in [Stages -> BOOLEAN] /\ lost \in [Stages -> BOOLEAN]
    /\ base \in [Stages -> Prints]
    /\ edits \in Nat /\ faults \in Nat

-----------------------------------------------------------------------------
(* A run.                                                                   *)

\* runPipeline is called: the input is kept if there is one, the stages are
\* discovered, and the first is next.
Start ==
    /\ run.pc \notin Active
    /\ \E force \in BOOLEAN, stop \in Stages, text \in Texts :
          /\ input' = IF input = NoText \/ force THEN text ELSE input
          /\ run' = [Idle EXCEPT !.pc = "stage", !.force = force, !.stop = stop]
    /\ UNCHANGED <<def, out, meta, ghosts, edits, faults>>

Prior(s) == IF s = 1 THEN input ELSE out[s - 1]

inputFingerprint(s) == PrintOf(run.defs[s], Prior(s))

KeptWhenRunning(s) == ~run.force /\ meta[s].print = inputFingerprint(s) /\ out[s] # NoText

KeptUnedited(s) == KeptWhenRunning(s) /\ meta[s].status # "running" /\ out[s] = meta[s].hash

\* The output on disk stands for the input: fresh, or edited by the person.
Kept(s) ==
    /\ ~run.force
    /\ meta[s].status # "running"
    /\ meta[s].print = inputFingerprint(s)
    /\ out[s] # NoText

\* The stage is over: the run goes on with the next one, or ends after the
\* last one or the one it was to stop after.
Advanced(blocked) ==
    [run EXCEPT !.pc = IF run.at = run.stop THEN "ended" ELSE "stage",
                !.at = IF run.at = run.stop THEN @ ELSE @ + 1,
                !.blocked = blocked, !.print = NoPrint, !.text = NoText]

\* A stage after a failed one is only marked; the stop is not looked at.
Blocked ==
    /\ run.pc = "stage" /\ run.blocked
    /\ meta' = [meta EXCEPT ![run.at] = [NoMeta EXCEPT !.status = "blocked"]]
    /\ lost' = [lost EXCEPT ![run.at] = TRUE]
    /\ run' = IF run.at = N THEN [run EXCEPT !.pc = "ended"] ELSE [run EXCEPT !.at = @ + 1]
    /\ UNCHANGED <<def, input, out, typed, base, edits, faults>>

\* The prior output was deleted meanwhile: reading it throws out of the run.
PriorGone ==
    /\ run.pc = "stage" /\ ~run.blocked /\ Prior(run.at) = NoText
    /\ run' = [run EXCEPT !.pc = "threw"]
    /\ UNCHANGED <<files, ghosts, edits, faults>>

Skip ==
    /\ run.pc = "stage" /\ ~run.blocked /\ Prior(run.at) # NoText
    /\ Kept(run.at)
    /\ run' = Advanced(FALSE)
    /\ UNCHANGED <<files, ghosts, edits, faults>>

\* The stage is marked as running and its runner called.
RunStage ==
    /\ run.pc = "stage" /\ ~run.blocked /\ Prior(run.at) # NoText
    /\ ~Kept(run.at)
    /\ LET print == inputFingerprint(run.at)
       IN  /\ meta' = [meta EXCEPT ![run.at] = [status |-> "running", print |-> print, hash |-> NoText]]
           /\ run' = [run EXCEPT !.pc = "await", !.print = print]
    /\ UNCHANGED <<def, input, out, ghosts, edits, faults>>

\* The runner answers ...
RunnerReturns ==
    /\ run.pc = "await"
    /\ \E text \in Texts : run' = [run EXCEPT !.pc = "write", !.text = text]
    /\ UNCHANGED <<files, ghosts, edits, faults>>

\* ... its answer is written ...
WriteOutput ==
    /\ run.pc = "write"
    /\ out' = [out EXCEPT ![run.at] = run.text]
    /\ typed' = [typed EXCEPT ![run.at] = FALSE]
    /\ base' = [base EXCEPT ![run.at] = NoPrint]
    /\ lost' = [lost EXCEPT ![run.at] = FALSE]
    /\ run' = [run EXCEPT !.pc = "record"]
    /\ UNCHANGED <<def, input, meta, edits, faults>>

\* ... and recorded with what it was made from.
Record(print, text) == [status |-> "done", print |-> print, hash |-> text]

WriteDone ==
    /\ run.pc = "record"
    /\ meta' = [meta EXCEPT ![run.at] = Record(run.print, run.text)]
    /\ run' = Advanced(FALSE)
    /\ UNCHANGED <<def, input, out, ghosts, edits, faults>>

\* The runner, or one of the two writes, throws.
StageFails ==
    /\ run.pc \in InStage /\ faults < MaxFaults
    /\ faults' = faults + 1
    /\ meta' = [meta EXCEPT ![run.at] = [NoMeta EXCEPT !.status = "failed"]]
    /\ lost' = [lost EXCEPT ![run.at] = TRUE]
    /\ run' = Advanced(TRUE)
    /\ UNCHANGED <<def, input, out, typed, base, edits>>

\* The process dies.
Crash ==
    /\ run.pc \in Active /\ faults < MaxFaults
    /\ faults' = faults + 1
    /\ lost' = [lost EXCEPT ![run.at] = @ \/ run.pc \in InStage]
    /\ run' = Idle
    /\ UNCHANGED <<files, typed, base, edits>>

-----------------------------------------------------------------------------
(* The person.                                                              *)

Edit ==
    /\ edits < MaxEdits
    /\ edits' = edits + 1
    /\ run' = [run EXCEPT !.touched = TRUE]
    /\ UNCHANGED <<input, meta, faults>>

EditStage(s) ==
    /\ Edit
    /\ \E d \in Defs \ {def[s]} : def' = [def EXCEPT ![s] = d]
    /\ UNCHANGED <<out, ghosts>>

\* An output is rewritten or deleted.
EditOutput(s) ==
    /\ Edit
    /\ \E text \in (Texts \cup {NoText}) \ {out[s]} :
          /\ out' = [out EXCEPT ![s] = text]
          /\ typed' = [typed EXCEPT ![s] = text # NoText]
          /\ base' = [base EXCEPT ![s] = IF text # NoText /\ meta[s].status = "done"
                                         THEN meta[s].print ELSE NoPrint]
    /\ lost' = [lost EXCEPT ![s] = FALSE]
    /\ UNCHANGED def

Next ==
    \/ Start \/ Blocked \/ PriorGone \/ Skip \/ RunStage
    \/ RunnerReturns \/ WriteOutput \/ WriteDone \/ StageFails \/ Crash
    \/ \E s \in Stages : EditStage(s) \/ EditOutput(s)

Spec == Init /\ [][Next]_vars

-----------------------------------------------------------------------------
(* A run that ends without a failed stage, and in which nobody touched the  *)
(* files, leaves every stage it covers current: what is on disk was made    *)
(* from the stage's definition and the output before it as they are on disk *)
(* now, or was typed by the person over such an output.  It is so whatever  *)
(* earlier runs crashed, failed or stopped at, and whatever was edited      *)
(* between them.                                                            *)
Current(s) ==
    /\ meta[s].status = "done"
    /\ meta[s].print = PrintOf(def[s], Prior(s))
    /\ out[s] # NoText
    /\ out[s] = meta[s].hash \/ typed[s]

EndsCurrent ==
    run.pc = "ended" /\ ~run.blocked /\ ~run.touched => \A s \in 1 .. run.stop : Current(s)

(* An output the person edited is overwritten only when the stage now reads *)
(* something else than when it was edited, when the run is forced, or when  *)
(* a fault meanwhile hit the stage or one before it.                        *)
EditRespected ==
    [][\A s \in Stages : typed[s] /\ ~typed'[s] /\ out'[s] # NoText
          => run.force \/ lost[s] \/ run.print # base[s]]_vars
=============================================================================
