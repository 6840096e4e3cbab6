----------------------------- MODULE Evolution -----------------------------
(***************************************************************************)
(* Skill learning behind the local model: what the chat path observes and  *)
(* serves (api-shim/src/self-evolution-runtime.js, local-inference.js),    *)
(* the captures merged into the cognitive_skills table                     *)
(* (stratos-agent/src/evolution/self-evolution.js, memory/vector-bank.js), *)
(* the induction of an integer program from examples (skill-induction.js)  *)
(* and the night shift that seals it (trace-analyzer.js, gsi-compiler.js). *)
(*                                                                         *)
(* The three flags are on.  A request is one prompt of an intent with one  *)
(* integer operand; its capture goes on after it was answered, so captures *)
(* interleave at their awaits with each other, with serving and with the   *)
(* shift.  A row stands for its examples, a sealed skill for the content   *)
(* hash of its program: an induced skill has no steps and no other spec.   *)
(* LanceDB does one delete or add at a time.                               *)
(***************************************************************************)
EXTENDS Integers, FiniteSets

CONSTANTS
    Requests,   (* chat completions                                         *)
    Intents,    (* canonical intents: a prompt with its operand masked      *)
    Near,       (* pairs of intents within matchMaxDistance                 *)
    Inputs,     (* operands                                                 *)
    Outputs,    (* integer answers of the model                             *)
    Width,      (* bits of a wasm i32                                       *)
    MaxFaults   (* bound on failures and crashes                            *)

ASSUME EvolutionAssumption ==
    /\ Inputs \subseteq Int /\ Outputs \subseteq Int
    /\ Near \subseteq Intents \X Intents
    /\ Width \in Nat \ {0} /\ MaxFaults \in Nat

VARIABLES
    rows,       (* the table: [by, intent, examples], by the writing request *)
    req,        (* each request and its capture                             *)
    files,      (* skill_<id>.wasm of each intent                           *)
    registry,   (* registry.json                                            *)
    shift,      (* the night shift in progress                              *)
    faults,
    said,       (* history: the model's answers that were captured          *)
    latest,     (* history: the last captured answer of each input          *)
    calm,       (* history: no two captures overlapped, nothing failed      *)
    learned     (* history: the rows the last shift that ended had read     *)

learnVars == <<rows, req, files, registry, shift, faults, said, latest, calm, learned>>
historyVars == <<said, latest, calm, learned>>
-----------------------------------------------------------------------------
(* Induction: the simplest integer polynomial that reproduces every        *)
(* example.  It does not depend on their order, so they are taken by x.    *)

Xs(ex) == {e[1] : e \in ex}
At(ex, x) == (CHOOSE e \in ex : e[1] = x)[2]
LeastOf(S) == CHOOSE x \in S : \A y \in S : x <= y
evalSpec(c, x) == c[3] * x * x + c[2] * x + c[1]
fitsAll(c, ex) == \A e \in ex : evalSpec(c, e[1]) = e[2]

constSpec(ex) == <<At(ex, LeastOf(Xs(ex))), 0, 0>>

\* The line through two points; with a slope that is not an integer it fits not.
affineSpec(ex) ==
    LET x1 == LeastOf(Xs(ex))
        x2 == LeastOf(Xs(ex) \ {x1})
        a == (At(ex, x2) - At(ex, x1)) \div (x2 - x1)
    IN  <<At(ex, x1) - a * x1, a, 0>>

\* The parabola through three points, likewise.
solveQuadratic(ex) ==
    LET x1 == LeastOf(Xs(ex))
        x2 == LeastOf(Xs(ex) \ {x1})
        x3 == LeastOf(Xs(ex) \ {x1, x2})
        d2 == At(ex, x2) - At(ex, x1)
        d3 == At(ex, x3) - At(ex, x1)
        c2 == (d3 * (x2 - x1) - d2 * (x3 - x1)) \div ((x3 - x1) * (x2 - x1) * (x3 - x2))
        c1 == (d2 - c2 * (x2 * x2 - x1 * x1)) \div (x2 - x1)
    IN  <<At(ex, x1) - c1 * x1 - c2 * x1 * x1, c1, c2>>

None == <<>>                    (* no file, no registry entry               *)
Automation == <<"automation">>  (* sealed, but no program to compute        *)
Torn == <<"torn">>              (* a file the seal does not verify          *)

\* TIER_A in Occam order; what fits at one degree is what fits at the next.
TierA(ex) ==
    {c \in {constSpec(ex)}
           \cup (IF Cardinality(Xs(ex)) >= 2 THEN {affineSpec(ex)} ELSE {})
           \cup (IF Cardinality(Xs(ex)) >= 3 THEN {solveQuadratic(ex)} ELSE {}) :
        fitsAll(c, ex)}
Synthesized(ex) == IF TierA(ex) = {} THEN Automation ELSE CHOOSE c \in TierA(ex) : TRUE

\* Mutant of Induced: one observation is enough.
InducedFromOne(ex) == IF ex = {} THEN Automation ELSE Synthesized(ex)

\* induceComputation, and classify when it gives none.
Induced(ex) == IF Cardinality(Xs(ex)) < 2 THEN Automation ELSE Synthesized(ex)

\* compute of the sealed module: i32 arithmetic, which wraps.
wrap(n) == ((n + 2 ^ (Width - 1)) % 2 ^ Width) - 2 ^ (Width - 1)
compute(c, x) == wrap(evalSpec(c, x))
-----------------------------------------------------------------------------
NoRequest == [stage |-> "none", intent |-> "none", x |-> 0, y |-> 0, ex |-> {}, skill |-> "none"]
Finished(stage) == [NoRequest EXCEPT !.stage = stage]
NoShift == [on |-> FALSE, todo |-> {}, reg |-> [i \in Intents |-> None], read |-> {}]

LearnInit ==
    /\ rows = {}
    /\ req = [r \in Requests |-> NoRequest]
    /\ files = [i \in Intents |-> None]
    /\ registry = [i \in Intents |-> None]
    /\ shift = NoShift
    /\ faults = 0
    /\ said = {} /\ latest = [i \in Intents |-> {}] /\ calm = TRUE /\ learned = {}

RowsOf(i) == {w \in rows : w.intent = i}
Fault == faults < MaxFaults /\ faults' = faults + 1
-----------------------------------------------------------------------------
(* A request. *)

\* tryServe asks the table: the nearest row, its own intent's if there is one.
Match(r, i, x) ==
    /\ req[r].stage = "none"
    /\ \E k \in Intents :
          /\ IF RowsOf(i) # {} THEN k = i ELSE <<i, k>> \in Near
          /\ RowsOf(k) # {}
          /\ req' = [req EXCEPT ![r] = [@ EXCEPT !.stage = "matched", !.intent = i, !.x = x, !.skill = k]]
    /\ UNCHANGED <<rows, files, registry, shift, faults, historyVars>>

\* Nothing is near enough, or the table or the embedding of the intent fails,
\* which is taken for a miss.
MatchNothing(r, i, x) ==
    /\ req[r].stage = "none"
    /\ req' = [req EXCEPT ![r] = [@ EXCEPT !.stage = "model", !.intent = i, !.x = x]]
    /\ UNCHANGED <<rows, files, registry, shift, faults, historyVars>>

\* The file is read, its seal verified and its program run, or the model is
\* asked.
Serve(r) ==
    /\ req[r].stage = "matched"
    /\ LET c == files[req[r].skill]
       IN  req' = [req EXCEPT ![r] =
              IF c \in {None, Automation, Torn} THEN [@ EXCEPT !.stage = "model"]
              ELSE [Finished("served") EXCEPT !.y = compute(c, req[r].x)]]
    /\ UNCHANGED <<rows, files, registry, shift, faults, historyVars>>

\* The model answers an integer, which is to be captured ...
Answer(r, y) ==
    /\ req[r].stage = "model"
    /\ req' = [req EXCEPT ![r] = [@ EXCEPT !.stage = "observed", !.y = y]]
    /\ said' = said \cup {<<req[r].intent, req[r].x, y>>}
    /\ UNCHANGED <<rows, files, registry, shift, faults, latest, calm, learned>>

\* ... or prose, or it is offline: nothing to learn.
AnswerProse(r) ==
    /\ req[r].stage = "model"
    /\ req' = [req EXCEPT ![r] = Finished("done")]
    /\ UNCHANGED <<rows, files, registry, shift, faults, historyVars>>
-----------------------------------------------------------------------------
(* captureSuccess: read, merge, then delete and add, each after an await. *)

Capturing(r) == req[r].stage \in {"read", "deleted"}

\* Mutant of Merged: the new example takes the place of the old ones.
MergedNewOnly(ex, x, y) == {<<x, y>>}

\* The latest output of an input wins.
Merged(ex, x, y) == {e \in ex : e[1] # x} \cup {<<x, y>>}

\* The examples a capture may start from: those of a row of its intent, if any.
Priors(i) == IF RowsOf(i) = {} THEN {{}} ELSE {w.ex : w \in RowsOf(i)}

\* A read that fails, or finds a row that is no JSON, is taken for no row.
ReadPrior(r) ==
    /\ req[r].stage = "observed"
    /\ LET i == req[r].intent
           Start(ex) == req' = [req EXCEPT ![r] =
                          [@ EXCEPT !.stage = "read", !.ex = Merged(ex, req[r].x, req[r].y)]]
       IN  \/ /\ \E ex \in Priors(i) : Start(ex)
              /\ calm' = (calm /\ \A s \in Requests : Capturing(s) => req[s].intent # i)
              /\ UNCHANGED faults
           \/ Start({}) /\ Fault /\ calm' = FALSE
    /\ UNCHANGED <<rows, files, registry, shift, said, latest, learned>>

\* A delete that fails is swallowed: the row is added all the same.
DeletePrior(r) ==
    /\ req[r].stage = "read"
    /\ req' = [req EXCEPT ![r].stage = "deleted"]
    /\ \/ /\ rows' = rows \ RowsOf(req[r].intent)
          /\ UNCHANGED <<faults, calm>>
       \/ Fault /\ calm' = FALSE /\ UNCHANGED rows
    /\ UNCHANGED <<files, registry, shift, said, latest, learned>>

\* An add that fails loses what the delete took.
AddRow(r) ==
    /\ req[r].stage = "deleted"
    /\ req' = [req EXCEPT ![r] = Finished("done")]
    /\ \/ /\ rows' = rows \cup {[by |-> r, intent |-> req[r].intent, ex |-> req[r].ex]}
          /\ latest' = [latest EXCEPT ![req[r].intent] =
                {e \in @ : e[1] # req[r].x} \cup {<<req[r].x, req[r].y>>}]
          /\ UNCHANGED <<faults, calm>>
       \/ Fault /\ calm' = FALSE /\ UNCHANGED <<rows, latest>>
    /\ UNCHANGED <<files, registry, shift, said, learned>>
-----------------------------------------------------------------------------
(* The night shift: compileFromDatabase. *)

distill(records) == {[intent |-> w.intent, hash |-> Induced(w.ex)] : w \in records}

\* The rows are read and distilled, the registry is loaded.
StartShift ==
    /\ ~shift.on /\ rows # {}
    /\ shift' = [on |-> TRUE, todo |-> distill(rows), reg |-> registry, read |-> rows]
    /\ UNCHANGED <<rows, req, files, registry, faults, historyVars>>

\* Mutant of Unchanged: an intent that has a skill keeps it.
UnchangedById(d) == shift.reg[d.intent] # None

Unchanged(d) == shift.reg[d.intent] = d.hash

\* One descriptor: skipped as unchanged, or compiled, written and registered
\* in memory; or its compilation or its write fails.
CompileOne(d) ==
    /\ shift.on /\ d \in shift.todo
    /\ \/ /\ Unchanged(d)
          /\ shift' = [shift EXCEPT !.todo = @ \ {d}]
          /\ UNCHANGED <<files, faults, calm>>
       \/ /\ ~Unchanged(d)
          /\ files' = [files EXCEPT ![d.intent] = d.hash]
          /\ shift' = [shift EXCEPT !.todo = @ \ {d}, !.reg[d.intent] = d.hash]
          /\ UNCHANGED <<faults, calm>>
       \/ /\ ~Unchanged(d)
          /\ Fault /\ calm' = FALSE
          /\ shift' = [shift EXCEPT !.todo = @ \ {d}]
          /\ UNCHANGED files
    /\ UNCHANGED <<rows, req, registry, said, latest, learned>>

EndShift ==
    /\ shift.on /\ shift.todo = {}
    /\ registry' = shift.reg
    /\ shift' = NoShift
    /\ learned' = shift.read
    /\ UNCHANGED <<rows, req, files, faults, said, latest, calm>>

\* The daemon dies and starts again: what was in flight is gone, and a file
\* it was writing is torn, the registry (read back as empty) or a skill.
Crash ==
    /\ Fault /\ calm' = FALSE
    /\ req' = [r \in Requests |-> IF req[r].stage = "none" THEN req[r] ELSE Finished("done")]
    /\ shift' = NoShift
    /\ \/ UNCHANGED <<files, registry>>
       \/ \E d \in shift.todo : /\ ~Unchanged(d)
                                /\ files' = [files EXCEPT ![d.intent] = Torn]
                                /\ UNCHANGED registry
       \/ /\ shift.on /\ shift.todo = {}
          /\ registry' = [i \in Intents |-> None]
          /\ UNCHANGED files
    /\ UNCHANGED <<rows, said, latest, learned>>

LearnNext ==
    \/ \E r \in Requests, i \in Intents, x \in Inputs : Match(r, i, x) \/ MatchNothing(r, i, x)
    \/ \E r \in Requests : \/ Serve(r) \/ AnswerProse(r) \/ ReadPrior(r) \/ DeletePrior(r) \/ AddRow(r)
                           \/ \E y \in Outputs : Answer(r, y)
    \/ StartShift \/ EndShift \/ Crash
    \/ \E d \in shift.todo : CompileOne(d)

LearnSpec == LearnInit /\ [][LearnNext]_learnVars
-----------------------------------------------------------------------------
Programs == {files[i] : i \in Intents} \ {None, Automation, Torn}

(***************************************************************************)
(* "A single observation can never determine a transform ... This is what  *)
(* stops one chat reply from minting a skill" (skill-induction.js:135), and *)
(* a skill-served reply is not observed (local-inference.js:298): whatever *)
(* captures overlap or fail, a program on disk is one the model's own      *)
(* answers to at least two operands of that intent determine, and it gives *)
(* those answers back, as far as an i32 can hold them.                     *)
(***************************************************************************)
GroundedSkills ==
    \A i \in Intents : files[i] \in Programs =>
        \E ex \in SUBSET {<<s[2], s[3]>> : s \in {t \in said : t[1] = i}} :
            /\ Cardinality(Xs(ex)) >= 2
            /\ Induced(ex) = files[i]
            /\ \A e \in ex : compute(files[i], e[1]) = wrap(e[2])

(***************************************************************************)
(* "a transform needs MANY observations ... Merge the new example(s) into  *)
(* whatever this skill id already learned" (self-evolution.js:114): as     *)
(* long as captures of one intent do not overlap and nothing fails, the    *)
(* night after the last capture leaves every intent the skill that all of  *)
(* its answers together determine, whether its file was new, rebuilt or    *)
(* skipped as unchanged.                                                   *)
(***************************************************************************)
LearnsOverNight ==
    calm /\ ~shift.on /\ learned = rows /\ ~(\E r \in Requests : Capturing(r)) =>
        \A i \in Intents : latest[i] # {} => files[i] = Induced(latest[i])
=============================================================================
