------------------------ MODULE BreakerBridgeProofs -------------------------
(***************************************************************************)
(* Proofs about two components that share no variable and no step.         *)
(* UpstreamBreaker: for every set of requests, threshold, cooldown and     *)
(* clock bound.  TelegramBridge, in the second part: for every number and  *)
(* length of messages, faults, /forget and restarts; its specification is  *)
(* BridgeSpec.                                                             *)
(***************************************************************************)
EXTENDS UpstreamBreaker, TelegramBridge, FiniteSetTheorems, WellFoundedInduction,
        TLAPS


\* No attempt carries a stamp from the future, so a fresh generation belongs
\* to nobody.
StampsFromThePast == \A r \in Requests : req[r].gen <= generation

\* Only an attempt found alive has a body on its way to the caller.
BodiesOfTheAlive == \A r \in Requests : req[r].reply = "piping" => req[r].phase = "alive"

\* The inductive invariant behind SingleProbe and CountedFailures.
IInv ==
    /\ TypeOK
    /\ StampsFromThePast
    /\ BodiesOfTheAlive
    /\ SingleProbe

-----------------------------------------------------------------------------
\* What the two ways of writing an attempt's record do to its type.
LEMMA FreshAttempt ==
    ASSUME NEW ph \in Phases, NEW g \in Nat, NEW b \in BOOLEAN, NEW rp \in Replies
    PROVE  [phase |-> ph, gen |-> g, probe |-> b, reply |-> rp] \in Attempt
BY DEF Attempt

LEMMA AnswerTyped ==
    ASSUME TypeOK, NEW r \in Requests, NEW ph \in Phases, NEW rp \in Replies,
           Answer(r, ph, rp)
    PROVE  req' \in [Requests -> Attempt]
BY DEF TypeOK, Answer, Attempt

\* The state types are respected by every step of the breaker and its callers.
THEOREM TypeCorrect == Spec => []TypeOK
<1> USE BreakerAssumption
<1>0. /\ {"new", "inflight", "skipped", "alive", "failed"} \subseteq Phases
      /\ {"none", "fallback", "piping", "upstream", "broken"} \subseteq Replies
  BY DEF Phases, Replies
<1>1. Init => TypeOK
  <2> DEFINE fresh == [phase |-> "new", gen |-> 0, probe |-> FALSE, reply |-> "none"]
  <2>1. fresh \in Attempt
    BY <1>0, FreshAttempt
  <2> HIDE DEF fresh
  <2>2. Init => req = [r \in Requests |-> fresh]
    BY DEF Init, fresh
  <2>3. Init => req \in [Requests -> Attempt]
    BY <2>1, <2>2
  <2>4. Init => /\ failures \in Nat /\ openedAt \in Nat
                /\ generation \in Nat /\ now \in Nat
    BY DEF Init
  <2>5. Init => probing \in BOOLEAN
    BY DEF Init
  <2>6. QED
    BY <2>3, <2>4, <2>5 DEF TypeOK
<1>2. TypeOK /\ [Next]_vars => TypeOK'
  <2> SUFFICES ASSUME TypeOK, [Next]_vars PROVE TypeOK'
    OBVIOUS
  <2>1. CASE Tick
    BY <2>1 DEF Tick, breakerVars, TypeOK
  <2>2. ASSUME NEW r \in Requests, Begin(r) PROVE TypeOK'
    <3> DEFINE attempt(ph, b, rp) ==
                 [phase |-> ph, gen |-> generation, probe |-> b, reply |-> rp]
    <3>1. /\ attempt("inflight", TRUE, "none") \in Attempt
          /\ attempt("inflight", FALSE, "none") \in Attempt
          /\ attempt("skipped", FALSE, "fallback") \in Attempt
      BY <1>0, FreshAttempt DEF TypeOK
    <3> HIDE DEF attempt
    <3>2. \E a \in Attempt : req' = [req EXCEPT ![r] = a]
      BY <2>2, <3>1 DEF Begin, BeginClosed, BeginProbe, BeginRefused, Admitted, attempt
    <3>3. req' \in [Requests -> Attempt]
      BY <3>2 DEF TypeOK
    <3>4. QED
      BY <2>2, <3>3 DEF Begin, BeginClosed, BeginProbe, BeginRefused, TypeOK, breakerVars
  <2>3. ASSUME NEW r \in Requests, UpstreamAlive(r) PROVE TypeOK'
    <3>1. req' \in [Requests -> Attempt]
      BY <1>0, <2>3, AnswerTyped DEF UpstreamAlive
    <3>2. /\ failures' \in Nat /\ openedAt' \in Nat
          /\ generation' \in Nat /\ now' \in Nat
      BY <2>3 DEF UpstreamAlive, recordSuccess, TypeOK, breakerVars
    <3>3. probing' \in BOOLEAN
      BY <2>3 DEF UpstreamAlive, recordSuccess, TypeOK, breakerVars
    <3>4. QED
      BY <3>1, <3>2, <3>3 DEF TypeOK
  <2>4. ASSUME NEW r \in Requests, UpstreamFailed(r) PROVE TypeOK'
    <3>1. req' \in [Requests -> Attempt]
      BY <1>0, <2>4, AnswerTyped DEF UpstreamFailed
    <3>2. /\ failures' \in Nat /\ openedAt' \in Nat
          /\ generation' \in Nat /\ now' \in Nat
      BY <2>4 DEF UpstreamFailed, recordFailure, TypeOK, breakerVars
    <3>3. probing' \in BOOLEAN
      BY <2>4 DEF UpstreamFailed, recordFailure, TypeOK, breakerVars
    <3>4. QED
      BY <3>1, <3>2, <3>3 DEF TypeOK
  <2>5. ASSUME NEW r \in Requests, BodyEnds(r) PROVE TypeOK'
    <3>1. req' \in [Requests -> Attempt]
      BY <1>0, <2>5, AnswerTyped DEF BodyEnds
    <3>2. QED
      BY <2>5, <3>1 DEF BodyEnds, TypeOK, breakerVars
  <2>6. CASE UNCHANGED vars
    BY <2>6 DEF vars, TypeOK
  <2>7. QED
    BY <2>1, <2>2, <2>3, <2>4, <2>5, <2>6 DEF Next, Complete
<1>3. QED
  BY <1>1, <1>2, PTL DEF Spec

-----------------------------------------------------------------------------
LEMMA IInvInit == Init /\ TypeOK => IInv
<1> SUFFICES ASSUME Init, TypeOK PROVE IInv
  OBVIOUS
<1>1. InFlight = {} /\ ~Tripped
  BY BreakerAssumption DEF Init, InFlight, Tripped
<1>2. StampsFromThePast /\ BodiesOfTheAlive /\ ~probing
  BY DEF Init, StampsFromThePast, BodiesOfTheAlive
<1>3. QED
  BY <1>1, <1>2 DEF IInv, SingleProbe

LEMMA IInvNext == IInv /\ TypeOK' /\ [Next]_vars => IInv'
<1> SUFFICES ASSUME IInv, TypeOK', [Next]_vars PROVE IInv'
  OBVIOUS
<1> USE BreakerAssumption
    DEF IInv, TypeOK, StampsFromThePast, BodiesOfTheAlive, SingleProbe,
        InFlight, Tripped, Current, Attempt
<1>1. CASE Tick
  BY <1>1 DEF Tick, breakerVars
<1>2. ASSUME NEW r \in Requests, BeginClosed(r) PROVE IInv'
  BY <1>2 DEF BeginClosed, Admitted, breakerVars
<1>3. ASSUME NEW r \in Requests, BeginProbe(r) PROVE IInv'
  BY <1>3 DEF BeginProbe, Admitted
<1>4. ASSUME NEW r \in Requests, BeginRefused(r) PROVE IInv'
  BY <1>4 DEF BeginRefused, breakerVars
<1>5. ASSUME NEW r \in Requests, UpstreamAlive(r) PROVE IInv'
  BY <1>5 DEF UpstreamAlive, recordSuccess, Answer, breakerVars
<1>6. ASSUME NEW r \in Requests, UpstreamFailed(r) PROVE IInv'
  BY <1>6 DEF UpstreamFailed, recordFailure, Answer, breakerVars
<1>7. ASSUME NEW r \in Requests, BodyEnds(r) PROVE IInv'
  BY <1>7 DEF BodyEnds, Answer, breakerVars
<1>8. CASE UNCHANGED vars
  BY <1>8 DEF vars
<1>9. QED
  BY <1>1, <1>2, <1>3, <1>4, <1>5, <1>6, <1>7, <1>8 DEF Next, Begin, Complete

LEMMA IInvCorrect == Spec => []IInv
<1>1. IInv /\ [Next]_vars /\ TypeOK' => IInv'
  BY IInvNext
<1>2. QED
  BY IInvInit, <1>1, TypeCorrect, PTL DEF Spec

\* Half-open admits exactly one probe, after the cooldown of the last open, and
\* the slot never leaks, however the attempts interleave.
THEOREM SingleProbeCorrect == Spec => []SingleProbe
<1>1. IInv => SingleProbe
  BY DEF IInv
<1>2. QED
  BY <1>1, IInvCorrect, PTL

\* Only the probe's own outcome ends the half-open state, and only a probe
\* found alive closes a tripped breaker.
THEOREM OnlyProbeSettlesCorrect == Spec => OnlyProbeSettles
<1> DEFINE Settles ==
      /\ (probing /\ ~probing' =>
             \E r \in InFlight : req[r].probe /\ req'[r].phase \in {"alive", "failed"})
      /\ (Tripped /\ ~Tripped' =>
             \E r \in InFlight : req[r].probe /\ req'[r].phase = "alive")
<1>1. ASSUME IInv, [Next]_vars PROVE [Settles]_vars
  <2> USE <1>1, BreakerAssumption
      DEF IInv, TypeOK, SingleProbe, InFlight, Tripped, Current, Attempt
  <2>1. ASSUME NEW r \in Requests, UpstreamAlive(r) PROVE Settles
    BY <2>1 DEF UpstreamAlive, recordSuccess, Answer, breakerVars
  <2>2. ASSUME NEW r \in Requests, UpstreamFailed(r) PROVE Settles
    BY <2>2 DEF UpstreamFailed, recordFailure, Answer, breakerVars
  <2>3. CASE Tick \/ \E r \in Requests : Begin(r) \/ BodyEnds(r)
    BY <2>3 DEF Tick, Begin, BeginClosed, BeginProbe, BeginRefused, BodyEnds, breakerVars
  <2>4. QED
    BY <2>1, <2>2, <2>3 DEF Next, Complete
<1>2. QED
  BY <1>1, IInvCorrect, PTL DEF Spec, OnlyProbeSettles

-----------------------------------------------------------------------------
\* The failures the counter stands for while the breaker is closed.
Counted == {r \in Requests : req[r].phase = "failed" /\ Current(r)}

LEMMA CountedFailuresNext == IInv /\ CountedFailures /\ [Next]_vars => CountedFailures'
<1> SUFFICES ASSUME IInv, CountedFailures, [Next]_vars, Enabled,
                    (failures < Threshold)'
             PROVE  failures' = Cardinality(Counted')
  BY BreakerAssumption DEF CountedFailures, Counted
<1>0. IsFiniteSet(Counted)
  BY FS_Subset, BreakerAssumption DEF Counted
<1>1. ASSUME UNCHANGED <<failures, generation>>, Counted' = Counted
      PROVE  failures' = Cardinality(Counted')
  BY <1>1 DEF CountedFailures, Counted
<1> USE BreakerAssumption DEF IInv, TypeOK, Current, Attempt
<1>2. CASE Tick
  BY <1>1, <1>2 DEF Tick, breakerVars, Counted
<1>3. ASSUME NEW r \in Requests, Begin(r) PROVE failures' = Cardinality(Counted')
  BY <1>1, <1>3
  DEF Begin, BeginClosed, BeginProbe, BeginRefused, Admitted, breakerVars, Counted
<1>4. ASSUME NEW r \in Requests, BodyEnds(r) PROVE failures' = Cardinality(Counted')
  BY <1>1, <1>4 DEF BodyEnds, Answer, breakerVars, Counted, BodiesOfTheAlive
<1>5. ASSUME NEW r \in Requests, UpstreamAlive(r) PROVE failures' = Cardinality(Counted')
  <2>1. CASE Current(r)
    <3>1. Counted' = {}
      BY <1>5, <2>1 DEF UpstreamAlive, recordSuccess, Answer, Counted, StampsFromThePast
    <3>2. failures' = 0
      BY <1>5, <2>1 DEF UpstreamAlive, recordSuccess
    <3>3. QED
      BY <3>1, <3>2, FS_EmptySet
  <2>2. CASE ~Current(r)
    BY <1>1, <1>5, <2>2 DEF UpstreamAlive, recordSuccess, Answer, breakerVars, Counted
  <2>3. QED
    BY <2>1, <2>2
<1>6. ASSUME NEW r \in Requests, UpstreamFailed(r) PROVE failures' = Cardinality(Counted')
  <2>1. CASE Current(r)
    <3>1. failures' = failures + 1 /\ generation' = generation /\ failures < Threshold
      BY <1>6, <2>1 DEF UpstreamFailed, recordFailure
    <3>2. Counted' = Counted \cup {r} /\ r \notin Counted
      BY <1>6, <2>1, <3>1 DEF UpstreamFailed, Answer, Counted
    <3>3. Cardinality(Counted') = Cardinality(Counted) + 1
      BY <1>0, <3>2, FS_AddElement
    <3>4. QED
      BY <3>1, <3>3 DEF CountedFailures, Counted
  <2>2. CASE ~Current(r)
    BY <1>1, <1>6, <2>2 DEF UpstreamFailed, recordFailure, Answer, breakerVars, Counted
  <2>3. QED
    BY <2>1, <2>2
<1>7. CASE UNCHANGED vars
  BY <1>1, <1>7 DEF vars, Counted
<1>8. QED
  BY <1>2, <1>3, <1>4, <1>5, <1>6, <1>7 DEF Next, Complete

\* The closed breaker counts the failures since the last success or open, all
\* of them and nothing else.
THEOREM CountedFailuresCorrect == Spec => []CountedFailures
<1>1. Init => CountedFailures
  <2>1. Init => Counted = {} /\ failures = 0
    BY DEF Init, Counted
  <2>2. QED
    BY <2>1, FS_EmptySet DEF CountedFailures, Counted
<1>2. QED
  BY <1>1, IInvCorrect, CountedFailuresNext, PTL DEF Spec


-----------------------------------------------------------------------------
Probes == {r \in InFlight : req[r].probe}

\* The refinement mapping names the one probe in flight.
LEMMA ProberIs ==
    ASSUME IInv, NEW r \in Probes
    PROVE  probing /\ Tripped /\ Prober = r
BY DEF IInv, SingleProbe, Prober, Probes

LEMMA ProberIsNext ==
    ASSUME IInv', NEW r, r \in Probes'
    PROVE  probing' /\ Tripped' /\ Prober' = r
BY DEF IInv, SingleProbe, Prober, Probes

LEMMA NoProber ==
    ASSUME IInv, Probes = {}
    PROVE  ~probing /\ Prober = NoProbe
BY DEF IInv, SingleProbe, Prober, Probes

LEMMA NoProberNext ==
    ASSUME IInv', Probes' = {}
    PROVE  ~probing' /\ Prober' = NoProbe
BY DEF IInv, SingleProbe, Prober, Probes

\* A step that keeps the verdict of the breaker and its probe is a stutter of
\* the abstract machine.
LEMMA SameProbeStutters ==
    ASSUME IInv, IInv', Probes' = Probes, Tripped' = Tripped
    PROVE  Mode' = Mode /\ Prober' = Prober
<1>1. CASE Probes = {}
  BY <1>1, NoProber, NoProberNext DEF Mode
<1>2. CASE Probes # {}
  <2>1. PICK r \in Probes : TRUE
    BY <1>2
  <2>2. QED
    BY <2>1, ProberIs, ProberIsNext DEF Mode
<1>3. QED
  BY <1>1, <1>2

LEMMA StepRefines ==
    IInv /\ IInv' /\ [Next]_vars => [Abstract!AbstractNext]_(Abstract!abstractVars)
<1> SUFFICES ASSUME IInv, IInv', [Next]_vars
             PROVE  \/ Abstract!AbstractNext
                    \/ Mode' = Mode /\ Prober' = Prober
  BY DEF Abstract!abstractVars
<1> USE BreakerAssumption
<1>1. CASE Tick \/ UNCHANGED vars
  BY <1>1, SameProbeStutters DEF Tick, vars, breakerVars, Probes, InFlight, Tripped
<1>2. ASSUME NEW r \in Requests, BeginClosed(r) \/ BeginRefused(r) \/ BodyEnds(r)
      PROVE  Mode' = Mode /\ Prober' = Prober
  BY <1>2, SameProbeStutters
  DEF BeginClosed, BeginRefused, BodyEnds, Answer, Admitted, breakerVars, Probes,
      InFlight, Tripped, IInv, TypeOK, Attempt, BodiesOfTheAlive
<1>3. ASSUME NEW r \in Requests, BeginProbe(r)
      PROVE  Abstract!Admit(r)
  <2>1. r \in Probes'
    BY <1>3 DEF BeginProbe, Admitted, Probes, InFlight, IInv, TypeOK, Attempt
  <2>2. Mode = "open"
    BY <1>3 DEF BeginProbe, Mode
  <2>3. Mode' = "half-open" /\ Prober' = r
    BY <2>1, ProberIsNext DEF Mode
  <2>4. QED
    BY <2>2, <2>3 DEF Abstract!Admit
<1>4. ASSUME NEW r \in Requests, Complete(r)
      PROVE  Abstract!AbstractNext \/ (Mode' = Mode /\ Prober' = Prober)
  <2> USE DEF Probes, InFlight, Tripped, Complete, UpstreamAlive, UpstreamFailed,
              recordSuccess, recordFailure, Answer, breakerVars, IInv, TypeOK, Attempt,
              Current, SingleProbe
  <2>1. CASE r \in Probes
    <3>1. Probes' = {}
      BY <1>4, <2>1
    <3>2. Mode = "half-open"
      BY <2>1, ProberIs DEF Mode
    <3>3. Mode' \in {"closed", "open"} /\ Prober' = NoProbe
      BY <3>1, NoProberNext DEF Mode
    <3>4. QED
      BY <3>2, <3>3 DEF Abstract!AbstractNext, Abstract!Settle
  <2>2. CASE r \notin Probes
    <3>1. Probes' = Probes
      BY <1>4, <2>2
    <3>2. Tripped => Tripped'
      BY <1>4, <2>2
    <3>3. CASE ~Tripped /\ Tripped'
      <4>1. Probes = {}
        BY <3>3
      <4>2. Mode = "closed" /\ Mode' = "open" /\ Prober' = Prober
        BY <3>1, <3>3, <4>1, NoProber, NoProberNext DEF Mode
      <4>3. QED
        BY <4>2 DEF Abstract!AbstractNext, Abstract!Trip
    <3>4. QED
      BY <3>1, <3>2, <3>3, SameProbeStutters
  <2>3. QED
    BY <2>1, <2>2
<1>5. QED
  BY <1>1, <1>2, <1>3, <1>4 DEF Next, Begin, Abstract!AbstractNext

\* The breaker implements the closed / open / half-open machine of its header.
THEOREM RefinementCorrect == Spec => ImplementsCircuitBreaker
<1>1. Init => Abstract!AbstractInit
  BY BreakerAssumption DEF Init, Abstract!AbstractInit, Mode, Prober, Tripped
<1>2. QED
  BY <1>1, IInvCorrect, StepRefines, PTL
  DEF Spec, ImplementsCircuitBreaker, Abstract!AbstractSpec

-----------------------------------------------------------------------------
(***************************************************************************)
(* TelegramBridge: a reply needs one invariant over each handler (Shown).  *)
(* What /forget found needs three: turns are said once, so what joins the  *)
(* history is new (History); unless a fault stands between, the user model *)
(* holds nothing that was forgotten but what the syntheses in flight at    *)
(* the wipe had read, and only new messages wait for its database, or a    *)
(* whole wipe waits with only new messages behind it (Model). The queue    *)
(* runs as a fold, which the community modules define by recursion on the  *)
(* subsets of its domain: that it is what one call after the other leaves  *)
(* behind is proved from the well-founded order of the naturals.           *)
(***************************************************************************)

(* The queue of the user model as a fold: FoldLeft of the community modules  *)
(* takes the largest element of each set of positions last.                  *)

\* A set of naturals has a least element, as the order is well-founded.
LEMMA LeastNumber ==
  ASSUME NEW T, T \subseteq Nat, T # {}
  PROVE  \E x \in T : \A y \in T : x <= y
<1> DEFINE R == OpToRel(<, Nat)
<1>1. IsWellFoundedOn(R, Nat)
  BY NatLessThanWellFounded
<1>2. \A y, x \in Nat : y < x => <<y, x>> \in R
  BY DEF OpToRel
<1> HIDE DEF R
<1>3. PICK x \in T : \A y \in T : ~(<<y, x>> \in R)
  BY <1>1, WFMin
<1>4. \A y \in T : y \in Nat /\ x \in Nat /\ ~(y < x)
  BY <1>2, <1>3
<1> QED
  BY <1>4

\* The iterator of FoldLeft, a function on the sets of positions.
Top(s) == CHOOSE x \in s : \A y \in s : x >= y
Folds(it, store, calls) ==
    it = [s \in SUBSET DOMAIN calls |->
            IF s = {} THEN store ELSE Run(it[s \ {Top(s)}], calls[Top(s)])]

Runs(store, calls) == FoldLeft(Run, store, calls)

LEMMA FoldIs ==
  ASSUME NEW store, NEW calls
  PROVE  Runs(store, calls) = (CHOOSE it : Folds(it, store, calls))[DOMAIN calls]
  BY Zenon DEF Runs, FoldLeft, MapThenFoldSet, Folds, Top, Max

LEMMA TopIs ==
  ASSUME NEW n \in Nat, NEW s \in SUBSET (1 .. n), s # {}
  PROVE  Top(s) \in s /\ \A y \in s : Top(s) >= y
<1> DEFINE T == {d \in Nat : n - d \in s}
<1>1. T # {}
  <2>1. PICK y \in s : TRUE
    OBVIOUS
  <2>2. n - y \in Nat /\ n - (n - y) = y
    OBVIOUS
  <2> QED
    BY <2>1, <2>2
<1>2. PICK d \in T : \A e \in T : d <= e
  BY <1>1, LeastNumber
<1>3. \A y \in s : y \in 1 .. n /\ n - y \in T
  OBVIOUS
<1>4. d \in Nat /\ n - d \in s
  OBVIOUS
<1> HIDE DEF T
<1>5. \A y \in s : y \in Int /\ d <= n - y
  BY <1>2, <1>3
<1>6. \A y \in s : n - d >= y
  BY <1>4, <1>5
<1>7. \E x \in s : \A y \in s : x >= y
  BY <1>4, <1>6
<1> QED
  BY <1>7, Zenon DEF Top

LEMMA FoldExists ==
  ASSUME NEW store, NEW calls, NEW len \in Nat, DOMAIN calls = 1 .. len
  PROVE  \E it : Folds(it, store, calls)
<1> DEFINE D == SUBSET (1 .. len)
           Step(it, s) == IF s = {} THEN store ELSE Run(it[s \ {Top(s)}], calls[Top(s)])
           Good(it, n) == \A s \in D : s \subseteq 1 .. n => it[s] = Step(it, s)
           Bad == {n \in Nat : ~ \E it : it = [s \in D |-> it[s]] /\ Good(it, n)}
<1>1. \A n \in Nat : \A s \in D : s \subseteq 1 .. n /\ s # {} =>
         s \ {Top(s)} \in D /\ s \ {Top(s)} \subseteq 1 .. (n - 1)
  <2> SUFFICES ASSUME NEW n \in Nat, NEW s \in D, s \subseteq 1 .. n, s # {}
               PROVE  s \ {Top(s)} \in D /\ s \ {Top(s)} \subseteq 1 .. (n - 1)
    OBVIOUS
  <2>1. Top(s) \in s /\ \A y \in s : Top(s) >= y
    BY TopIs
  <2>2. \A y \in s \ {Top(s)} : y \in 1 .. n /\ y # Top(s) /\ Top(s) \in 1 .. n /\ Top(s) >= y
    BY <2>1
  <2>3. \A y \in s \ {Top(s)} : y \in 1 .. (n - 1)
    BY <2>2
  <2> QED
    BY <2>3
<1>2. Bad = {}
  <2> SUFFICES ASSUME Bad # {} PROVE FALSE
    OBVIOUS
  <2>1. PICK n \in Bad : \A m \in Bad : n <= m
    <3>1. Bad \subseteq Nat
      OBVIOUS
    <3> HIDE DEF Bad
    <3> QED
      BY <3>1, LeastNumber
  <2>2. n # 0
    <3> DEFINE it == [s \in D |-> store]
    <3>1. it = [s \in D |-> it[s]]
      OBVIOUS
    <3>2. Good(it, 0)
      OBVIOUS
    <3> HIDE DEF it, Good
    <3> QED
      BY <3>1, <3>2, <2>1
  <2>3. n - 1 \in Nat /\ n - 1 \notin Bad
    <3>1. n \in Nat /\ n - 1 \in Nat
      BY <2>1, <2>2
    <3>2. n - 1 \in Bad => n <= n - 1
      BY <2>1
    <3> HIDE DEF Bad
    <3> QED
      BY <3>1, <3>2
  <2>4. PICK it : it = [s \in D |-> it[s]] /\ Good(it, n - 1)
    <3> HIDE DEF Good, D
    <3> QED
      BY <2>3
  <2> DEFINE next == [s \in D |-> IF s \subseteq 1 .. (n - 1) THEN it[s] ELSE Step(it, s)]
  <2>5. next = [s \in D |-> next[s]]
    OBVIOUS
  <2>6. Good(next, n)
    <3> SUFFICES ASSUME NEW s \in D, s \subseteq 1 .. n
                 PROVE  next[s] = Step(next, s)
      OBVIOUS
    <3>1. next[s] = Step(it, s)
      BY <2>4
    <3>2. s # {} => next[s \ {Top(s)}] = it[s \ {Top(s)}]
      BY <1>1, <2>1
    <3> QED
      BY <3>1, <3>2
  <2> HIDE DEF next, Good
  <2> QED
    BY <2>1, <2>5, <2>6
<1>3. PICK it : it = [s \in D |-> it[s]] /\ Good(it, len)
  <2>1. len \notin Bad
    BY <1>2
  <2> HIDE DEF Good, D
  <2> QED
    BY <2>1
<1>4. \A s \in D : it[s] = Step(it, s)
  BY <1>3
<1>5. it = [s \in D |-> Step(it, s)]
  BY <1>3, <1>4
<1> QED
  BY <1>5 DEF Folds

\* The states a sequence of user-model calls goes through.
Steps(f, store, calls) ==
    /\ f[0] = store
    /\ \A k \in 1 .. Len(calls) : f[k] = Run(f[k - 1], calls[k])
    /\ f[Len(calls)] = Runs(store, calls)

LEMMA FoldSteps ==
  ASSUME NEW store, NEW S, NEW calls \in Seq(S)
  PROVE  \E f : Steps(f, store, calls)
<1> DEFINE it == CHOOSE i : Folds(i, store, calls)
           f == [k \in 0 .. Len(calls) |-> it[1 .. k]]
<1>1. Len(calls) \in Nat /\ DOMAIN calls = 1 .. Len(calls)
  OBVIOUS
<1>2. Folds(it, store, calls)
  BY <1>1, FoldExists
<1>3. it[DOMAIN calls] = Runs(store, calls)
  BY FoldIs
<1> HIDE DEF it
<1>4. f[0] = store
  <2>1. 1 .. 0 = {} /\ {} \in SUBSET DOMAIN calls
    OBVIOUS
  <2>2. it[{}] = store
    BY <1>2, <2>1 DEF Folds
  <2> QED
    BY <1>1, <2>1, <2>2
<1>5. ASSUME NEW k \in 1 .. Len(calls)
      PROVE  f[k] = Run(f[k - 1], calls[k])
  <2>1. 1 .. k \in SUBSET DOMAIN calls /\ 1 .. k # {}
    BY <1>1
  <2>2. Top(1 .. k) \in 1 .. k /\ \A y \in 1 .. k : Top(1 .. k) >= y
    <3>1. k \in Nat /\ 1 .. k \in SUBSET (1 .. k)
      BY <1>1
    <3> QED
      BY <2>1, <3>1, TopIs
  <2>3. Top(1 .. k) = k
    BY <1>1, <2>2
  <2>4. (1 .. k) \ {k} = 1 .. (k - 1)
    BY <1>1
  <2>5. it[1 .. k] = Run(it[(1 .. k) \ {Top(1 .. k)}], calls[Top(1 .. k)])
    BY <1>2, <2>1 DEF Folds
  <2>6. it[1 .. k] = Run(it[1 .. (k - 1)], calls[k])
    BY <2>3, <2>4, <2>5
  <2>7. f[k] = it[1 .. k] /\ f[k - 1] = it[1 .. (k - 1)]
    BY <1>1
  <2> QED
    BY <2>6, <2>7
<1>6. f[Len(calls)] = Runs(store, calls)
  BY <1>1, <1>3
<1> HIDE DEF f
<1>7. Steps(f, store, calls)
  BY <1>4, <1>5, <1>6 DEF Steps
<1> QED
  BY <1>7

-----------------------------------------------------------------------------
(* The inductive invariants.                                                *)

\* The fields of a handler, as far as the proofs need them.
Fields == {"pc", "full", "start", "fails", "shown", "gap"}
Handler(t) ==
    /\ DOMAIN t = Fields
    /\ t.full \in Nat /\ t.start \in Nat /\ t.gap \in BOOLEAN

\* What the user can see of a reply: the messages before the current one
\* entirely, unless the failure of both edits of one was swallowed.
Shows(t) ==
    /\ t.start <= t.full /\ t.shown \subseteq 1 .. t.full
    /\ ~t.gap => 1 .. t.start \subseteq t.shown
    /\ t.pc \in {"gateway", "again"} => t.full = 0
    /\ t.pc = "answered" /\ ~t.gap => t.shown = 1 .. t.full

Shown == DOMAIN turn = Msgs /\ \A m \in Msgs : Handler(turn[m]) /\ Shows(turn[m])

\* The turns that were said, none of which is said again.
Heard == {m \in Msgs : turn[m].pc \notin {"idle", "text", "voice"}}
Replied == {m \in Msgs : turn[m].pc \in {"speak", "error", "done"}}
Said == ({"user"} \X Heard) \cup ({"assistant"} \X Replied)

History ==
    /\ cache \in Seq(Said) /\ file \in Seq(Said) /\ forgotten \subseteq Said
    /\ "file" \in spared \/ (Range(cache) \cup Range(file)) \cap forgotten = {}

Calls(S) == {Look} \cup {Forget(fate) : fate \in Fates} \cup {Observe(m) : m \in S}

\* What the user model keeps, as far as the proofs need it.
Columns == {"rows", "ids", "theory", "started", "leaked"}
Stored(store, S) ==
    /\ DOMAIN store = Columns
    /\ store.rows \in Seq(S) /\ store.theory.from \subseteq S
    /\ \A drawn \in DOMAIN store.started : drawn.from \subseteq S

\* Nothing of F is left in the rows, and of the theories, the one written and
\* those that are being drawn, only what had leaked into the latter.
Clean(store, F) ==
    /\ Range(store.rows) \cap F = {}
    /\ store.theory.from \cap F \subseteq store.leaked
    /\ \A drawn \in DOMAIN store.started : drawn.from \cap F \subseteq store.leaked

\* The calls after the i-th tell the user model nothing of F.
New(call, F) == call = Look \/ \E m \in Msgs \ F : call = Observe(m)
NewAfter(i, calls, F) == \A j \in i + 1 .. Len(calls) : New(calls[j], F)

\* Once the calls have run, the user model is clean.
Cleans(store, calls, F) ==
    \/ Clean(store, F) /\ NewAfter(0, calls, F)
    \/ \E i \in 1 .. Len(calls) : calls[i] = Forget("both") /\ NewAfter(i, calls, F)

Model ==
    /\ db # "ours" => loading = <<>>
    /\ loading \in Seq(Calls(Heard)) /\ Stored(Store, Heard)
    /\ spared \subseteq {"file"} => Cleans(Store, loading, Wiped)

-----------------------------------------------------------------------------
(* What the user can see of a reply.                                        *)

LEMMA BecomesShown ==
  ASSUME Shown, NEW m \in Msgs, NEW t, Handler(t), Shows(t), Becomes(m, t)
  PROVE  Shown'
  BY DEF Shown, Becomes, Handler, Shows, Fields

LEMMA GotoShown ==
  ASSUME Shown, NEW m \in Msgs, NEW pc, pc \notin {"answered", "gateway", "again"}, Goto(m, pc)
  PROVE  Shown'
<1>1. PICK t : t = [turn[m] EXCEPT !.pc = pc]
  OBVIOUS
<1>2. Handler(t) /\ Shows(t)
  BY <1>1 DEF Shown, Handler, Shows, Fields
<1> QED
  BY <1>1, <1>2, BecomesShown DEF Goto

LEMMA OverShown ==
  ASSUME Shown, NEW m \in Msgs, Becomes(m, Over("done"))
  PROVE  Shown'
<1>1. Handler(Over("done")) /\ Shows(Over("done"))
  BY DEF Over, NoTurn, Handler, Shows, Fields
<1> QED
  BY <1>1, BecomesShown

\* What is left of a handler that has only the text of its reply, or is done
\* with it.
LEMMA GatheredFields ==
  ASSUME NEW t, Handler(t), NEW pc, pc \notin {"answered", "gateway", "again"}
  PROVE  Handler(Gathered(t, pc)) /\ Shows(Gathered(t, pc)) /\ Gathered(t, pc).pc = pc
  BY DEF Gathered, Over, NoTurn, Handler, Shows, Fields

LEMMA AnsweredFields ==
  ASSUME NEW t, Handler(t), NEW seen, seen \subseteq 1 .. t.full,
         NEW gap \in BOOLEAN, ~gap => seen = 1 .. t.full
  PROVE  /\ Handler(Answered(t, seen, gap)) /\ Shows(Answered(t, seen, gap))
         /\ Answered(t, seen, gap).pc = "answered"
<1>1. PICK a : a = Answered(t, seen, gap)
  OBVIOUS
<1>2. /\ DOMAIN a = Fields /\ a.pc = "answered" /\ a.full = t.full /\ a.start = 0
      /\ a.shown = seen
  BY <1>1 DEF Answered, Over, NoTurn, Fields
<1>3. a.gap = gap
  BY <1>1, Zenon DEF Answered, Over, NoTurn
<1>4. Handler(a)
  BY <1>2, <1>3 DEF Handler
<1>5. Shows(a)
  BY <1>2, <1>3 DEF Shows, Handler
<1> QED
  BY <1>1, <1>2, <1>4, <1>5

LEMMA TokenShown ==
  ASSUME Shown, NEW m \in Msgs, Token(m)
  PROVE  Shown'
<1>1. Handler(turn[m]) /\ Shows(turn[m]) /\ turn[m].pc \in {"stream", "blind"}
  BY DEF Shown, Token
<1>2. PICK t : t = Arrived(m)
  OBVIOUS
<1>3. Handler(t) /\ Shows(t)
  BY <1>1, <1>2 DEF Arrived, Handler, Shows, Fields
<1>4. \/ Becomes(m, [t EXCEPT !.pc = "roll"])
      \/ Becomes(m, t)
      \/ Becomes(m, Edited(t))
      \/ Becomes(m, EditFailed(t))
  BY <1>2, Zenon DEF Token
<1>5. PICK u : Becomes(m, u) /\ u \in {[t EXCEPT !.pc = "roll"], t, Edited(t), EditFailed(t)}
  BY <1>4
<1>6. Handler(u) /\ Shows(u)
  <2>1. CASE u = [t EXCEPT !.pc = "roll"]
    BY <1>3, <2>1 DEF Handler, Shows, Fields
  <2>2. CASE u = t
    BY <1>3, <2>2
  <2>3. CASE u = Edited(t)
    BY <1>3, <2>3 DEF Edited, Handler, Shows, Fields
  <2>4. CASE u = EditFailed(t)
    <3>1. CASE u = [t EXCEPT !.fails = @ + 1]
      BY <1>3, <3>1 DEF Handler, Shows, Fields
    <3>2. CASE u = Gathered(t, "blind")
      BY <1>3, <3>2, GatheredFields
    <3> QED
      BY <2>4, <3>1, <3>2 DEF EditFailed
  <2> QED
    BY <1>5, <2>1, <2>2, <2>3, <2>4
<1> QED
  BY <1>5, <1>6, BecomesShown

\* A message left behind shows all of its tokens, or the reply has a gap.
LEMMA RollShown ==
  ASSUME Shown, NEW m \in Msgs, Roll(m)
  PROVE  Shown'
<1>1. PICK t \in Finalised(m) :
         \/ Becomes(m, [t EXCEPT !.pc = "stream", !.start = t.full])
         \/ Becomes(m, Gathered(t, "rescue"))
  BY DEF Roll
<1>2. Handler(turn[m]) /\ Shows(turn[m])
  BY DEF Shown
<1>3. Handler(t) /\ Shows([t EXCEPT !.pc = "roll"]) /\ (~t.gap => t.shown = 1 .. t.full)
  <2>1. CASE t = [turn[m] EXCEPT !.shown = @ \cup Segment(m)]
    BY <1>2, <2>1 DEF Segment, Handler, Shows, Fields
  <2>2. CASE t = [turn[m] EXCEPT !.gap = @ \/ ~(Segment(m) \subseteq turn[m].shown)]
    <3>1. /\ DOMAIN t = Fields /\ t.full = turn[m].full /\ t.start = turn[m].start
          /\ t.shown = turn[m].shown /\ t.pc = turn[m].pc
      BY <1>2, <2>2 DEF Handler, Fields
    <3>2. t.gap = (turn[m].gap \/ ~(Segment(m) \subseteq turn[m].shown))
      BY <1>2, <2>2, Zenon DEF Handler, Fields
    <3>3. t.gap \in BOOLEAN
      BY <3>2, Zenon
    <3>4. ~t.gap => ~turn[m].gap /\ Segment(m) \subseteq turn[m].shown
      BY <3>2
    <3>5. Handler(t)
      BY <1>2, <3>1, <3>3 DEF Handler
    <3>6. ~t.gap => t.shown = 1 .. t.full
      <4>1. ~t.gap => /\ turn[m].shown \subseteq 1 .. turn[m].full
                      /\ 1 .. turn[m].start \subseteq turn[m].shown
                      /\ turn[m].start + 1 .. turn[m].full \subseteq turn[m].shown
        BY <1>2, <3>4 DEF Segment, Shows
      <4>2. \A i \in 1 .. turn[m].full :
               i \in 1 .. turn[m].start \/ i \in turn[m].start + 1 .. turn[m].full
        BY <1>2 DEF Handler
      <4>3. ~t.gap => \A i \in 1 .. turn[m].full : i \in turn[m].shown
        BY <4>1, <4>2
      <4> QED
        BY <3>1, <4>1, <4>3
    <3>7. PICK u : u = [t EXCEPT !.pc = "roll"]
      OBVIOUS
    <3>8. /\ u.pc = "roll" /\ u.full = t.full /\ u.start = t.start /\ u.shown = t.shown
          /\ u.gap = t.gap
      BY <3>1, <3>7 DEF Fields
    <3>9. Shows(u)
      BY <1>2, <3>1, <3>6, <3>8 DEF Handler, Shows
    <3> QED
      BY <3>5, <3>6, <3>7, <3>9
  <2> QED
    BY <1>1, <2>1, <2>2 DEF Finalised
<1>4. PICK u : /\ Becomes(m, u)
               /\ u = [t EXCEPT !.pc = "stream", !.start = t.full] \/ u = Gathered(t, "rescue")
  BY <1>1
<1>5. Handler(u) /\ Shows(u)
  <2>1. CASE u = [t EXCEPT !.pc = "stream", !.start = t.full]
    BY <1>3, <2>1 DEF Handler, Shows, Fields
  <2>2. CASE u = Gathered(t, "rescue")
    BY <1>3, <2>2, GatheredFields
  <2> QED
    BY <1>4, <2>1, <2>2
<1> QED
  BY <1>1, <1>4, <1>5, BecomesShown

LEMMA FinalEditShown ==
  ASSUME Shown, NEW m \in Msgs, FinalEdit(m)
  PROVE  Shown'
<1>0. Handler(turn[m]) /\ Shows(turn[m])
  BY DEF Shown
<1>1. CASE Becomes(m, Gathered(turn[m], "rescue"))
  BY <1>0, <1>1, GatheredFields, BecomesShown
<1>2. CASE Becomes(m, Answered(turn[m], turn[m].shown \cup Segment(m), turn[m].gap))
  <2>1. PICK seen : seen = turn[m].shown \cup Segment(m)
    OBVIOUS
  <2>2. seen \subseteq 1 .. turn[m].full /\ (~turn[m].gap => seen = 1 .. turn[m].full)
    BY <1>0, <2>1 DEF Segment, Handler, Shows
  <2>3. turn[m].gap \in BOOLEAN
    BY <1>0 DEF Handler
  <2>4. PICK t : t = Answered(turn[m], seen, turn[m].gap)
    OBVIOUS
  <2>5. Handler(t) /\ Shows(t)
    BY <1>0, <2>2, <2>3, <2>4, AnsweredFields
  <2> QED
    BY <1>2, <2>1, <2>4, <2>5, BecomesShown
<1> QED
  BY <1>1, <1>2 DEF FinalEdit

LEMMA FullSendShown ==
  ASSUME Shown, NEW m \in Msgs, failSafeFullSend(m)
  PROVE  Shown'
<1>1. Handler(turn[m]) /\ Shows(turn[m])
  BY DEF Shown
<1>2. PICK t :
         /\ Becomes(m, t)
         /\ \/ turn[m].full = 0 /\ t = [turn[m] EXCEPT !.pc = "gateway"]
            \/ t = Answered(turn[m], Tokens(m), FALSE)
            \/ t = Answered(turn[m], {}, TRUE)
  BY Zenon DEF failSafeFullSend, Goto
<1>3. Handler(t) /\ Shows(t)
  <2>1. CASE turn[m].full = 0 /\ t = [turn[m] EXCEPT !.pc = "gateway"]
    BY <1>1, <2>1 DEF Handler, Shows, Fields
  <2>2. CASE t = Answered(turn[m], Tokens(m), FALSE)
    BY <1>1, <2>2, AnsweredFields DEF Tokens
  <2>3. CASE t = Answered(turn[m], {}, TRUE)
    BY <1>1, <2>3, AnsweredFields
  <2> QED
    BY <1>2, <2>1, <2>2, <2>3
<1> QED
  BY <1>2, <1>3, BecomesShown

LEMMA GatewayReplyShown ==
  ASSUME Shown, NEW m \in Msgs, GatewayReply(m)
  PROVE  Shown'
<1>1. Handler(turn[m]) /\ Shows(turn[m]) /\ turn[m].pc \in {"gateway", "again"}
  BY DEF Shown, GatewayReply
<1>2. PICK t :
         /\ Becomes(m, t)
         /\ t \in {Whole, [turn[m] EXCEPT !.pc = "again"], [turn[m] EXCEPT !.pc = "error"]}
  BY DEF GatewayReply, Goto
<1>3. Handler(t) /\ Shows(t)
  <2>1. CASE t = Whole
    BY <2>1 DEF Whole, Over, NoTurn, Handler, Shows, Fields
  <2>2. CASE t \in {[turn[m] EXCEPT !.pc = "again"], [turn[m] EXCEPT !.pc = "error"]}
    BY <1>1, <2>2 DEF Handler, Shows, Fields
  <2> QED
    BY <1>2, <2>1, <2>2
<1> QED
  BY <1>2, <1>3, BecomesShown

LEMMA HandleShown ==
  ASSUME Shown, NEW m \in Msgs, Handle(m)
  PROVE  Shown'
<1>1. CASE Hear(m) \/ HearVoice(m) \/ Placeholder(m)
  BY <1>1, GotoShown DEF Hear, HearVoice, Placeholder
<1>2. CASE StartReply(m) \/ StreamEnds(m) \/ StreamFails(m)
  <2>1. CASE Becomes(m, Gathered(turn[m], "rescue"))
    BY <2>1, GatheredFields, BecomesShown DEF Shown
  <2> QED
    BY <1>2, <2>1, GotoShown DEF StartReply, StreamEnds, StreamFails
<1>3. CASE SpokenReply(m) \/ Speak(m)
  BY <1>3, GotoShown, OverShown DEF SpokenReply, Speak
<1>4. CASE Remember(m) \/ ReportError(m)
  BY <1>4, OverShown DEF Remember, ReportError
<1> QED
  BY <1>1, <1>2, <1>3, <1>4, TokenShown, RollShown, FinalEditShown, FullSendShown,
     GatewayReplyShown DEF Handle

LEMMA CrashShown ==
  ASSUME Shown, Crash
  PROVE  Shown'
<1>1. DOMAIN turn' = Msgs
  BY DEF Crash
<1>2. ASSUME NEW m \in Msgs
      PROVE  Handler(turn'[m]) /\ Shows(turn'[m])
  <2>1. turn'[m] = turn[m] \/ turn'[m] = Over("done")
    BY DEF Crash
  <2>2. Handler(Over("done")) /\ Shows(Over("done"))
    BY DEF Over, NoTurn, Handler, Shows, Fields
  <2> QED
    BY <2>1, <2>2 DEF Shown
<1> QED
  BY <1>1, <1>2 DEF Shown, Handler, Shows, Fields

LEMMA InitShown == BridgeInit => Shown
<1>1. Handler(NoTurn) /\ Shows(NoTurn)
  BY DEF NoTurn, Handler, Shows, Fields
<1> QED
  BY <1>1 DEF BridgeInit, Shown

LEMMA NextShown == Shown /\ [BridgeNext]_bridgeVars => Shown'
<1> SUFFICES ASSUME Shown, [BridgeNext]_bridgeVars PROVE Shown'
  OBVIOUS
<1>1. CASE \E m \in Msgs : Handle(m)
  BY <1>1, HandleShown
<1>2. CASE clear \/ InferenceAsks \/ ModelOpens \/ ModelFails \/ Synthesized
           \/ UNCHANGED bridgeVars
  BY <1>2 DEF clear, InferenceAsks, ModelOpens, ModelFails, Synthesized, bridgeVars,
     Shown, Handler, Shows, Fields
<1> QED
  BY <1>1, <1>2, CrashShown DEF BridgeNext

\* However tokens, rollovers, throttled and failing edits follow each other, and
\* whatever other handlers, a /forget or a crash do between: when streamReply
\* returns a reply without a gap, the user has seen all of it.
THEOREM ReplyNeverLostCorrect == BridgeSpec => []ReplyNeverLost
<1>1. Shown => ReplyNeverLost
  BY DEF Shown, Shows, ReplyNeverLost, At, Tokens
<1> QED
  BY <1>1, InitShown, NextShown, PTL DEF BridgeSpec

-----------------------------------------------------------------------------
(* What the calls of the user model leave behind.                           *)

LEMMA RangeAppend ==
  ASSUME NEW S, NEW s \in Seq(S), NEW x
  PROVE  Range(Append(s, x)) = Range(s) \cup {x}
<1>1. /\ DOMAIN Append(s, x) = 1 .. Len(s) + 1
      /\ \A i \in 1 .. Len(s) : Append(s, x)[i] = s[i]
      /\ Append(s, x)[Len(s) + 1] = x
      /\ Len(s) \in Nat /\ DOMAIN s = 1 .. Len(s)
  OBVIOUS
<1>2. Range(Append(s, x)) \subseteq Range(s) \cup {x}
  BY <1>1 DEF Range
<1>3. x \in Range(Append(s, x))
  BY <1>1 DEF Range
<1>4. Range(s) \subseteq Range(Append(s, x))
  BY <1>1 DEF Range
<1> QED
  BY <1>2, <1>3, <1>4

LEMMA NewestKeeps ==
  ASSUME NEW n \in Nat \ {0}, NEW S, NEW s \in Seq(S)
  PROVE  Newest(n, s) \in Seq(S) /\ Range(Newest(n, s)) \subseteq Range(s)
<1>1. CASE Len(s) > n
  <2>1. Len(s) \in Nat /\ DOMAIN s = 1 .. Len(s)
    OBVIOUS
  <2>2. PICK r : r = SubSeq(s, Len(s) - n + 1, Len(s))
    OBVIOUS
  <2>3. /\ r \in Seq(S) /\ DOMAIN r = 1 .. n
        /\ \A i \in 1 .. n : r[i] = s[i + Len(s) - n]
    BY <1>1, <2>1, <2>2
  <2>4. \A i \in 1 .. n : i + Len(s) - n \in DOMAIN s
    BY <1>1, <2>1
  <2>5. Range(r) \subseteq Range(s)
    BY <2>3, <2>4 DEF Range
  <2> QED
    BY <1>1, <2>2, <2>3, <2>5 DEF Newest
<1>2. CASE ~(Len(s) > n)
  BY <1>2 DEF Newest
<1> QED
  BY <1>1, <1>2

LEMMA NothingInEmpty == Range(<<>>) = {}
  BY DEF Range

LEMMA BagDomains ==
  ASSUME NEW B, NEW x
  PROVE  DOMAIN (B (+) One(x)) = DOMAIN B \cup {x} /\ DOMAIN (B (-) One(x)) \subseteq DOMAIN B
  BY DEF (+), (-), One, SetToBag

\* A synthesis is given nothing that is neither in the rows nor in the theory.
LEMMA SynthesizeKeeps ==
  ASSUME BoundsAssumption, NEW S, NEW F, NEW st, Stored(st, S)
  PROVE  Stored(synthesize(st), S) /\ (Clean(st, F) => Clean(synthesize(st), F))
<1>1. PICK drawn : drawn = [from |-> Range(Newest(SynthRows, st.rows)) \cup st.theory.from,
                            upTo |-> st.ids]
  OBVIOUS
<1>2. PICK after : after = synthesize(st)
  OBVIOUS
<1>3. after = [st EXCEPT !.started = @ (+) One(drawn)]
  BY <1>1, <1>2 DEF synthesize
<1>4. /\ DOMAIN after = Columns /\ after.rows = st.rows /\ after.theory = st.theory
      /\ after.leaked = st.leaked /\ after.started = st.started (+) One(drawn)
  BY <1>3 DEF Stored, Columns
<1>5. DOMAIN after.started = DOMAIN st.started \cup {drawn}
  BY <1>4, BagDomains
<1>6. Range(Newest(SynthRows, st.rows)) \subseteq Range(st.rows)
  BY NewestKeeps DEF BoundsAssumption, Stored
<1>7. drawn.from \subseteq Range(st.rows) \cup st.theory.from
  BY <1>1, <1>6
<1>8. Range(st.rows) \subseteq S
  BY DEF Stored, Range
<1>9. Stored(after, S)
  BY <1>4, <1>5, <1>7, <1>8 DEF Stored
<1>10. Clean(st, F) => Clean(after, F)
  BY <1>4, <1>5, <1>7 DEF Clean
<1> QED
  BY <1>2, <1>9, <1>10

LEMMA ObserveKeeps ==
  ASSUME NEW S, NEW F, NEW st, Stored(st, S), NEW m \in S
  PROVE  Stored(observe(st, m), S) /\ (Clean(st, F) /\ m \notin F => Clean(observe(st, m), F))
<1>1. PICK after : after = observe(st, m)
  OBVIOUS
<1>2. /\ DOMAIN after = Columns /\ after.rows = Append(st.rows, m) /\ after.theory = st.theory
      /\ after.leaked = st.leaked /\ after.started = st.started
  BY <1>1 DEF observe, Stored, Columns
<1>3. after.rows \in Seq(S) /\ Range(after.rows) = Range(st.rows) \cup {m}
  BY <1>2, RangeAppend DEF Stored
<1>4. Stored(after, S)
  BY <1>2, <1>3 DEF Stored
<1>5. Clean(st, F) /\ m \notin F => Clean(after, F)
  BY <1>2, <1>3 DEF Clean
<1> QED
  BY <1>1, <1>4, <1>5

\* A whole wipe cleans whatever it finds.
LEMMA ForgetCleans ==
  ASSUME NEW S, NEW F, NEW st, Stored(st, S), NEW fate
  PROVE  Stored(forget(st, fate), S) /\ (fate = "both" => Clean(forget(st, fate), F))
<1>1. PICK after : after = forget(st, fate)
  OBVIOUS
<1>2. /\ DOMAIN after = Columns
      /\ after.rows = IF fate = "none" THEN st.rows ELSE <<>>
      /\ after.theory = IF fate = "both" THEN NoTheory ELSE st.theory
      /\ after.leaked = UNION {drawn.from : drawn \in DOMAIN st.started}
      /\ after.started = st.started
  BY <1>1 DEF forget, Stored, Columns
<1>3. NoTheory.from = {}
  BY DEF NoTheory
<1>4. Stored(after, S)
  BY <1>2, <1>3 DEF Stored
<1>5. fate = "both" => Clean(after, F)
  BY <1>2, <1>3, NothingInEmpty DEF Clean
<1> QED
  BY <1>1, <1>4, <1>5

LEMMA CallNames ==
  /\ Look[1] = "look" /\ Look # Forget("both")
  /\ \A m : Observe(m)[1] = "observe" /\ Observe(m)[2] = m /\ Observe(m) # Look
  /\ \A m, fate : Observe(m) # Forget(fate)
  /\ \A fate : Forget(fate)[1] = "forget" /\ Forget(fate)[2] = fate /\ Forget(fate) # Look
  BY DEF Look, Observe, Forget

LEMMA RunCleans ==
  ASSUME BoundsAssumption, NEW S, NEW F, NEW st, Stored(st, S), NEW call \in Calls(S)
  PROVE  /\ Stored(Run(st, call), S)
         /\ call = Forget("both") => Clean(Run(st, call), F)
         /\ Clean(st, F) /\ New(call, F) => Clean(Run(st, call), F)
<1>1. CASE call[1] = "forget"
  <2>1. PICK fate \in Fates : call = Forget(fate)
    BY <1>1, CallNames DEF Calls
  <2>2. Run(st, call) = forget(st, fate)
    BY <1>1, <2>1, CallNames DEF Run
  <2>3. ~New(call, F)
    BY <2>1, CallNames DEF New
  <2>4. call = Forget("both") => fate = "both"
    BY <2>1 DEF Forget
  <2> QED
    BY <2>2, <2>3, <2>4, ForgetCleans
<1>2. CASE call[1] # "forget"
  <2>1. PICK told : told = IF call[1] = "observe" THEN observe(st, call[2]) ELSE st
    OBVIOUS
  <2>2. Run(st, call) = told \/ Run(st, call) = synthesize(told)
    BY <1>2, <2>1 DEF Run
  <2>3. call = Look \/ \E m \in S : call = Observe(m)
    BY <1>2, CallNames DEF Calls
  <2>4. Stored(told, S) /\ (Clean(st, F) /\ New(call, F) => Clean(told, F))
    <3>1. CASE call = Look
      BY <2>1, <3>1, CallNames
    <3>2. CASE \E m \in S : call = Observe(m)
      <4>1. PICK m \in S : call = Observe(m)
        BY <3>2
      <4>2. told = observe(st, m)
        BY <2>1, <4>1, CallNames
      <4>3. New(call, F) => m \notin F
        BY <4>1, CallNames DEF New
      <4> QED
        BY <4>2, <4>3, ObserveKeeps
    <3> QED
      BY <2>3, <3>1, <3>2
  <2>5. call # Forget("both")
    BY <1>2, CallNames
  <2> QED
    BY <2>2, <2>4, <2>5, SynthesizeKeeps
<1> QED
  BY <1>1, <1>2

LEMMA BecomesStored ==
  ASSUME NEW S, NEW F, NEW after, Stored(after, S), UserModel(after)
  PROVE  Stored(Store', S) /\ (Clean(after, F) => Clean(Store', F))
<1>1. /\ Store'.rows = after.rows /\ Store'.theory = after.theory
      /\ Store'.started = after.started /\ Store'.leaked = after.leaked
      /\ DOMAIN Store' = Columns
  BY DEF UserModel, Store, Columns
<1>2. Stored(Store', S)
  BY <1>1 DEF Stored
<1>3. Clean(after, F) => Clean(Store', F)
  BY <1>1 DEF Clean
<1> QED
  BY <1>2, <1>3

\* After a call the user model is clean, if the call cleans it or was clean.
LEMMA CallCleans ==
  ASSUME BoundsAssumption, NEW S, NEW F, NEW call \in Calls(S), Stored(Store, S),
         UserModel(Run(Store, call))
  PROVE  /\ Stored(Store', S)
         /\ call = Forget("both") => Clean(Store', F)
         /\ Clean(Store, F) /\ New(call, F) => Clean(Store', F)
<1>1. PICK store : store = Store
  OBVIOUS
<1>2. PICK after : after = Run(store, call)
  OBVIOUS
<1>3. Stored(after, S) /\ UserModel(after)
  BY <1>1, <1>2, RunCleans
<1>4. Stored(Store', S) /\ (Clean(after, F) => Clean(Store', F))
  BY <1>3, BecomesStored
<1> QED
  BY <1>1, <1>2, <1>4, RunCleans

\* After the calls that waited the user model is clean, if they clean it.
LEMMA CallsClean ==
  ASSUME BoundsAssumption, NEW S, NEW F, NEW calls \in Seq(Calls(S)), Stored(Store, S),
         UserModel(FoldLeft(Run, Store, calls))
  PROVE  Stored(Store', S) /\ (Cleans(Store, calls, F) => Clean(Store', F))
<1>1. PICK store : store = Store
  OBVIOUS
<1>2. PICK f : Steps(f, store, calls)
  BY FoldSteps
<1>3. Len(calls) \in Nat /\ DOMAIN calls = 1 .. Len(calls)
  OBVIOUS
<1>4. f[0] = store /\ \A k \in 1 .. Len(calls) : f[k] = Run(f[k - 1], calls[k])
  BY <1>2 DEF Steps
<1>5. \A k \in 0 .. Len(calls) : Stored(f[k], S)
  <2> DEFINE Bad == {k \in 0 .. Len(calls) : ~Stored(f[k], S)}
  <2> SUFFICES ASSUME Bad # {} PROVE FALSE
    OBVIOUS
  <2>1. PICK k \in Bad : \A i \in Bad : k <= i
    <3>1. Bad \subseteq Nat
      BY <1>3
    <3> HIDE DEF Bad
    <3> QED
      BY <3>1, LeastNumber
  <2>2. k \in 1 .. Len(calls) /\ k - 1 \in 0 .. Len(calls) /\ k - 1 \notin Bad
    BY <1>1, <1>3, <1>4, <2>1
  <2>3. Stored(f[k - 1], S) /\ calls[k] \in Calls(S)
    BY <1>3, <2>2
  <2>4. f[k] = Run(f[k - 1], calls[k])
    BY <1>4, <2>2
  <2>5. Stored(f[k], S)
    <3> HIDE DEF Bad
    <3> QED
      BY <2>3, <2>4, RunCleans
  <2> QED
    BY <2>5
<1>6. ASSUME NEW i \in 0 .. Len(calls), Clean(f[i], F), NewAfter(i, calls, F)
      PROVE  Clean(f[Len(calls)], F)
  <2> DEFINE Bad == {k \in i .. Len(calls) : ~Clean(f[k], F)}
  <2> SUFFICES ASSUME Bad # {} PROVE FALSE
    BY <1>3
  <2>1. PICK k \in Bad : \A j \in Bad : k <= j
    <3>1. Bad \subseteq Nat
      BY <1>3
    <3> HIDE DEF Bad
    <3> QED
      BY <3>1, LeastNumber
  <2>2. k \in i + 1 .. Len(calls) /\ k - 1 \in i .. Len(calls) /\ k - 1 \notin Bad
    BY <1>3, <1>6, <2>1
  <2>3. k \in 1 .. Len(calls) /\ k - 1 \in 0 .. Len(calls)
    BY <1>3, <2>2
  <2>4. Clean(f[k - 1], F) /\ New(calls[k], F)
    BY <1>6, <2>2 DEF NewAfter
  <2>5. Stored(f[k - 1], S) /\ calls[k] \in Calls(S)
    BY <1>3, <1>5, <2>3
  <2>6. Clean(f[k], F)
    BY <1>4, <2>3, <2>4, <2>5, RunCleans
  <2> QED
    BY <2>6
<1>7. Cleans(Store, calls, F) => Clean(f[Len(calls)], F)
  <2>1. CASE Clean(Store, F) /\ NewAfter(0, calls, F)
    BY <1>1, <1>3, <1>4, <1>6, <2>1
  <2>2. CASE \E i \in 1 .. Len(calls) : calls[i] = Forget("both") /\ NewAfter(i, calls, F)
    <3>1. PICK i \in 1 .. Len(calls) : calls[i] = Forget("both") /\ NewAfter(i, calls, F)
      BY <2>2
    <3>2. Stored(f[i - 1], S) /\ calls[i] \in Calls(S) /\ i \in 0 .. Len(calls)
      BY <1>3, <1>5
    <3>3. Clean(f[i], F)
      BY <1>4, <3>1, <3>2, RunCleans
    <3> QED
      BY <1>6, <3>1, <3>2, <3>3
  <2> QED
    BY <2>1, <2>2 DEF Cleans
<1>8. PICK after : after = f[Len(calls)]
  OBVIOUS
<1>9. Stored(after, S) /\ UserModel(after)
  BY <1>1, <1>2, <1>3, <1>5, <1>8 DEF Runs, Steps
<1>10. Stored(Store', S) /\ (Clean(after, F) => Clean(Store', F))
  BY <1>9, BecomesStored
<1> QED
  BY <1>7, <1>8, <1>10

-----------------------------------------------------------------------------
(* What was said grows, whatever a handler, a /forget or a crash does.      *)

LEMMA SeqGrows ==
  ASSUME NEW S, NEW T, S \subseteq T, NEW s \in Seq(S)
  PROVE  s \in Seq(T)
  OBVIOUS

Unheard == {"idle", "text", "voice"}
Ended == {"speak", "error", "done"}
Advances(t, u) ==
    /\ t.pc \notin Unheard => u.pc \notin Unheard
    /\ t.pc \in Ended => u.pc \in Ended

LEMMA SaidMonotone ==
  ASSUME DOMAIN turn' = Msgs, \A m \in Msgs : Advances(turn[m], turn'[m])
  PROVE  Heard \subseteq Heard' /\ Replied \subseteq Replied' /\ Said \subseteq Said'
<1>1. Heard \subseteq Heard' /\ Replied \subseteq Replied'
  BY DEF Advances, Unheard, Ended, Heard, Replied
<1> QED
  BY <1>1 DEF Said

LEMMA BecomesAdvances ==
  ASSUME Shown, NEW m \in Msgs, NEW t, Becomes(m, t), Advances(turn[m], t)
  PROVE  /\ DOMAIN turn' = Msgs /\ turn'[m] = t
         /\ \A i \in Msgs : Advances(turn[i], turn'[i])
<1>1. DOMAIN turn' = Msgs /\ turn'[m] = t /\ \A i \in Msgs : i # m => turn'[i] = turn[i]
  BY DEF Shown, Becomes
<1>2. \A u : Advances(u, u)
  BY DEF Advances
<1> QED
  BY <1>1, <1>2

LEMMA GotoAdvances ==
  ASSUME Shown, NEW m \in Msgs, NEW pc, Goto(m, pc),
         turn[m].pc \notin Unheard => pc \notin Unheard,
         turn[m].pc \in Ended => pc \in Ended
  PROVE  /\ DOMAIN turn' = Msgs /\ turn'[m].pc = pc
         /\ \A i \in Msgs : Advances(turn[i], turn'[i])
<1>1. PICK t : t = [turn[m] EXCEPT !.pc = pc]
  OBVIOUS
<1>2. t.pc = pc
  BY <1>1 DEF Shown, Handler, Fields
<1>3. Advances(turn[m], t)
  BY <1>2 DEF Advances
<1> QED
  BY <1>1, <1>2, <1>3, BecomesAdvances DEF Goto

\* A step within a handler's reply, which is neither before nor after it.
LEMMA ReplyAdvances ==
  ASSUME Shown, NEW m \in Msgs, NEW t, Becomes(m, t), turn[m].pc \notin Ended, t.pc \notin Unheard
  PROVE  DOMAIN turn' = Msgs /\ \A i \in Msgs : Advances(turn[i], turn'[i])
<1>1. Advances(turn[m], t)
  BY DEF Advances
<1> QED
  BY <1>1, BecomesAdvances

LEMMA RepliesAdvance ==
  ASSUME Shown, NEW m \in Msgs,
         Token(m) \/ Roll(m) \/ FinalEdit(m) \/ failSafeFullSend(m) \/ GatewayReply(m)
  PROVE  DOMAIN turn' = Msgs /\ \A i \in Msgs : Advances(turn[i], turn'[i])
<1>0. DOMAIN turn[m] = Fields /\ DOMAIN Arrived(m) = Fields /\ Arrived(m).pc = turn[m].pc
  BY DEF Shown, Handler, Arrived, Fields
<1>1. CASE Token(m)
  <2>1. PICK t : t = Arrived(m)
    OBVIOUS
  <2>2. PICK u : Becomes(m, u) /\ u \in {[t EXCEPT !.pc = "roll"], t, Edited(t), EditFailed(t)}
    BY <1>1, <2>1, Zenon DEF Token
  <2>3. DOMAIN t = Fields /\ t.pc \in {"stream", "blind"} /\ turn[m].pc \in {"stream", "blind"}
    BY <1>0, <1>1, <2>1 DEF Token
  <2>4. u.pc \notin Unheard
    BY <2>2, <2>3 DEF Edited, EditFailed, Gathered, Over, NoTurn, Fields, Unheard
  <2> QED
    BY <2>2, <2>3, <2>4, ReplyAdvances DEF Ended
<1>2. CASE Roll(m)
  <2>1. PICK t \in Finalised(m) :
           \/ Becomes(m, [t EXCEPT !.pc = "stream", !.start = t.full])
           \/ Becomes(m, Gathered(t, "rescue"))
    BY <1>2 DEF Roll
  <2>2. DOMAIN t = Fields
    BY <1>0, <2>1 DEF Finalised
  <2>3. PICK u : /\ Becomes(m, u)
                 /\ \/ u = [t EXCEPT !.pc = "stream", !.start = t.full]
                    \/ u = Gathered(t, "rescue")
    BY <2>1
  <2>4. u.pc \notin Unheard /\ turn[m].pc \notin Ended
    BY <1>2, <2>2, <2>3 DEF Roll, At, Gathered, Over, NoTurn, Fields, Unheard, Ended
  <2> QED
    BY <2>3, <2>4, ReplyAdvances
<1>3. CASE FinalEdit(m)
  <2>1. PICK t : /\ Becomes(m, t)
                 /\ \/ t = Answered(turn[m], turn[m].shown \cup Segment(m), turn[m].gap)
                    \/ t = Gathered(turn[m], "rescue")
    BY <1>3 DEF FinalEdit
  <2>2. t.pc \in {"answered", "rescue"}
    BY <2>1 DEF Answered, Gathered, Over, NoTurn
  <2>3. t.pc \notin Unheard /\ turn[m].pc \notin Ended
    BY <1>3, <2>2 DEF FinalEdit, At, Unheard, Ended
  <2> QED
    BY <2>1, <2>3, ReplyAdvances
<1>4. CASE failSafeFullSend(m)
  <2>1. PICK t :
           /\ Becomes(m, t)
           /\ \/ t = [turn[m] EXCEPT !.pc = "gateway"]
              \/ t = Answered(turn[m], Tokens(m), FALSE)
              \/ t = Answered(turn[m], {}, TRUE)
    BY <1>4, Zenon DEF failSafeFullSend, Goto
  <2>2. t.pc \in {"answered", "gateway"}
    BY <1>0, <2>1 DEF Answered, Over, NoTurn, Fields
  <2>3. t.pc \notin Unheard /\ turn[m].pc \notin Ended
    BY <1>4, <2>2 DEF failSafeFullSend, At, Unheard, Ended
  <2> QED
    BY <2>1, <2>3, ReplyAdvances
<1>5. CASE GatewayReply(m)
  <2>1. PICK t :
           /\ Becomes(m, t)
           /\ t \in {Whole, [turn[m] EXCEPT !.pc = "again"], [turn[m] EXCEPT !.pc = "error"]}
    BY <1>5 DEF GatewayReply, Goto
  <2>2. t.pc \notin Unheard /\ turn[m].pc \notin Ended
    BY <1>0, <1>5, <2>1 DEF GatewayReply, Whole, Over, NoTurn, Fields, Unheard, Ended
  <2> QED
    BY <2>1, <2>2, ReplyAdvances
<1> QED
  BY <1>1, <1>2, <1>3, <1>4, <1>5

LEMMA HandleAdvances ==
  ASSUME Shown, NEW m \in Msgs, Handle(m)
  PROVE  DOMAIN turn' = Msgs /\ \A i \in Msgs : Advances(turn[i], turn'[i])
<1>1. CASE Hear(m) \/ HearVoice(m)
  BY <1>1, GotoAdvances DEF Hear, HearVoice, At, Unheard, Ended
<1>2. CASE StartReply(m) \/ Placeholder(m)
  BY <1>2, GotoAdvances DEF StartReply, Placeholder, At, Unheard, Ended
<1>3. CASE StreamEnds(m) \/ StreamFails(m)
  <2>1. CASE Becomes(m, Gathered(turn[m], "rescue"))
    <3>1. Gathered(turn[m], "rescue").pc = "rescue"
      BY DEF Gathered, Over, NoTurn
    <3>2. turn[m].pc \notin Ended
      BY <1>3 DEF StreamEnds, StreamFails, Ended
    <3> QED
      BY <2>1, <3>1, <3>2, ReplyAdvances DEF Unheard
  <2> QED
    BY <1>3, <2>1, GotoAdvances DEF StreamEnds, StreamFails, Unheard, Ended
<1>4. CASE SpokenReply(m)
  BY <1>4, GotoAdvances DEF SpokenReply, At, Unheard, Ended
<1>5. CASE Remember(m) \/ Speak(m) \/ ReportError(m)
  <2>1. Goto(m, "error") \/ Becomes(m, Over("done"))
    BY <1>5 DEF Remember, Speak, ReportError
  <2>2. Over("done").pc = "done"
    BY DEF Over, NoTurn
  <2>3. Advances(turn[m], Over("done"))
    BY <2>2 DEF Advances, Unheard, Ended
  <2> QED
    BY <2>1, <2>3, BecomesAdvances, GotoAdvances DEF Unheard, Ended
<1> QED
  BY <1>1, <1>2, <1>3, <1>4, <1>5, RepliesAdvance DEF Handle

LEMMA SaidGrows ==
  ASSUME Shown, [BridgeNext]_bridgeVars
  PROVE  Heard \subseteq Heard' /\ Replied \subseteq Replied' /\ Said \subseteq Said'
<1>1. CASE \E m \in Msgs : Handle(m)
  BY <1>1, HandleAdvances, SaidMonotone
<1>2. CASE Crash
  <2>1. Over("done").pc = "done"
    BY DEF Over, NoTurn
  <2>2. \A m \in Msgs : turn'[m] = turn[m] \/ turn'[m] = Over("done")
    BY <1>2 DEF Crash
  <2>3. DOMAIN turn' = Msgs
    BY <1>2 DEF Crash
  <2>4. \A m \in Msgs : Advances(turn[m], turn'[m])
    BY <2>1, <2>2 DEF Advances, Unheard, Ended
  <2> QED
    BY <2>3, <2>4, SaidMonotone
<1>3. CASE clear \/ InferenceAsks \/ ModelOpens \/ ModelFails \/ Synthesized
           \/ UNCHANGED bridgeVars
  <2>1. turn' = turn
    BY <1>3 DEF clear, InferenceAsks, ModelOpens, ModelFails, Synthesized, bridgeVars
  <2> QED
    BY <2>1 DEF Heard, Replied, Said
<1> QED
  BY <1>1, <1>2, <1>3 DEF BridgeNext

-----------------------------------------------------------------------------
(* The history and the user model forget.                                   *)

LEMMA RingKeeps ==
  ASSUME BoundsAssumption, NEW S, NEW s \in Seq(S)
  PROVE  Ring(s) \in Seq(S) /\ Range(Ring(s)) \subseteq Range(s)
  BY NewestKeeps DEF BoundsAssumption, Ring

\* A turn that was never said before joins the history.
LEMMA AppendHistory ==
  ASSUME BoundsAssumption, History, Said \subseteq Said', NEW turnSaid \in Said',
         turnSaid \notin Said, cache' = Ring(Append(load, turnSaid)), file' \in {cache', file},
         UNCHANGED <<forgotten, spared>>
  PROVE  History'
<1>1. PICK S : S = Said'
  OBVIOUS
<1>2. cache \in Seq(S) /\ file \in Seq(S) /\ load \in {cache, file} /\ turnSaid \in S
  BY <1>1, SeqGrows DEF History, load
<1>3. PICK s \in Seq(S) : s = load
  BY <1>2
<1>4. PICK longer : longer = Append(s, turnSaid)
  OBVIOUS
<1>5. longer \in Seq(S)
  <2>1. turnSaid \in S /\ s \in Seq(S)
    BY <1>2
  <2> QED
    BY <1>4, <2>1
<1>6. Range(longer) = Range(s) \cup {turnSaid}
  BY <1>3, <1>4, RangeAppend
<1>7. cache' = Ring(longer)
  BY <1>3, <1>4
<1>8. cache' \in Seq(S) /\ Range(cache') \subseteq Range(s) \cup {turnSaid}
  <2>1. Ring(longer) \in Seq(S) /\ Range(Ring(longer)) \subseteq Range(longer)
    BY <1>5, RingKeeps
  <2> QED
    BY <1>6, <1>7, <2>1
<1>9. file' \in Seq(S) /\ forgotten' \subseteq S
  BY <1>1, <1>2, <1>8 DEF History
<1>10. Range(s) \subseteq Range(cache) \cup Range(file)
  BY <1>2, <1>3
<1>11. Range(cache') \cup Range(file') \subseteq Range(cache) \cup Range(file) \cup {turnSaid}
  BY <1>8, <1>10
<1>12. turnSaid \notin forgotten
  BY DEF History
<1>13. "file" \in spared' \/ (Range(cache') \cup Range(file')) \cap forgotten' = {}
  BY <1>11, <1>12 DEF History
<1> QED
  BY <1>1, <1>8, <1>9, <1>13 DEF History

LEMMA SameHistory ==
  ASSUME History, Said \subseteq Said', UNCHANGED <<memoryVars, ghostVars>>
  PROVE  History'
<1>1. PICK S : S = Said'
  OBVIOUS
<1>2. cache \in Seq(S) /\ file \in Seq(S)
  BY <1>1, SeqGrows DEF History
<1> QED
  BY <1>1, <1>2 DEF History, memoryVars, ghostVars

LEMMA CrashHistory ==
  ASSUME History, Said \subseteq Said', Crash
  PROVE  History'
<1>1. PICK S : S = Said'
  OBVIOUS
<1>2. /\ cache' = <<>> /\ cache' \in Seq(S) /\ Range(cache') = {}
      /\ file' = file /\ file' \in Seq(S)
  BY <1>1, SeqGrows, NothingInEmpty DEF History, Crash
<1>3. forgotten' \subseteq S /\ forgotten' = forgotten /\ ("file" \in spared => "file" \in spared')
  BY <1>1 DEF History, Crash
<1> QED
  BY <1>1, <1>2, <1>3 DEF History

\* The messages the user model was told of were heard.
LEMMA ToldHeard ==
  ASSUME Model, NEW call \in Range(loading), call[1] = "observe"
  PROVE  call[2] \in Heard
<1>1. call \in Calls(Heard)
  BY DEF Model, Range
<1> QED
  BY <1>1, CallNames DEF Calls

LEMMA ClearHistory ==
  ASSUME History, Model, clear
  PROVE  History'
<1>1. turn' = turn
  BY DEF clear
<1>2. PICK S : S = Said
  OBVIOUS
<1>3. Said' = S
  BY <1>1, <1>2 DEF Said, Heard, Replied
<1>4. cache' = <<>> /\ file' \in {<<>>, file} /\ cache' \in Seq(S) /\ file' \in Seq(S)
  <2>1. cache' = <<>> /\ file' \in {<<>>, file}
    BY DEF clear, Cleared
  <2>2. <<>> \in Seq(S) /\ file \in Seq(S)
    BY <1>2 DEF History
  <2> QED
    BY <2>1, <2>2
<1>5. PICK told : told = {call[2] : call \in {waiting \in Range(loading) : waiting[1] = "observe"}}
  OBVIOUS
<1>6. told \subseteq Heard
  BY <1>5, ToldHeard
<1>7. Range(observed) \cup theory.from \cup told \subseteq Heard
  BY <1>6 DEF Model, Stored, Store, Range
<1>8. forgotten' = forgotten \cup Range(load) \cup Range(file)
                     \cup {<<"user", m>> : m \in Range(observed) \cup theory.from \cup told}
  BY <1>5 DEF clear
<1>9. Range(load) \cup Range(file) \subseteq Said /\ forgotten \subseteq Said
  BY DEF History, load, Range
<1>10. {<<"user", m>> : m \in Range(observed) \cup theory.from \cup told} \subseteq Said
  BY <1>7 DEF Said
<1>11. forgotten' \subseteq S
  BY <1>2, <1>8, <1>9, <1>10
<1>12. file' # <<>> => "file" \in spared'
  BY DEF clear
<1>13. file' = <<>> => (Range(cache') \cup Range(file')) \cap forgotten' = {}
  BY <1>4, NothingInEmpty
<1> QED
  BY <1>3, <1>4, <1>11, <1>12, <1>13 DEF History

LEMMA ModelNext ==
  ASSUME NEW S, S = Heard', db' # "ours" => loading' = <<>>,
         loading' \in Seq(Calls(S)), Stored(Store', S),
         spared' \subseteq {"file"} => Cleans(Store', loading', Wiped')
  PROVE  Model'
  BY DEF Model, Calls, Observe, Forget, Look, Fates, Stored, Columns, Cleans, Clean, NewAfter, New

LEMMA ModelGrows ==
  ASSUME Model, NEW S, Heard \subseteq S
  PROVE  loading \in Seq(Calls(S)) /\ Stored(Store, S)
<1>1. Calls(Heard) \subseteq Calls(S)
  BY DEF Calls
<1>2. loading \in Seq(Calls(S)) /\ Store.rows \in Seq(S)
  BY <1>1, SeqGrows DEF Model, Stored
<1> QED
  BY <1>2 DEF Model, Stored

\* With nothing waiting the queue cleans when the user model is clean ...
LEMMA CleansQueue == \A store, F : Cleans(store, <<>>, F) <=> Clean(store, F)
  BY DEF Cleans, NewAfter

\* ... and a wipe or a new call at its end keeps it cleaning.
LEMMA CleansAppend ==
  ASSUME NEW S, NEW calls \in Seq(S), NEW call \in S, NEW store, NEW F,
         (Cleans(store, calls, F) /\ New(call, F)) \/ call = Forget("both")
  PROVE  Cleans(store, Append(calls, call), F)
<1>1. PICK r : r = Append(calls, call)
  OBVIOUS
<1>2. /\ Len(r) = Len(calls) + 1 /\ Len(calls) \in Nat
      /\ \A i \in 1 .. Len(calls) : r[i] = calls[i]
      /\ r[Len(calls) + 1] = call
  BY <1>1
<1>3. ASSUME NEW i \in 0 .. Len(calls), NewAfter(i, calls, F), New(call, F)
      PROVE  NewAfter(i, r, F)
  <2>1. ASSUME NEW j \in i + 1 .. Len(r)
        PROVE  New(r[j], F)
    <3>1. j = Len(calls) + 1 \/ (j \in i + 1 .. Len(calls) /\ j \in 1 .. Len(calls))
      BY <1>2
    <3> QED
      BY <1>2, <1>3, <3>1 DEF NewAfter
  <2> QED
    BY <2>1 DEF NewAfter
<1>4. NewAfter(Len(calls) + 1, r, F)
  BY <1>2 DEF NewAfter
<1>5. CASE call = Forget("both")
  <2>1. Len(calls) + 1 \in 1 .. Len(r)
    BY <1>2
  <2> QED
    BY <1>1, <1>2, <1>4, <1>5, <2>1 DEF Cleans
<1>6. CASE New(call, F) /\ Clean(store, F) /\ NewAfter(0, calls, F)
  <2>1. NewAfter(0, r, F)
    BY <1>2, <1>3, <1>6
  <2> QED
    BY <1>1, <1>6, <2>1 DEF Cleans
<1>7. CASE New(call, F) /\ \E i \in 1 .. Len(calls) : calls[i] = Forget("both")
                                                    /\ NewAfter(i, calls, F)
  <2>1. PICK i \in 1 .. Len(calls) : calls[i] = Forget("both") /\ NewAfter(i, calls, F)
    BY <1>7
  <2>2. i \in 1 .. Len(r) /\ i \in 0 .. Len(calls) /\ r[i] = Forget("both")
    BY <1>2, <2>1
  <2>3. NewAfter(i, r, F)
    BY <1>3, <1>7, <2>1, <2>2
  <2> QED
    BY <1>1, <2>2, <2>3 DEF Cleans
<1> QED
  BY <1>5, <1>6, <1>7 DEF Cleans

LEMMA SameModel ==
  ASSUME Model, Heard \subseteq Heard', UNCHANGED <<modelVars, ghostVars>>
  PROVE  Model'
<1>1. Store' = Store /\ Wiped' = Wiped /\ loading' = loading /\ db' = db /\ spared' = spared
  BY DEF modelVars, storeVars, ghostVars, Store, Wiped
<1>2. loading' \in Seq(Calls(Heard')) /\ Stored(Store', Heard')
  BY <1>1, ModelGrows
<1> QED
  BY <1>1, <1>2, ModelNext DEF Model

\* A turn that is new to the user model is observed, waits to be, or is dropped.
LEMMA CallModel ==
  ASSUME BoundsAssumption, Model, Heard \subseteq Heard', NEW call \in Calls(Heard'),
         New(call, Wiped), Call(call), UNCHANGED ghostVars
  PROVE  Model'
<1>1. PICK S : S = Heard'
  OBVIOUS
<1>2. call \in Calls(S) /\ loading \in Seq(Calls(S)) /\ Stored(Store, S)
  BY <1>1, ModelGrows
<1>3. Wiped' = Wiped /\ spared' = spared
  BY DEF ghostVars, Wiped
<1>4. spared \subseteq {"file"} => Cleans(Store, loading, Wiped)
  BY DEF Model
<1>5. CASE db = "open" /\ UserModel(Run(Store, call)) /\ UNCHANGED <<db, loading>>
  <2>1. loading = <<>> /\ loading' = <<>> /\ loading' \in Seq(Calls(S))
    BY <1>5 DEF Model
  <2>2. Stored(Store', S) /\ (Clean(Store, Wiped) => Clean(Store', Wiped))
    BY <1>2, <1>5, CallCleans
  <2>3. spared' \subseteq {"file"} => Cleans(Store', loading', Wiped')
    BY <1>3, <1>4, <2>1, <2>2, CleansQueue
  <2> QED
    BY <1>1, <1>5, <2>1, <2>2, <2>3, ModelNext
<1>6. CASE db' = "ours" /\ loading' = Append(loading, call) /\ UNCHANGED storeVars
  <2>1. Store' = Store
    BY <1>6 DEF storeVars, Store
  <2>2. loading' \in Seq(Calls(S))
    BY <1>2, <1>6
  <2>3. spared' \subseteq {"file"} => Cleans(Store', loading', Wiped')
    BY <1>2, <1>3, <1>4, <1>6, <2>1, CleansAppend
  <2> QED
    BY <1>1, <1>2, <1>6, <2>1, <2>2, <2>3, ModelNext
<1>7. CASE UNCHANGED modelVars
  BY <1>7, SameModel
<1> QED
  BY <1>5, <1>6, <1>7 DEF Call

\* The user model forgets now, or has a whole wipe at the end of its queue, or
\* what kept it from that is on record.
LEMMA ClearModel ==
  ASSUME BoundsAssumption, Model, clear
  PROVE  Model'
<1>1. PICK S : S = Heard
  OBVIOUS
<1>2. Heard' = S
  BY <1>1 DEF clear, Heard
<1>3. loading \in Seq(Calls(S)) /\ Stored(Store, S)
  BY <1>1 DEF Model
<1>4. PICK fate \in Fates : Cleared(fate) /\ Spares(fate) \subseteq spared'
  BY DEF clear
<1>5. PICK call : call = Forget(fate)
  OBVIOUS
<1>6. call \in Calls(S) /\ Call(call)
  BY <1>4, <1>5 DEF Calls, Cleared
<1>7. /\ spared' \subseteq {"file"} /\ db \notin {"theirs", "none"} => call = Forget("both")
      /\ db \in {"theirs", "none"} => ~(spared' \subseteq {"file"})
  BY <1>4, <1>5 DEF Spares
<1>8. CASE db = "open" /\ UserModel(Run(Store, call)) /\ UNCHANGED <<db, loading>>
  <2>1. loading = <<>> /\ loading' = <<>> /\ loading' \in Seq(Calls(S))
    BY <1>8 DEF Model
  <2>2. PICK F : F = Wiped'
    OBVIOUS
  <2>3. Stored(Store', S) /\ (call = Forget("both") => Clean(Store', F))
    BY <1>3, <1>6, <1>8, CallCleans
  <2>4. spared' \subseteq {"file"} => Cleans(Store', loading', F)
    BY <1>7, <1>8, <2>1, <2>3, CleansQueue
  <2> QED
    BY <1>2, <1>8, <2>1, <2>2, <2>3, <2>4, ModelNext
<1>9. CASE /\ db \in {"closed", "ours"} /\ db' = "ours"
           /\ loading' = Append(loading, call) /\ UNCHANGED storeVars
  <2>1. Store' = Store
    BY <1>9 DEF storeVars, Store
  <2>2. loading' \in Seq(Calls(S))
    BY <1>3, <1>6, <1>9
  <2>3. PICK F : F = Wiped'
    OBVIOUS
  <2>4. spared' \subseteq {"file"} => Cleans(Store', loading', F)
    BY <1>3, <1>6, <1>7, <1>9, <2>1, CleansAppend
  <2> QED
    BY <1>2, <1>3, <1>9, <2>1, <2>2, <2>3, <2>4, ModelNext
<1>10. CASE db \in {"theirs", "none"} /\ UNCHANGED modelVars
  <2>1. Store' = Store /\ loading' = loading /\ db' = db
    BY <1>10 DEF modelVars, storeVars, Store
  <2>2. ~(spared' \subseteq {"file"})
    BY <1>7, <1>10
  <2> QED
    BY <1>2, <1>3, <2>1, <2>2, ModelNext DEF Model
<1> QED
  BY <1>6, <1>8, <1>9, <1>10 DEF Call

LEMMA OpensModel ==
  ASSUME BoundsAssumption, Model, ModelOpens
  PROVE  Model'
<1>1. PICK S : S = Heard
  OBVIOUS
<1>2. /\ Heard' = S /\ Wiped' = Wiped /\ spared' = spared
      /\ db' = "open" /\ loading' = <<>>
      /\ UserModel(FoldLeft(Run, Store, loading))
  BY <1>1 DEF ModelOpens, ghostVars, Heard, Wiped
<1>3. loading \in Seq(Calls(S)) /\ Stored(Store, S)
  BY <1>1 DEF Model
<1>4. Stored(Store', S) /\ (Cleans(Store, loading, Wiped) => Clean(Store', Wiped))
  BY <1>2, <1>3, CallsClean
<1>5. spared' \subseteq {"file"} => Cleans(Store', loading', Wiped')
  BY <1>2, <1>4, CleansQueue DEF Model
<1>6. loading' \in Seq(Calls(S))
  BY <1>2
<1> QED
  BY <1>2, <1>4, <1>5, <1>6, ModelNext

\* What waited is lost: a wipe among it is on record.
LEMMA LostQueue ==
  ASSUME Model, Heard \subseteq Heard', UNCHANGED <<observed, theory, leaked, forgotten>>,
         DOMAIN synths' \subseteq DOMAIN synths, loading' = <<>>,
         spared \subseteq spared', WipeQueued => ~(spared' \subseteq {"file"})
  PROVE  Model'
<1>1. PICK S : S = Heard'
  OBVIOUS
<1>2. Stored(Store, S)
  BY <1>1, ModelGrows
<1>3. /\ Store'.rows = Store.rows /\ Store'.theory = Store.theory
      /\ Store'.leaked = Store.leaked /\ DOMAIN Store' = Columns
      /\ DOMAIN Store'.started \subseteq DOMAIN Store.started
  BY DEF Store, Columns
<1>4. Stored(Store', S) /\ (Clean(Store, Wiped) => Clean(Store', Wiped))
  BY <1>2, <1>3 DEF Stored, Clean
<1>5. ASSUME NEW i \in 1 .. Len(loading), loading[i] = Forget("both")
      PROVE  WipeQueued
  <2>1. loading[i] \in Range(loading)
    BY <1>5 DEF Model, Range
  <2> QED
    BY <1>5, <2>1, CallNames DEF WipeQueued
<1>6. spared' \subseteq {"file"} => Clean(Store, Wiped)
  BY <1>5 DEF Model, Cleans
<1>7. Wiped' = Wiped
  BY DEF Wiped
<1>8. spared' \subseteq {"file"} => Cleans(Store', loading', Wiped')
  BY <1>4, <1>6, <1>7, CleansQueue
<1>9. loading' \in Seq(Calls(S))
  OBVIOUS
<1> QED
  BY <1>1, <1>4, <1>8, <1>9, ModelNext

LEMMA SynthesizedModel ==
  ASSUME Model, Synthesized
  PROVE  Model'
<1>1. /\ UNCHANGED <<turn, db, loading, observed, leaked, forgotten, spared>>
      /\ \E drawn \in DOMAIN synths : theory' \in {drawn, theory}
                                     /\ synths' = synths (-) One(drawn)
  BY DEF Synthesized, ghostVars
<1>2. PICK drawn \in DOMAIN synths : theory' \in {drawn, theory}
                                     /\ DOMAIN synths' \subseteq DOMAIN synths
  BY <1>1, BagDomains
<1>3. PICK S : S = Heard
  OBVIOUS
<1>4. Heard' = S /\ Wiped' = Wiped
  BY <1>1, <1>3 DEF Heard, Wiped
<1>5. /\ Store'.rows = Store.rows /\ Store'.leaked = Store.leaked /\ DOMAIN Store' = Columns
      /\ Store'.theory \in {drawn, Store.theory} /\ drawn \in DOMAIN Store.started
      /\ DOMAIN Store'.started \subseteq DOMAIN Store.started
  BY <1>1, <1>2 DEF Store, Columns
<1>6. Stored(Store', S) /\ (Clean(Store, Wiped) => Clean(Store', Wiped))
  BY <1>3, <1>5 DEF Model, Stored, Clean
<1>7. Cleans(Store, loading, Wiped) => Cleans(Store', loading', Wiped')
  BY <1>1, <1>4, <1>6 DEF Cleans
<1> QED
  BY <1>1, <1>3, <1>4, <1>6, <1>7, ModelNext DEF Model

LEMMA LossModel ==
  ASSUME Model, Heard \subseteq Heard', ModelFails \/ Crash
  PROVE  Model'
<1>1. /\ UNCHANGED <<observed, theory, leaked, forgotten>> /\ loading' = <<>>
      /\ synths' \in {synths, EmptyBag}
  BY DEF ModelFails, Crash, storeVars
<1>2. DOMAIN EmptyBag = {}
  BY DEF EmptyBag, SetToBag
<1>3. DOMAIN synths' \subseteq DOMAIN synths
  BY <1>1, <1>2
<1>4. /\ spared' \in {spared, spared \cup {"model"}}
      /\ WipeQueued => "model" \in spared'
  BY DEF ModelFails, Crash
<1>5. spared \subseteq spared' /\ (WipeQueued => ~(spared' \subseteq {"file"}))
  BY <1>4
<1> QED
  BY <1>1, <1>3, <1>5, LostQueue

-----------------------------------------------------------------------------
(* The invariant of the whole chat.                                         *)

BridgeInv == Shown /\ History /\ Model

\* A handler that remembers a turn, and any other step of one.
LEMMA HandleMemory ==
  ASSUME BoundsAssumption, BridgeInv, NEW m \in Msgs, Handle(m),
         Heard \subseteq Heard', Said \subseteq Said'
  PROVE  History' /\ Model'
<1>0. Shown /\ History /\ Model
  BY DEF BridgeInv
<1>1. CASE StartReply(m)
  <2>1. PICK pc \in {"placeholder", "spoken"} : Goto(m, pc) /\ turn[m].pc \in {"text", "voice"}
    BY <1>1 DEF StartReply, At
  <2>2. m \notin Heard /\ m \in Heard'
    <3>1. turn'[m].pc = pc
      BY <1>0, <2>1, GotoAdvances DEF Unheard, Ended
    <3> QED
      BY <2>1, <3>1 DEF Heard
  <2>3. <<"user", m>> \in Said' /\ <<"user", m>> \notin Said
    BY <2>2 DEF Said
  <2>4. append("user", m) /\ UNCHANGED ghostVars
    BY <1>1 DEF StartReply
  <2>5. History'
    BY <1>0, <2>3, <2>4, AppendHistory DEF append, ghostVars
  <2>6. m \notin Wiped
    BY <1>0, <2>2 DEF History, Said, Wiped
  <2>7. /\ Look \in Calls(Heard') /\ New(Look, Wiped)
        /\ Observe(m) \in Calls(Heard') /\ New(Observe(m), Wiped)
    BY <2>2, <2>6 DEF Calls, New
  <2>8. Model'
    BY <1>0, <2>4, <2>7, CallModel DEF append
  <2> QED
    BY <2>5, <2>8
<1>2. CASE append("assistant", m) /\ UNCHANGED ghostVars
           /\ m \notin Replied /\ m \in Replied'
  <2>1. <<"assistant", m>> \in Said' /\ <<"assistant", m>> \notin Said
    BY <1>2 DEF Said
  <2>2. Look \in Calls(Heard') /\ New(Look, Wiped) /\ Call(Look)
    BY <1>2 DEF append, Calls, New
  <2>3. History'
    BY <1>0, <1>2, <2>1, AppendHistory DEF append, ghostVars
  <2> QED
    BY <1>0, <1>2, <2>2, <2>3, CallModel
<1>3. CASE UNCHANGED <<memoryVars, modelVars, ghostVars>>
  BY <1>0, <1>3, SameHistory, SameModel
<1>4. CASE Remember(m)
  <2>1. Over("done").pc = "done" /\ turn[m].pc = "answered" /\ turn'[m] = Over("done")
    BY <1>0, <1>4 DEF Over, NoTurn, Remember, At, Becomes, Shown
  <2>2. m \notin Replied /\ m \in Replied'
    BY <2>1 DEF Replied
  <2> QED
    BY <1>2, <1>4, <2>2 DEF Remember
<1>5. CASE SpokenReply(m)
  <2>1. CASE append("assistant", m) /\ Goto(m, "speak")
    <3>1. turn[m].pc = "spoken" /\ turn'[m].pc = "speak"
      BY <1>0, <1>5, <2>1, GotoAdvances DEF SpokenReply, At, Unheard, Ended
    <3>2. m \notin Replied /\ m \in Replied'
      BY <3>1 DEF Replied
    <3> QED
      BY <1>2, <1>5, <2>1, <3>2 DEF SpokenReply
  <2> QED
    BY <1>3, <1>5, <2>1 DEF SpokenReply
<1>6. CASE \/ Hear(m) \/ HearVoice(m) \/ Placeholder(m) \/ Token(m) \/ Roll(m)
           \/ StreamEnds(m) \/ StreamFails(m) \/ FinalEdit(m) \/ failSafeFullSend(m)
           \/ GatewayReply(m) \/ Speak(m) \/ ReportError(m)
  BY <1>3, <1>6 DEF Hear, HearVoice, Placeholder, Token, Roll, StreamEnds, StreamFails,
     FinalEdit, failSafeFullSend, GatewayReply, Speak, ReportError, onlyTurn
<1> QED
  BY <1>1, <1>4, <1>5, <1>6 DEF Handle

LEMMA InitBridge == BridgeInit => BridgeInv
<1> SUFFICES ASSUME BridgeInit PROVE BridgeInv
  OBVIOUS
<1>1. History
  BY NothingInEmpty DEF BridgeInit, History
<1>2. Model
  <2>1. loading = <<>> /\ observed = <<>> /\ theory = NoTheory /\ synths = EmptyBag
    BY DEF BridgeInit
  <2>2. DOMAIN EmptyBag = {} /\ NoTheory.from = {}
    BY DEF EmptyBag, SetToBag, NoTheory
  <2>3. /\ DOMAIN Store = Columns /\ Store.rows = <<>> /\ Store.theory = NoTheory
        /\ Store.started = EmptyBag
    BY <2>1 DEF Store, Columns
  <2>4. Stored(Store, Heard) /\ Clean(Store, Wiped)
    BY <2>2, <2>3, NothingInEmpty DEF Stored, Clean
  <2>5. loading \in Seq(Calls(Heard)) /\ Cleans(Store, loading, Wiped)
    BY <2>1, <2>4, CleansQueue
  <2> QED
    BY <2>1, <2>4, <2>5 DEF Model
<1> QED
  BY <1>1, <1>2, InitShown DEF BridgeInv

LEMMA NextBridge ==
  ASSUME BoundsAssumption, BridgeInv, [BridgeNext]_bridgeVars
  PROVE  BridgeInv'
<1>1. Shown /\ History /\ Model
  BY DEF BridgeInv
<1>2. Heard \subseteq Heard' /\ Said \subseteq Said' /\ Shown'
  BY <1>1, SaidGrows, NextShown
<1>3. CASE \E m \in Msgs : Handle(m)
  BY <1>2, <1>3, HandleMemory DEF BridgeInv
<1>4. CASE clear
  BY <1>1, <1>2, <1>4, ClearHistory, ClearModel DEF BridgeInv
<1>5. CASE ModelOpens
  BY <1>1, <1>2, <1>5, SameHistory, OpensModel DEF ModelOpens, BridgeInv
<1>6. CASE InferenceAsks
  <2>1. UNCHANGED <<memoryVars, storeVars, loading, ghostVars>> /\ db = "closed" /\ db' = "theirs"
    BY <1>6 DEF InferenceAsks
  <2>2. Store' = Store /\ Wiped' = Wiped /\ loading' = loading /\ spared' = spared
    BY <2>1 DEF storeVars, ghostVars, Store, Wiped
  <2>3. loading' \in Seq(Calls(Heard')) /\ Stored(Store', Heard')
    BY <1>1, <1>2, <2>2, ModelGrows
  <2>4. Model'
    BY <1>1, <2>1, <2>2, <2>3, ModelNext DEF Model
  <2> QED
    BY <1>1, <1>2, <2>1, <2>4, SameHistory DEF BridgeInv
<1>7. CASE ModelFails
  <2>1. History'
    <3>1. /\ UNCHANGED <<memoryVars, forgotten>>
          /\ "file" \in spared => "file" \in spared'
      BY <1>7 DEF ModelFails
    <3>2. PICK S : S = Said'
      OBVIOUS
    <3>3. cache \in Seq(S) /\ file \in Seq(S)
      BY <1>1, <1>2, <3>2, SeqGrows DEF History
    <3> QED
      BY <1>1, <1>2, <3>1, <3>2, <3>3 DEF History, memoryVars
  <2> QED
    BY <1>1, <1>2, <1>7, <2>1, LossModel DEF BridgeInv
<1>8. CASE Synthesized
  BY <1>1, <1>2, <1>8, SameHistory, SynthesizedModel DEF Synthesized, BridgeInv
<1>9. CASE Crash
  BY <1>1, <1>2, <1>9, CrashHistory, LossModel DEF BridgeInv
<1>10. CASE UNCHANGED bridgeVars
  BY <1>1, <1>2, <1>10, SameHistory, SameModel DEF bridgeVars, BridgeInv
<1> QED
  BY <1>3, <1>4, <1>5, <1>6, <1>7, <1>8, <1>9, <1>10 DEF BridgeNext

\* What a /forget found stays forgotten: no turn that is remembered later, no
\* observation that waited for the database and no restart brings it back, and
\* of the syntheses in flight at the wipe no more comes back than they had
\* read, however many theories are drawn from theirs; but for the file a
\* failing unlink kept and a wipe that the database did not take.
THEOREM ForgottenStaysForgottenCorrect ==
  ASSUME BoundsAssumption
  PROVE  BridgeSpec => []ForgottenStaysForgotten
<1>1. BridgeInv => ForgottenStaysForgotten
  <2> SUFFICES ASSUME History, Model PROVE ForgottenStaysForgotten
    BY DEF BridgeInv
  <2>1. ASSUME spared \subseteq {"file"}, ~WipeQueued
        PROVE  Clean(Store, Wiped)
    <3>1. ASSUME NEW i \in 1 .. Len(loading), loading[i] = Forget("both")
          PROVE  WipeQueued
      <4>1. loading[i] \in Range(loading)
        BY <3>1 DEF Model, Range
      <4> QED
        BY <3>1, <4>1, CallNames DEF WipeQueued
    <3> QED
      BY <2>1, <3>1 DEF Model, Cleans
  <2>2. Store.rows = observed /\ Store.theory = theory /\ Store.leaked = leaked
    BY DEF Store
  <2> QED
    BY <2>1, <2>2 DEF History, Clean, ForgottenStaysForgotten
<1> QED
  BY <1>1, InitBridge, NextBridge, PTL DEF BridgeSpec
=============================================================================
