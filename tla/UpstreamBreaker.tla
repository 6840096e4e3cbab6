-------------------------- MODULE UpstreamBreaker --------------------------
(***************************************************************************)
(* The circuit breaker between the gateway's proxy routes and the upstream *)
(* StratosAgent (packages/api-shim/src/upstream-breaker.js), driven the    *)
(* way the handlers of /v1/chat/completions and /v1/messages drive it      *)
(* (packages/api-shim/server.js): every request makes at most one upstream *)
(* attempt, many attempts are in flight together, and their completions    *)
(* reach the breaker in any order.                                         *)
(*                                                                         *)
(* The breaker's four module variables keep their names.  A request is     *)
(* used once, so Requests bounds the number of attempts and, with it, the  *)
(* failure and generation counters; MaxTime bounds the clock.              *)
(***************************************************************************)
EXTENDS Integers, FiniteSets

CONSTANTS Requests,    (* HTTP requests that reach the proxy step           *)
          Threshold,   (* ATMOS_UPSTREAM_BREAKER_THRESHOLD                  *)
          Cooldown,    (* ATMOS_UPSTREAM_BREAKER_COOLDOWN_MS                *)
          Enabled,     (* ATMOS_UPSTREAM_BREAKER is not "off"               *)
          NoProbe,     (* no request holds the probe slot                   *)
          MaxTime      (* bound on the clock                                *)

\* envInt clamps the two knobs from below (1 and 0).
ASSUME BreakerAssumption ==
    /\ Threshold \in Nat \ {0}
    /\ Cooldown \in Nat
    /\ Enabled \in BOOLEAN
    /\ MaxTime \in Nat
    /\ NoProbe \notin Requests
    /\ IsFiniteSet(Requests)

VARIABLES
    failures,    (* consecutive availability failures                       *)
    openedAt,    (* when the breaker last opened                            *)
    generation,  (* bumped by every success and every (re)open              *)
    probing,     (* a half-open probe is in flight                          *)
    now,         (* Date.now()                                              *)
    req          (* req[r]: the attempt of request r and its HTTP reply     *)

breakerVars == <<failures, openedAt, generation, probing>>
vars == <<failures, openedAt, generation, probing, now, req>>

(***************************************************************************)
(* An attempt is "new", then "skipped" (the breaker refused it) or         *)
(* "inflight"; an attempt in flight ends "alive" (any status that proves   *)
(* the upstream is up) or "failed".                                        *)
(***************************************************************************)
Phases == {"new", "skipped", "inflight", "alive", "failed"}
Replies == {"none", "piping", "upstream", "broken", "fallback"}
Attempt == [phase : Phases, gen : Nat, probe : BOOLEAN, reply : Replies]

Tripped == Enabled /\ failures >= Threshold
InFlight == {r \in Requests : req[r].phase = "inflight"}
Current(r) == req[r].gen = generation

Init ==
    /\ failures = 0
    /\ openedAt = 0
    /\ generation = 0
    /\ probing = FALSE
    /\ now = 0
    /\ req = [r \in Requests |->
                 [phase |-> "new", gen |-> 0, probe |-> FALSE, reply |-> "none"]]

Admitted(r, isProbe) ==
    req' = [req EXCEPT ![r] = [phase |-> "inflight", gen |-> generation,
                               probe |-> isProbe, reply |-> "none"]]

\* beginUpstreamAttempt, breaker closed (or disabled): call the upstream.
BeginClosed(r) ==
    /\ req[r].phase = "new"
    /\ ~Tripped
    /\ Admitted(r, FALSE)
    /\ UNCHANGED <<breakerVars, now>>

\* Mutant of BeginProbe: the probe slot is not checked.
BeginProbeHerd(r) ==
    /\ req[r].phase = "new"
    /\ Tripped
    /\ now - openedAt >= Cooldown
    /\ probing' = TRUE
    /\ Admitted(r, TRUE)
    /\ UNCHANGED <<failures, openedAt, generation, now>>

\* beginUpstreamAttempt in the half-open state, probe slot free.
BeginProbe(r) ==
    /\ req[r].phase = "new"
    /\ Tripped
    /\ now - openedAt >= Cooldown
    /\ ~probing
    /\ probing' = TRUE
    /\ Admitted(r, TRUE)
    /\ UNCHANGED <<failures, openedAt, generation, now>>

\* beginUpstreamAttempt refuses: the handler throws 'upstream-breaker-open'
\* and its catch block answers from the fallback, recording nothing.
BeginRefused(r) ==
    /\ req[r].phase = "new"
    /\ Tripped
    /\ \/ now - openedAt < Cooldown
       \/ probing
    /\ req' = [req EXCEPT ![r] = [phase |-> "skipped", gen |-> generation,
                                  probe |-> FALSE, reply |-> "fallback"]]
    /\ UNCHANGED <<breakerVars, now>>

\* Mutant: a late success counts whatever its stamp.
recordSuccessUnstamped(gen) ==
    /\ generation' = generation + 1
    /\ failures' = 0
    /\ openedAt' = 0
    /\ probing' = FALSE

recordSuccess(gen) ==
    IF Enabled /\ gen = generation
    THEN /\ generation' = generation + 1
         /\ failures' = 0
         /\ openedAt' = 0
         /\ probing' = FALSE
    ELSE UNCHANGED breakerVars

\* Mutants: a late failure counts; the counter runs the wrong way; the probe
\* slot is kept; an open does not invalidate the attempts before it.
recordFailureUnstamped(gen) ==
    /\ failures' = failures + 1
    /\ probing' = FALSE
    /\ IF failures + 1 >= Threshold
       THEN generation' = generation + 1 /\ openedAt' = now
       ELSE UNCHANGED <<generation, openedAt>>

recordFailureDown(gen) ==
    /\ failures' = failures - 1
    /\ UNCHANGED <<openedAt, generation, probing>>

recordFailureSlotKept(gen) ==
    IF gen = generation
    THEN /\ failures' = failures + 1
         /\ IF failures + 1 >= Threshold
            THEN generation' = generation + 1 /\ openedAt' = now
            ELSE UNCHANGED <<generation, openedAt>>
         /\ UNCHANGED probing
    ELSE UNCHANGED breakerVars

recordFailureSameStamp(gen) ==
    IF gen = generation
    THEN /\ failures' = failures + 1
         /\ probing' = FALSE
         /\ openedAt' = IF failures + 1 >= Threshold THEN now ELSE openedAt
         /\ UNCHANGED generation
    ELSE UNCHANGED breakerVars

recordFailure(gen) ==
    IF Enabled /\ gen = generation
    THEN /\ failures' = failures + 1
         /\ probing' = FALSE
         /\ IF failures + 1 >= Threshold
            THEN generation' = generation + 1 /\ openedAt' = now
            ELSE UNCHANGED <<generation, openedAt>>
    ELSE UNCHANGED breakerVars

Answer(r, newPhase, newReply) ==
    req' = [req EXCEPT ![r].phase = newPhase, ![r].reply = newReply]

\* The upstream answered with a status that proves it alive: the body of a 2xx
\* is piped to the caller, any other such status (a 4xx) takes the fallback.
UpstreamAlive(r) ==
    /\ req[r].phase = "inflight"
    /\ recordSuccess(req[r].gen)
    /\ \E reply \in {"piping", "fallback"} : Answer(r, "alive", reply)
    /\ UNCHANGED now

\* The body arrives in full or breaks off.  The timer was cleared with the
\* headers and the breaker is not told of the body's fate.
BodyEnds(r) ==
    /\ req[r].reply = "piping"
    /\ \E reply \in {"upstream", "broken"} : Answer(r, "alive", reply)
    /\ UNCHANGED <<breakerVars, now>>

\* A 5xx or 429, a transport error, or the abort after STRATOS_TIMEOUT.
UpstreamFailed(r) ==
    /\ req[r].phase = "inflight"
    /\ recordFailure(req[r].gen)
    /\ Answer(r, "failed", "fallback")
    /\ UNCHANGED now

Tick ==
    /\ now < MaxTime
    /\ now' = now + 1
    /\ UNCHANGED <<breakerVars, req>>

Begin(r) == BeginClosed(r) \/ BeginProbe(r) \/ BeginRefused(r)
Complete(r) == UpstreamAlive(r) \/ UpstreamFailed(r)

Next == Tick \/ \E r \in Requests : Begin(r) \/ Complete(r) \/ BodyEnds(r)

Spec == Init /\ [][Next]_vars

\* An attempt in flight settles: fetch resolves, rejects, or is aborted by
\* the AbortController timer, which the handler arms before every attempt.
Fairness == \A r \in Requests : WF_vars(Complete(r))
FairSpec == Spec /\ Fairness
-----------------------------------------------------------------------------
TypeOK ==
    /\ failures \in Nat
    /\ openedAt \in Nat
    /\ generation \in Nat
    /\ probing \in BOOLEAN
    /\ now \in Nat
    /\ req \in [Requests -> Attempt]

(***************************************************************************)
(* The probe slot is honest: while the breaker is tripped, the flag        *)
(* `probing` is set exactly when one attempt carrying the current          *)
(* generation is in flight, that attempt is a probe, and no second one     *)
(* exists ("Half-open admits EXACTLY ONE probe", upstream-breaker.js:19).  *)
(* A slot that leaked would leave the upstream unreachable for good, a     *)
(* second probe would be the thundering herd.  The probe began after the   *)
(* whole cooldown of the open it probes, and that open is still the last   *)
(* one: nothing reopened underneath it.                                    *)
(***************************************************************************)
SingleProbe ==
    /\ \A r, s \in InFlight : req[r].probe /\ req[s].probe => r = s
    /\ probing => Tripped
    /\ probing <=> \E r \in InFlight : req[r].probe
    /\ Tripped => \A r \in InFlight : Current(r) => req[r].probe
    /\ \A r \in InFlight : req[r].probe => Current(r) /\ now - openedAt >= Cooldown

(***************************************************************************)
(* The breaker counts what it says it counts: below the threshold, the     *)
(* counter is the number of attempts that began after the last success or  *)
(* open and have failed since.  Late failures of older attempts are never  *)
(* in it, and none is lost ("Every attempt is GENERATION-STAMPED", :15).   *)
(***************************************************************************)
CountedFailures ==
    Enabled /\ failures < Threshold =>
        failures = Cardinality({r \in Requests : req[r].phase = "failed" /\ Current(r)})

\* Only the probe's own outcome leaves the half-open state, and nothing but
\* a probe found alive closes a tripped breaker: neither a late success of an
\* attempt from before the open nor a late failure moves it (:16-18).
OnlyProbeSettles ==
    [][ /\ (probing /\ ~probing' =>
               \E r \in InFlight : req[r].probe /\ req'[r].phase \in {"alive", "failed"})
        /\ (Tripped /\ ~Tripped' =>
               \E r \in InFlight : req[r].probe /\ req'[r].phase = "alive") ]_vars

\* The probe slot is always given back, so the upstream is tried again.
ProbeSlotFreed == probing ~> ~probing

\* The breaker implements the three-state machine its header describes.
Mode == IF ~Tripped THEN "closed" ELSE IF probing THEN "half-open" ELSE "open"
Prober == IF probing THEN CHOOSE r \in InFlight : req[r].probe ELSE NoProbe
Abstract == INSTANCE CircuitBreaker WITH mode <- Mode, prober <- Prober
ImplementsCircuitBreaker == Abstract!AbstractSpec
=============================================================================
