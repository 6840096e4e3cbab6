--------------------------- MODULE CircuitBreaker ---------------------------
(***************************************************************************)
(* What the header of upstream-breaker.js promises to the two proxy routes *)
(* of the gateway, with no counter, clock or generation stamp: a breaker   *)
(* is closed, open, or half-open with exactly one probing request, and     *)
(* only the outcome of that one probe leaves the half-open state.          *)
(***************************************************************************)

CONSTANTS Requests,  (* the upstream attempts of the gateway                *)
          NoProbe    (* no request: "no probe is in flight"                 *)

VARIABLES mode,      (* "closed", "open" or "half-open"                     *)
          prober     (* the request whose attempt is the probe, or NoProbe  *)

abstractVars == <<mode, prober>>

AbstractInit == mode = "closed" /\ prober = NoProbe

\* Enough failures in a row.
Trip ==
    /\ mode = "closed"
    /\ mode' = "open"
    /\ UNCHANGED prober

\* The cooldown is over and r gets the probe slot.
Admit(r) ==
    /\ mode = "open"
    /\ mode' = "half-open"
    /\ prober' = r

\* The probe settles: the upstream is back, or the breaker opens again.
Settle ==
    /\ mode = "half-open"
    /\ mode' \in {"closed", "open"}
    /\ prober' = NoProbe

AbstractNext == Trip \/ Settle \/ \E r \in Requests : Admit(r)

AbstractSpec == AbstractInit /\ [][AbstractNext]_abstractVars
=============================================================================
