------------------------- MODULE MCUpstreamBreaker -------------------------
(***************************************************************************)
(* Small instance of UpstreamBreaker.  Four requests and a threshold of    *)
(* two are enough to open the breaker, keep attempts of the old generation *)
(* in flight, probe, and open or close it again.                           *)
(***************************************************************************)
EXTENDS UpstreamBreaker
=============================================================================
