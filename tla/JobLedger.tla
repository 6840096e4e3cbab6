----------------------------- MODULE JobLedger -----------------------------
(***************************************************************************)
(* What the relay of the mesh promises about its jobs, with no network, no *)
(* fleet and no timer (mesh-demo.mjs:137, :180): one job at a time is      *)
(* split among nodes, no input goes to two of them; every slice that went  *)
(* out is settled, once, before the job is over, by what the node returned *)
(* or by nothing; and only then is it paid for, if that node computed it,  *)
(* for the owner it had.                                                   *)
(***************************************************************************)
EXTENDS Integers

CONSTANTS Peers,   (* who may be given a slice                              *)
          Inputs,  (* what a job is made of                                 *)
          Owners   (* who may be paid                                       *)

VARIABLES job,     (* the jobs so far                                       *)
          open,    (* the last of them is not over                          *)
          out,     (* its slices that are not settled                       *)
          report,  (* how each slice was settled                            *)
          paid,    (* the slices that were paid for                         *)
          done     (* the slices that were computed                         *)

ledger == <<job, open, out, report, paid, done>>

LedgerInit ==
    /\ job = 0 /\ open = FALSE
    /\ out = {} /\ report = {} /\ paid = {} /\ done = {}

\* The next job is split among some peers.
Post ==
    /\ ~open /\ open' = TRUE
    /\ job' = job + 1
    /\ out' \subseteq [job : {job'}, node : Peers, slice : SUBSET Inputs, owner : Owners]
    /\ \A p, q \in out' : p # q => p.node # q.node /\ p.slice \cap q.slice = {}
    /\ UNCHANGED <<report, paid, done>>

\* A slice of a job is computed, in time or not.
Compute ==
    /\ \E p \in done' : p.job \in 1 .. job /\ done' = done \cup {p}
    /\ UNCHANGED <<job, open, out, report, paid>>

\* A slice is settled, for good: given up or counted, and then maybe paid for.
Settle(p, kind) ==
    /\ p \in out /\ out' = out \ {p}
    /\ \A r \in report : ~(r.job = p.job /\ r.node = p.node)
    /\ report' = report \cup {[job |-> p.job, node |-> p.node, kind |-> kind]}
    /\ \/ paid' = paid
       \/ kind = "counted" /\ p \in done \ paid /\ paid' = paid \cup {p}
    /\ UNCHANGED <<job, open, done>>

\* The job is over when every slice is settled.
Finish ==
    /\ open /\ out = {}
    /\ open' = FALSE
    /\ UNCHANGED <<job, out, report, paid, done>>

LedgerNext ==
    \/ Post \/ Compute \/ Finish
    \/ \E p \in out, kind \in {"counted", "timedOut"} : Settle(p, kind)

LedgerSpec == LedgerInit /\ [][LedgerNext]_ledger
=============================================================================
