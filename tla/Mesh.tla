-------------------------------- MODULE Mesh --------------------------------
(***************************************************************************)
(* The compute mesh (packages/atmos-core): the key-holding relay that      *)
(* seals a skill, keeps the fleet and fans jobs out (mesh-demo.mjs,        *)
(* runBroadcast), and the nodes that verify the seal and compute           *)
(* (node-runner/mesh-node.mjs).                                            *)
(*                                                                         *)
(* Hyperswarm keeps one connection per peer key and reports its close      *)
(* before it reports the next one.  A connection is a FIFO channel in each *)
(* direction; when the wire or the node dies what is in flight is lost and *)
(* the relay learns it later.  Timers have no clock here: they may fire at *)
(* any time after they are set, as seen from a network without a bound.    *)
(*                                                                         *)
(* RELAY_HELLO and UPDATE_AVAILABLE frames to a node are left out, it      *)
(* ignores them; so is the rate limit of CAPABILITY, which a node sends    *)
(* once per connection and whose mark is deleted with the connection.      *)
(***************************************************************************)
EXTENDS Integers, Sequences, FiniteSets

CONSTANTS
    Nodes,      (* peer keys                                                *)
    Strangers,  (* nodes pinned to the key of another origin                *)
    Broken,     (* nodes whose machine may compute a wrong value            *)
    FleetMax,   (* FLEET_MAX                                                *)
    MaxInput,   (* the inputs of a job are 1 .. MaxInput                    *)
    MaxJobs,    (* bound on the jobs                                        *)
    MaxConns    (* bound on the connections, all nodes together             *)

ASSUME MeshAssumption ==
    /\ IsFiniteSet(Nodes) /\ Strangers \subseteq Nodes /\ Broken \subseteq Nodes
    /\ FleetMax \in Nat /\ MaxInput \in Nat \ {0}
    /\ MaxJobs \in Nat /\ MaxConns \in Nat

VARIABLES
    wire,       (* the connection carries frames                            *)
    conns,      (* connections so far; names the nonce and the process      *)
    toNode, toRelay, (* the frames in flight                                *)
    skill,      (* node: "none", "verified" (instantiating) or "ready"      *)
    sockets,    (* relay: the peers with a live socket, as it believes      *)
    fleet,      (* relay: capability of each peer, or NoCap                 *)
    challenges, (* relay: the nonce a peer must answer, or 0                *)
    jobSeq, busy,
    pending,    (* relay: the slices out, with the node's record captured   *)
    perNode,    (* relay: what each job reports of its workers              *)
    receipts,   (* relay: receiptLog                                        *)
    rivalUp,    (* a relay with a lower id runs                             *)
    aliveRival, (* relay: aliveRelays holds it                              *)
    computed    (* history: correct computations, with the owner of the process *)

nodeVars == <<skill, computed>>
netVars == <<wire, conns, toNode, toRelay>>
fleetVars == <<sockets, fleet, challenges>>
jobVars == <<jobSeq, busy, pending, perNode, receipts>>
rivalVars == <<rivalUp, aliveRival>>
vars == <<nodeVars, netVars, fleetVars, jobVars, rivalVars>>

NoCap == [in |-> FALSE]

\* Mutant of Capability: the owner the node reported is dropped.
CapabilityUnattributed(o) == [in |-> TRUE, owner |-> 0, proven |-> FALSE]

\* sanitizeCapability, with computeReady.
Capability(o) == [in |-> TRUE, owner |-> o, proven |-> FALSE]

Init ==
    /\ wire = [n \in Nodes |-> FALSE]
    /\ conns = [n \in Nodes |-> 0]
    /\ toNode = [n \in Nodes |-> <<>>] /\ toRelay = [n \in Nodes |-> <<>>]
    /\ skill = [n \in Nodes |-> "none"]
    /\ sockets = {}
    /\ fleet = [n \in Nodes |-> NoCap]
    /\ challenges = [n \in Nodes |-> 0]
    /\ jobSeq = 0 /\ busy = FALSE
    /\ pending = {} /\ perNode = {} /\ receipts = {}
    /\ rivalUp \in BOOLEAN /\ aliveRival = FALSE
    /\ computed = {}

\* Only the wire accepts a frame: a write to a dead socket goes nowhere.
ToNode(n, msg) == IF wire[n] THEN Append(toNode[n], msg) ELSE toNode[n]
-----------------------------------------------------------------------------
(* The network. *)

\* The connections so far: the i-th of a peer.
Connections == {c \in Nodes \X (1 .. MaxConns) : c[2] <= conns[c[1]]}

\* The relay's 'connection': the sealed skill is the first frame.
Connect(n) ==
    /\ ~wire[n] /\ n \notin sockets
    /\ Cardinality(Connections) < MaxConns
    /\ wire' = [wire EXCEPT ![n] = TRUE]
    /\ conns' = [conns EXCEPT ![n] = @ + 1]
    /\ toNode' = [toNode EXCEPT ![n] = <<[type |-> "SKILL"]>>]
    /\ sockets' = sockets \cup {n}
    /\ skill' = [skill EXCEPT ![n] = "none"]
    /\ UNCHANGED <<toRelay, computed, fleet, challenges, jobVars, rivalVars>>

\* The connection is cut, or the node dies and is started again: the process of
\* each connection is taken for one with a wallet of its own, the worst case.
Cut(n) ==
    /\ wire[n]
    /\ wire' = [wire EXCEPT ![n] = FALSE]
    /\ toNode' = [toNode EXCEPT ![n] = <<>>] /\ toRelay' = [toRelay EXCEPT ![n] = <<>>]
    /\ skill' = [skill EXCEPT ![n] = "none"]
    /\ UNCHANGED <<conns, computed, fleetVars, jobVars, rivalVars>>

\* Mutant of Close: the capability outlives the connection.
CloseKeepsFleet(n) ==
    /\ ~wire[n] /\ n \in sockets
    /\ sockets' = sockets \ {n}
    /\ challenges' = [challenges EXCEPT ![n] = 0]
    /\ UNCHANGED <<nodeVars, netVars, fleet, jobVars, rivalVars>>

\* The relay's 'close': the slices that are out stay out until their timeout.
Close(n) ==
    /\ ~wire[n] /\ n \in sockets
    /\ sockets' = sockets \ {n}
    /\ fleet' = [fleet EXCEPT ![n] = NoCap]
    /\ challenges' = [challenges EXCEPT ![n] = 0]
    /\ UNCHANGED <<nodeVars, netVars, jobVars, rivalVars>>
-----------------------------------------------------------------------------
(* A node: one action per frame. *)

NodeGets(n, type) == toNode[n] # <<>> /\ Head(toNode[n]).type = type
NodeTakes(n) == toNode' = [toNode EXCEPT ![n] = Tail(@)]
NodeSends(n, msg) == toRelay' = [toRelay EXCEPT ![n] = Append(@, msg)]

\* A skill sealed by the pinned key: report capacity, and begin to instantiate.
GetSkill(n) ==
    /\ NodeGets(n, "SKILL") /\ NodeTakes(n)
    /\ IF n \in Strangers
       THEN UNCHANGED <<toRelay, skill>>
       ELSE /\ NodeSends(n, [type |-> "CAPABILITY", owner |-> conns[n]])
            /\ skill' = [skill EXCEPT ![n] = "verified"]
    /\ UNCHANGED <<wire, conns, computed, fleetVars, jobVars, rivalVars>>

\* WebAssembly.instantiate resolves: computeFn is set.
Instantiated(n) ==
    /\ skill[n] = "verified"
    /\ skill' = [skill EXCEPT ![n] = "ready"]
    /\ UNCHANGED <<netVars, computed, fleetVars, jobVars, rivalVars>>

GetChallenge(n) ==
    /\ NodeGets(n, "CHALLENGE") /\ NodeTakes(n)
    /\ NodeSends(n, [type |-> "PROOF", nonce |-> Head(toNode[n]).nonce])
    /\ UNCHANGED <<wire, conns, nodeVars, fleetVars, jobVars, rivalVars>>

\* A slice: an error when computeFn is not there yet, else the results, which
\* a broken machine may get wrong.
GetJob(n) ==
    LET m == Head(toNode[n])
        answer(kind) == NodeSends(n, [type |-> "RESULT", job |-> m.job, kind |-> kind])
    IN  /\ NodeGets(n, "JOB") /\ NodeTakes(n)
        /\ IF skill[n] # "ready"
           THEN answer("error") /\ UNCHANGED computed
           ELSE \/ /\ answer("right")
                   /\ computed' = computed \cup
                        {[job |-> m.job, node |-> n, slice |-> m.slice, owner |-> conns[n]]}
                \/ n \in Broken /\ answer("wrong") /\ UNCHANGED computed
        /\ UNCHANGED <<wire, conns, skill, fleetVars, jobVars, rivalVars>>
-----------------------------------------------------------------------------
(* The relay: one action per frame. *)

RelayGets(n, type) == toRelay[n] # <<>> /\ Head(toRelay[n]).type = type
RelayTakes(n) == toRelay' = [toRelay EXCEPT ![n] = Tail(@)]
Fleet == {n \in Nodes : fleet[n].in}

GetCapability(n) ==
    /\ RelayGets(n, "CAPABILITY") /\ RelayTakes(n)
    /\ IF n \notin Fleet /\ Cardinality(Fleet) >= FleetMax
       THEN UNCHANGED <<fleet, challenges, toNode>>
       ELSE /\ fleet' = [fleet EXCEPT ![n] = Capability(Head(toRelay[n]).owner)]
            /\ challenges' = [challenges EXCEPT ![n] = conns[n]]
            /\ toNode' = [toNode EXCEPT ![n] =
                             ToNode(n, [type |-> "CHALLENGE", nonce |-> conns[n]])]
    /\ UNCHANGED <<wire, conns, sockets, nodeVars, jobVars, rivalVars>>

\* The digest is right or it is not; either way the challenge is spent.
GetProof(n) ==
    /\ RelayGets(n, "PROOF") /\ RelayTakes(n)
    /\ IF n \in Fleet /\ challenges[n] # 0 /\ challenges[n] = Head(toRelay[n]).nonce
       THEN /\ challenges' = [challenges EXCEPT ![n] = 0]
            /\ \E ok \in {TRUE, n \notin Broken} : fleet' = [fleet EXCEPT ![n].proven = @ \/ ok]
       ELSE UNCHANGED <<fleet, challenges>>
    /\ UNCHANGED <<wire, conns, toNode, sockets, nodeVars, jobVars, rivalVars>>

Out(n, j) == {p \in pending : p.node = n /\ p.job = j}
Reported(p, kind) == perNode' = perNode \cup {[job |-> p.job, node |-> p.node, kind |-> kind]}

\* Mutant of GetResult: whatever has the length of the slice earns its receipt.
GetResultUnchecked(n) ==
    LET m == Head(toRelay[n])
    IN  /\ RelayGets(n, "RESULT") /\ RelayTakes(n)
        /\ IF Out(n, m.job) = {}
           THEN UNCHANGED <<pending, perNode, receipts>>
           ELSE \E p \in Out(n, m.job) :
                   /\ pending' = pending \ {p}
                   /\ Reported(p, IF m.kind = "error" THEN "timedOut" ELSE "counted")
                   /\ receipts' = IF m.kind # "error" THEN receipts \cup {p} ELSE receipts
        /\ UNCHANGED <<wire, conns, toNode, nodeVars, fleetVars, jobSeq, busy, rivalVars>>

\* A slice comes back, if it is still out: it is counted when it has the right
\* length, and has a receipt when every result is what the skill computes.  The
\* relay writes no receipt file here: an append to one that throws ends its life.
GetResult(n) ==
    LET m == Head(toRelay[n])
    IN  /\ RelayGets(n, "RESULT") /\ RelayTakes(n)
        /\ IF Out(n, m.job) = {}
           THEN UNCHANGED <<pending, perNode, receipts>>
           ELSE \E p \in Out(n, m.job) :
                   /\ pending' = pending \ {p}
                   /\ Reported(p, IF m.kind = "error" THEN "timedOut" ELSE "counted")
                   /\ receipts' = IF m.kind = "right" THEN receipts \cup {p} ELSE receipts
        /\ UNCHANGED <<wire, conns, toNode, nodeVars, fleetVars, jobSeq, busy, rivalVars>>
-----------------------------------------------------------------------------
(* The relay: jobs and leadership. *)

Workers == sockets \cap Fleet

\* Round robin: the i-th worker of k gets the inputs i, i + k, ...
Slice(i, k) == {x \in 1 .. MaxInput : (x - i) % k = 0}

\* The scheduler's tick on the leader, up to the await of the workers.  A
\* frame to a socket that is being destroyed may throw: that slice is dropped.
Dispatch ==
    /\ ~busy /\ ~aliveRival
    /\ jobSeq < MaxJobs /\ Workers # {}
    /\ jobSeq' = jobSeq + 1 /\ busy' = TRUE
    /\ \E turn \in [Workers -> 1 .. Cardinality(Workers)],
          unsent \in SUBSET {n \in Workers : ~wire[n]} :
          /\ \A n, m \in Workers : turn[n] = turn[m] => n = m
          /\ LET slice == [n \in Workers |-> Slice(turn[n], Cardinality(Workers))]
             IN  /\ pending' = pending \cup
                       {[job |-> jobSeq + 1, node |-> n, slice |-> slice[n],
                         owner |-> fleet[n].owner] : n \in Workers \ unsent}
                 /\ toNode' = [n \in Nodes |->
                       IF n \in Workers
                       THEN ToNode(n, [type |-> "JOB", job |-> jobSeq + 1, slice |-> slice[n]])
                       ELSE toNode[n]]
    /\ UNCHANGED <<wire, conns, toRelay, nodeVars, fleetVars, perNode, receipts, rivalVars>>

\* Mutant of JobTimeout: the timer goes with the socket.
JobTimeoutConnected(p) ==
    /\ p \in pending /\ p.node \in sockets
    /\ pending' = pending \ {p}
    /\ Reported(p, "timedOut")
    /\ UNCHANGED <<netVars, nodeVars, fleetVars, jobSeq, busy, receipts, rivalVars>>

\* A worker's timer fires.
JobTimeout(p) ==
    /\ p \in pending
    /\ pending' = pending \ {p}
    /\ Reported(p, "timedOut")
    /\ UNCHANGED <<netVars, nodeVars, fleetVars, jobSeq, busy, receipts, rivalVars>>

\* Mutant of JobEnds: the first promise to resolve ends the job.
JobEndsAtFirst ==
    /\ busy /\ \E r \in perNode : r.job = jobSeq
    /\ busy' = FALSE
    /\ UNCHANGED <<netVars, nodeVars, fleetVars, jobSeq, pending, perNode, receipts, rivalVars>>

\* Every worker's promise has resolved.
JobEnds ==
    /\ busy /\ \A p \in pending : p.job # jobSeq
    /\ busy' = FALSE
    /\ UNCHANGED <<netVars, nodeVars, fleetVars, jobSeq, pending, perNode, receipts, rivalVars>>

\* The relay with the lower id dies; while it runs it is heard of.
RivalDies ==
    /\ rivalUp /\ rivalUp' = FALSE
    /\ UNCHANGED <<netVars, nodeVars, fleetVars, jobVars, aliveRival>>

RelayHello ==
    /\ rivalUp /\ aliveRival' = TRUE
    /\ UNCHANGED <<netVars, nodeVars, fleetVars, jobVars, rivalUp>>

\* recomputeLeader: a rival not heard of for RELAY_TTL_MS is no longer alive.
RivalExpires ==
    /\ aliveRival /\ aliveRival' = FALSE
    /\ UNCHANGED <<netVars, nodeVars, fleetVars, jobVars, rivalUp>>

Next ==
    \/ \E n \in Nodes : Connect(n) \/ Cut(n) \/ Close(n)
    \/ \E n \in Nodes : GetSkill(n) \/ Instantiated(n) \/ GetChallenge(n) \/ GetJob(n)
    \/ \E n \in Nodes : GetCapability(n) \/ GetProof(n) \/ GetResult(n)
    \/ \E p \in pending : JobTimeout(p)
    \/ Dispatch \/ JobEnds \/ RivalDies \/ RelayHello \/ RivalExpires

Spec == Init /\ [][Next]_vars

\* The relay's own timers and continuations; nothing of the network or a node.
Fairness ==
    /\ WF_vars(\E p \in pending : JobTimeout(p))
    /\ WF_vars(JobEnds) /\ WF_vars(RivalExpires)
FairSpec == Spec /\ Fairness
-----------------------------------------------------------------------------
Slots == [job : 1 .. MaxJobs, node : Nodes, slice : SUBSET (1 .. MaxInput), owner : 1 .. MaxConns]

TypeOK ==
    /\ wire \in [Nodes -> BOOLEAN] /\ conns \in [Nodes -> 0 .. MaxConns]
    /\ skill \in [Nodes -> {"none", "verified", "ready"}]
    /\ sockets \subseteq Nodes
    /\ fleet \in [Nodes -> {NoCap} \cup [in : {TRUE}, owner : 1 .. MaxConns, proven : BOOLEAN]]
    /\ challenges \in [Nodes -> 0 .. MaxConns]
    /\ jobSeq \in 0 .. MaxJobs /\ busy \in BOOLEAN
    /\ pending \subseteq Slots /\ receipts \subseteq Slots /\ computed \subseteq Slots
    /\ perNode \subseteq [job : 1 .. MaxJobs, node : Nodes, kind : {"counted", "timedOut"}]
    /\ rivalUp \in BOOLEAN /\ aliveRival \in BOOLEAN

(***************************************************************************)
(* "For every JOB result a worker returns AND the origin re-verifies ...   *)
(* WHO ran WHAT, on WHOSE node" (mesh-demo.mjs:137): whatever connections  *)
(* break, nodes restart for other owners and results come late, a receipt  *)
(* is for a computation that node did, for the owner of the process that   *)
(* did it, and no input of a job is paid twice.                            *)
(***************************************************************************)
CreditWhereDue ==
    /\ receipts \subseteq computed
    /\ \A r, s \in receipts : r.job = s.job /\ r # s => r.slice \cap s.slice = {}

(***************************************************************************)
(* What a job reports when it ends is final: every slice that went out is  *)
(* accounted for once, and a result that comes after its timeout changes   *)
(* neither the report nor the receipts of a job that is over.              *)
(***************************************************************************)
Over(j) == j < jobSeq \/ (j = jobSeq /\ ~busy)
ReportIsFinal ==
    [][/\ \A j \in 1 .. jobSeq : Over(j) =>
             {r \in perNode' : r.job = j} = {r \in perNode : r.job = j}
             /\ {r \in receipts' : r.job = j} = {r \in receipts : r.job = j}
       /\ \A r, s \in perNode' : r.job = s.job /\ r.node = s.node => r = s]_vars

(***************************************************************************)
(* "if the leader goes silent, the next-lowest takes over"                 *)
(* (mesh-demo.mjs:225): once the lower relay stays dead this one is, again *)
(* and again, leader and free to dispatch, whatever its workers do.        *)
(***************************************************************************)
WorkGoesOn == <>[]~rivalUp => []<>(~aliveRival /\ ~busy)

\* The relay's tables, whatever the network does, are those of the job ledger:
\* one job at a time, each slice settled once, and paid only where computed.
Ledger == INSTANCE JobLedger WITH
    Peers <- Nodes, Inputs <- 1 .. MaxInput, Owners <- 1 .. MaxConns,
    job <- jobSeq, open <- busy, out <- pending,
    report <- perNode, paid <- receipts, done <- computed
ImplementsJobLedger == Ledger!LedgerSpec
=============================================================================
