------------------------ MODULE MeshEvolutionProofs -------------------------
(***************************************************************************)
(* Proofs about two components that share no variable and no step.         *)
(* Mesh: for any finite set of nodes, any of them strangers or broken, any *)
(* cap of the fleet, any number of connections, jobs and inputs.           *)
(* Evolution, in the second half: for any number of requests, intents,     *)
(* examples, failures and crashes.  Its specification is LearnSpec.        *)
(***************************************************************************)
EXTENDS Mesh, Evolution, SequenceTheorems, FiniteSetTheorems, TLAPS


-----------------------------------------------------------------------------
(* The inductive invariant. *)

NodeFrames ==
    [type : {"SKILL"}] \cup [type : {"CHALLENGE"}, nonce : 1 .. MaxConns]
        \cup [type : {"JOB"}, job : 1 .. MaxJobs, slice : SUBSET (1 .. MaxInput)]

RelayFrames ==
    [type : {"CAPABILITY"}, owner : 1 .. MaxConns]
        \cup [type : {"PROOF"}, nonce : 1 .. MaxConns]
        \cup [type : {"RESULT"}, job : 1 .. MaxJobs, kind : {"right", "wrong", "error"}]

Typed ==
    /\ TypeOK
    /\ toNode \in [Nodes -> Seq(NodeFrames)] /\ toRelay \in [Nodes -> Seq(RelayFrames)]

\* The frames of a queue.
InFlight(q) == {q[i] : i \in 1 .. Len(q)}

(***************************************************************************)
(* What the relay holds of a peer is of the connection the peer has, or    *)
(* had last: only a close, which the relay learns of before it hears of    *)
(* the next connection, makes room for another one.                        *)
(***************************************************************************)
Connected ==
    \A n \in Nodes :
        /\ wire[n] => n \in sockets
        /\ ~wire[n] => toNode[n] = <<>> /\ toRelay[n] = <<>>
        /\ n \in sockets => conns[n] \in 1 .. MaxConns
        /\ fleet[n].in => n \in sockets /\ fleet[n].owner = conns[n]
        /\ \A m \in InFlight(toRelay[n]) : m.type = "CAPABILITY" => m.owner = conns[n]

(***************************************************************************)
(* Frames and slices: a slice a node is still to compute is the one the    *)
(* relay waits for, with the owner of the process that will compute it; a  *)
(* right answer on its way is of a slice the node computed.                *)
(***************************************************************************)
Carried ==
    \A n \in Nodes :
        /\ \A m \in InFlight(toNode[n]) : m.type = "JOB" =>
              /\ m.job <= jobSeq
              /\ \A p \in Out(n, m.job) : p.slice = m.slice /\ p.owner = conns[n]
        /\ \A m \in InFlight(toRelay[n]) : m.type = "RESULT" =>
              /\ m.job <= jobSeq
              /\ m.kind = "right" => Out(n, m.job) \subseteq computed

\* One job at a time: what is out is of this one, each worker's slice once,
\* and is not reported yet.
OneJob ==
    /\ \A p \in pending : p.job = jobSeq /\ busy
    /\ \A p, q \in pending : p.node = q.node => p = q
    /\ \A r \in perNode : r.job <= jobSeq /\ Out(r.node, r.job) = {}
    /\ \A r, s \in perNode : r.job = s.job /\ r.node = s.node => r = s
    /\ \A r \in receipts : r.job <= jobSeq

\* No input of a job is given, or was paid, twice.
Apart ==
    \A p, q \in pending \cup receipts : p.job = q.job /\ p # q => p.slice \cap q.slice = {}

IInv == Typed /\ Connected /\ Carried /\ OneJob /\ Apart /\ receipts \subseteq computed

-----------------------------------------------------------------------------
(* Queues, slots and slices. *)

LEMMA FramesAre ==
    ASSUME NEW S, NEW q \in Seq(S)
    PROVE  /\ \A m \in S : /\ Append(q, m) \in Seq(S)
                           /\ InFlight(Append(q, m)) = InFlight(q) \cup {m}
           /\ InFlight(q) \subseteq S
           /\ q # <<>> => /\ Head(q) \in InFlight(q) /\ Head(q) \in S
                          /\ Tail(q) \in Seq(S) /\ InFlight(Tail(q)) \subseteq InFlight(q)
<1>1. Len(q) \in Nat /\ \A i \in 1 .. Len(q) : q[i] \in S
  BY LenProperties, ElementOfSeq
<1>2. ASSUME NEW m \in S
      PROVE  Append(q, m) \in Seq(S) /\ InFlight(Append(q, m)) = InFlight(q) \cup {m}
  <2>1. /\ Append(q, m) \in Seq(S) /\ Len(Append(q, m)) = Len(q) + 1
        /\ \A i \in 1 .. Len(q) : Append(q, m)[i] = q[i]
        /\ Append(q, m)[Len(q) + 1] = m
    BY AppendProperties
  <2>2. 1 .. Len(q) + 1 = (1 .. Len(q)) \cup {Len(q) + 1}
    BY <1>1
  <2> QED
    BY <2>1, <2>2 DEF InFlight
<1>3. ASSUME q # <<>>
      PROVE  /\ Head(q) \in InFlight(q) /\ Head(q) \in S
             /\ Tail(q) \in Seq(S) /\ InFlight(Tail(q)) \subseteq InFlight(q)
  <2>1. /\ Head(q) = q[1] /\ Len(q) > 0 /\ Tail(q) \in Seq(S) /\ Len(Tail(q)) = Len(q) - 1
        /\ \A i \in 1 .. Len(Tail(q)) : Tail(q)[i] = q[i + 1]
    BY <1>3, HeadTailProperties, EmptySeq, LenProperties
  <2>2. \A i \in 1 .. Len(q) - 1 : i + 1 \in 1 .. Len(q)
    BY <1>1
  <2> QED
    BY <1>1, <2>1, <2>2 DEF InFlight
<1> QED
  BY <1>1, <1>2, <1>3 DEF InFlight

LEMMA NothingInFlight == InFlight(<<>>) = {}
  BY DEF InFlight

\* Two workers of a round robin are given no input in common.
LEMMA SlicesApart ==
    ASSUME NEW k \in Nat \ {0}, NEW i \in 1 .. k, NEW j \in 1 .. k, i # j
    PROVE  Slice(i, k) \cap Slice(j, k) = {}
<1> SUFFICES ASSUME NEW x \in 1 .. MaxInput, (x - i) % k = 0, (x - j) % k = 0
             PROVE  FALSE
  BY DEF Slice
<1>1. x \in Int
  BY MeshAssumption
<1>2. ASSUME NEW y \in Int, y % k = 0
      PROVE  \E a \in Int : y = a * k
  <2>1. y = k * (y \div k) + (y % k) /\ y \div k \in Int
    OBVIOUS
  <2>2. y = (y \div k) * k
    BY <1>2, <2>1
  <2> QED
    BY <2>1, <2>2
<1>i. x - i \in Int /\ x - j \in Int
  BY <1>1
<1>a. PICK a \in Int : x - i = a * k
  BY <1>i, <1>2, Zenon
<1>b. PICK b \in Int : x - j = b * k
  BY <1>i, <1>2, Zenon
<1>3. (a - b) * k = j - i
  BY <1>1, <1>a, <1>b
<1>4. a - b >= 1 => (a - b) * k >= k
  OBVIOUS
<1>5. a - b <= -1 => (a - b) * k <= -k
  OBVIOUS
<1>6. a = b => (a - b) * k = 0
  OBVIOUS
<1> QED
  BY <1>3, <1>4, <1>5, <1>6

-----------------------------------------------------------------------------
(* Steps that leave a part of the state alone. *)

\* Frames that are not of a job, and slices given up, disturb no slice.
LEMMA CarriedStays ==
    ASSUME Carried, pending' \subseteq pending, computed \subseteq computed',
           jobSeq' = jobSeq, conns' = conns,
           \A n \in Nodes : \A m \in InFlight(toNode'[n]) :
               m \in InFlight(toNode[n]) \/ m.type # "JOB",
           \A n \in Nodes : \A m \in InFlight(toRelay'[n]) :
               m \in InFlight(toRelay[n]) \/ m.type # "RESULT"
    PROVE  Carried'
<1> SUFFICES ASSUME NEW n \in Nodes
             PROVE  /\ \A m \in InFlight(toNode'[n]) : m.type = "JOB" =>
                          /\ m.job <= jobSeq
                          /\ \A p \in Out(n, m.job)' : p.slice = m.slice /\ p.owner = conns[n]
                    /\ \A m \in InFlight(toRelay'[n]) : m.type = "RESULT" =>
                          /\ m.job <= jobSeq
                          /\ m.kind = "right" => Out(n, m.job)' \subseteq computed'
  BY DEF Carried
<1>1. \A j : Out(n, j)' \subseteq Out(n, j)
  BY DEF Out
<1>2. \A m \in InFlight(toNode'[n]) : m.type = "JOB" => m \in InFlight(toNode[n])
  OBVIOUS
<1>3. \A m \in InFlight(toRelay'[n]) : m.type = "RESULT" => m \in InFlight(toRelay[n])
  OBVIOUS
<1> QED
  BY <1>1, <1>2, <1>3 DEF Carried

LEMMA JobsStay ==
    ASSUME OneJob, Apart, receipts \subseteq computed,
           UNCHANGED jobVars, computed \subseteq computed'
    PROVE  OneJob' /\ Apart' /\ receipts' \subseteq computed'
  BY DEF OneJob, Apart, Out, jobVars

-----------------------------------------------------------------------------
(* The invariant at the start. *)

LEMMA InitIInv == Init => IInv
<1> SUFFICES ASSUME Init PROVE IInv
  OBVIOUS
<1>1. \A n \in Nodes : toNode[n] = <<>> /\ toRelay[n] = <<>>
  BY DEF Init
<1>2. Typed
  <2>1. <<>> \in Seq(NodeFrames) /\ <<>> \in Seq(RelayFrames)
    BY EmptySeq
  <2>2. 0 \in 0 .. MaxConns /\ 0 \in 0 .. MaxJobs
    BY MeshAssumption
  <2> QED
    BY <2>1, <2>2 DEF Init, Typed, TypeOK
<1>3. Connected
  BY <1>1, NothingInFlight DEF Init, Connected, NoCap
<1>4. Carried
  BY <1>1, NothingInFlight DEF Carried
<1> QED
  BY <1>2, <1>3, <1>4 DEF Init, IInv, OneJob, Apart

-----------------------------------------------------------------------------
(* The network. *)

\* While the bound on the connections is not reached no peer is at it.
LEMMA RoomToConnect ==
    ASSUME Typed, NEW n \in Nodes, Cardinality(Connections) < MaxConns
    PROVE  conns[n] + 1 \in 1 .. MaxConns
<1> DEFINE f == [i \in 1 .. MaxConns |-> <<n, i>>]
<1>1. conns[n] \in 0 .. MaxConns /\ MaxConns \in Nat
  BY MeshAssumption DEF Typed, TypeOK
<1>2. SUFFICES ASSUME conns[n] = MaxConns PROVE FALSE
  BY <1>1
<1>3. f \in Injection(1 .. MaxConns, Connections)
  BY <1>2 DEF Connections, Injection, IsInjective
<1>4. IsFiniteSet(1 .. MaxConns) /\ Cardinality(1 .. MaxConns) = MaxConns
  BY <1>1, FS_Interval
<1>5. IsFiniteSet(Connections)
  <2>1. IsFiniteSet(Nodes \X (1 .. MaxConns))
    BY <1>4, MeshAssumption, FS_Product
  <2> QED
    BY <2>1, FS_Subset DEF Connections
<1> HIDE DEF f
<1>6. MaxConns <= Cardinality(Connections) /\ Cardinality(Connections) \in Nat
  BY <1>3, <1>4, <1>5, FS_Injection, FS_CardinalityType
<1> QED
  BY <1>1, <1>6

LEMMA ConnectStep ==
    ASSUME IInv, NEW n \in Nodes, Connect(n)
    PROVE  IInv'
<1> USE DEF IInv
<1> DEFINE hello == <<[type |-> "SKILL"]>>
<1>1. hello \in Seq(NodeFrames) /\ InFlight(hello) = {[type |-> "SKILL"]}
  BY DEF NodeFrames, InFlight
<1>2. /\ \A x \in Nodes : x # n => /\ wire'[x] = wire[x] /\ conns'[x] = conns[x]
                                   /\ toNode'[x] = toNode[x]
      /\ wire'[n] = TRUE /\ conns'[n] = conns[n] + 1 /\ toNode'[n] = hello
      /\ toRelay' = toRelay /\ sockets' = sockets \cup {n} /\ fleet' = fleet
      /\ ~wire[n] /\ n \notin sockets
  BY DEF Connect, Typed, TypeOK
<1>3. conns[n] + 1 \in 1 .. MaxConns
  BY RoomToConnect DEF Connect
<1> HIDE DEF hello
<1>4. Typed'
  <2>1. toNode' \in [Nodes -> Seq(NodeFrames)]
    BY <1>1 DEF Connect, Typed, hello
  <2>2. conns' \in [Nodes -> 0 .. MaxConns]
    <3>1. conns[n] + 1 \in 0 .. MaxConns
      BY <1>3, MeshAssumption
    <3> QED
      BY <3>1 DEF Connect, Typed, TypeOK
  <2>3. wire' \in [Nodes -> BOOLEAN] /\ skill' \in [Nodes -> {"none", "verified", "ready"}]
    BY DEF Connect, Typed, TypeOK
  <2> QED
    BY <2>1, <2>2, <2>3 DEF Connect, Typed, TypeOK, jobVars, rivalVars
<1>5. toRelay[n] = <<>> /\ ~fleet[n].in
  BY <1>2 DEF Connected
<1>6. Connected'
  <2> SUFFICES ASSUME NEW x \in Nodes
               PROVE  /\ wire'[x] => x \in sockets'
                      /\ ~wire'[x] => toNode'[x] = <<>> /\ toRelay'[x] = <<>>
                      /\ x \in sockets' => conns'[x] \in 1 .. MaxConns
                      /\ fleet'[x].in => x \in sockets' /\ fleet'[x].owner = conns'[x]
                      /\ \A m \in InFlight(toRelay'[x]) :
                            m.type = "CAPABILITY" => m.owner = conns'[x]
    BY DEF Connected
  <2>1. CASE x = n
    BY <1>2, <1>3, <1>5, <2>1, NothingInFlight
  <2>2. CASE x # n
    BY <1>2, <2>2 DEF Connected
  <2> QED
    BY <2>1, <2>2
<1>7. UNCHANGED jobVars /\ computed' = computed
  BY DEF Connect
<1>8. Carried'
  <2> SUFFICES ASSUME NEW x \in Nodes
               PROVE  /\ \A m \in InFlight(toNode'[x]) : m.type = "JOB" =>
                            /\ m.job <= jobSeq
                            /\ \A p \in Out(x, m.job) : p.slice = m.slice /\ p.owner = conns'[x]
                      /\ \A m \in InFlight(toRelay[x]) : m.type = "RESULT" =>
                            /\ m.job <= jobSeq
                            /\ m.kind = "right" => Out(x, m.job) \subseteq computed
    BY <1>2, <1>7 DEF Carried, Out, jobVars
  <2>1. CASE x = n
    BY <1>1, <1>2, <1>5, <2>1, NothingInFlight
  <2>2. CASE x # n
    BY <1>2, <2>2 DEF Carried
  <2> QED
    BY <2>1, <2>2
<1>9. OneJob' /\ Apart' /\ receipts' \subseteq computed'
  BY <1>7, JobsStay
<1> QED
  BY <1>4, <1>6, <1>8, <1>9

LEMMA CutStep ==
    ASSUME IInv, NEW n \in Nodes, Cut(n)
    PROVE  IInv'
<1> USE DEF IInv
<1>1. /\ \A x \in Nodes : x # n => /\ wire'[x] = wire[x] /\ toNode'[x] = toNode[x]
                                   /\ toRelay'[x] = toRelay[x]
      /\ wire'[n] = FALSE /\ toNode'[n] = <<>> /\ toRelay'[n] = <<>>
      /\ conns' = conns /\ UNCHANGED fleetVars /\ UNCHANGED jobVars /\ computed' = computed
  BY DEF Cut, Typed, TypeOK
<1>2. Typed'
  <2>1. <<>> \in Seq(NodeFrames) /\ <<>> \in Seq(RelayFrames)
    BY EmptySeq
  <2>2. /\ toNode' \in [Nodes -> Seq(NodeFrames)] /\ toRelay' \in [Nodes -> Seq(RelayFrames)]
        /\ wire' \in [Nodes -> BOOLEAN] /\ skill' \in [Nodes -> {"none", "verified", "ready"}]
    BY <2>1 DEF Cut, Typed, TypeOK
  <2> QED
    BY <1>1, <2>2 DEF Cut, Typed, TypeOK, fleetVars, jobVars, rivalVars
<1>3. Connected'
  BY <1>1, NothingInFlight DEF Connected, fleetVars
<1>4. Carried'
  BY <1>1, NothingInFlight, CarriedStays DEF jobVars
<1>5. OneJob' /\ Apart' /\ receipts' \subseteq computed'
  BY <1>1, JobsStay
<1> QED
  BY <1>2, <1>3, <1>4, <1>5

LEMMA CloseStep ==
    ASSUME IInv, NEW n \in Nodes, Close(n)
    PROVE  IInv'
<1> USE DEF IInv
<1>1. /\ \A x \in Nodes : x # n => fleet'[x] = fleet[x]
      /\ fleet'[n] = NoCap /\ ~NoCap.in /\ sockets' = sockets \ {n} /\ ~wire[n]
      /\ UNCHANGED <<nodeVars, netVars, jobVars, rivalVars>>
  BY DEF Close, Typed, TypeOK, NoCap
<1>2. Typed'
  <2>1. /\ challenges' \in [Nodes -> 0 .. MaxConns] /\ sockets' \subseteq Nodes
        /\ fleet' \in [Nodes -> {NoCap} \cup [in : {TRUE}, owner : 1 .. MaxConns,
                                              proven : BOOLEAN]]
    <3>1. 0 \in 0 .. MaxConns
      BY MeshAssumption
    <3> QED
      BY <3>1 DEF Close, Typed, TypeOK
  <2> QED
    BY <1>1, <2>1 DEF Typed, TypeOK, nodeVars, netVars, jobVars, rivalVars
<1>3. Connected'
  BY <1>1 DEF Connected, netVars
<1>4. Carried'
  BY <1>1, CarriedStays DEF netVars, jobVars, nodeVars
<1>5. OneJob' /\ Apart' /\ receipts' \subseteq computed'
  BY <1>1, JobsStay DEF nodeVars
<1> QED
  BY <1>2, <1>3, <1>4, <1>5

-----------------------------------------------------------------------------
(* Frames taken and sent. *)

LEMMA FrameShapes ==
    /\ \A m \in NodeFrames : /\ m.type = "CHALLENGE" => m.nonce \in 1 .. MaxConns
                             /\ m.type = "JOB" => /\ m.job \in 1 .. MaxJobs
                                                  /\ m.slice \in SUBSET (1 .. MaxInput)
    /\ \A m \in RelayFrames : /\ m.type = "CAPABILITY" => m.owner \in 1 .. MaxConns
                              /\ m.type = "RESULT" => m.job \in 1 .. MaxJobs
  BY DEF NodeFrames, RelayFrames

LEMMA NodeTakesFrame ==
    ASSUME Typed, NEW n \in Nodes, toNode[n] # <<>>, NodeTakes(n)
    PROVE  /\ toNode' \in [Nodes -> Seq(NodeFrames)]
           /\ \A x \in Nodes : x # n => toNode'[x] = toNode[x]
           /\ \A x \in Nodes : InFlight(toNode'[x]) \subseteq InFlight(toNode[x])
           /\ Head(toNode[n]) \in InFlight(toNode[n]) \cap NodeFrames
<1>1. toNode \in [Nodes -> Seq(NodeFrames)]
  BY DEF Typed
<1>2. /\ Head(toNode[n]) \in InFlight(toNode[n]) \cap NodeFrames
      /\ Tail(toNode[n]) \in Seq(NodeFrames)
      /\ InFlight(Tail(toNode[n])) \subseteq InFlight(toNode[n])
  BY <1>1, FramesAre
<1>3. /\ toNode' \in [Nodes -> Seq(NodeFrames)] /\ toNode'[n] = Tail(toNode[n])
      /\ \A x \in Nodes : x # n => toNode'[x] = toNode[x]
  BY <1>1, <1>2 DEF NodeTakes
<1> QED
  BY <1>2, <1>3

LEMMA RelayTakesFrame ==
    ASSUME Typed, NEW n \in Nodes, toRelay[n] # <<>>, RelayTakes(n)
    PROVE  /\ toRelay' \in [Nodes -> Seq(RelayFrames)]
           /\ \A x \in Nodes : x # n => toRelay'[x] = toRelay[x]
           /\ \A x \in Nodes : InFlight(toRelay'[x]) \subseteq InFlight(toRelay[x])
           /\ Head(toRelay[n]) \in InFlight(toRelay[n]) \cap RelayFrames
<1>1. toRelay \in [Nodes -> Seq(RelayFrames)]
  BY DEF Typed
<1>2. /\ Head(toRelay[n]) \in InFlight(toRelay[n]) \cap RelayFrames
      /\ Tail(toRelay[n]) \in Seq(RelayFrames)
      /\ InFlight(Tail(toRelay[n])) \subseteq InFlight(toRelay[n])
  BY <1>1, FramesAre
<1>3. /\ toRelay' \in [Nodes -> Seq(RelayFrames)] /\ toRelay'[n] = Tail(toRelay[n])
      /\ \A x \in Nodes : x # n => toRelay'[x] = toRelay[x]
  BY <1>1, <1>2 DEF RelayTakes
<1> QED
  BY <1>2, <1>3

LEMMA NodeSendsFrame ==
    ASSUME Typed, NEW n \in Nodes, NEW m \in RelayFrames, NodeSends(n, m)
    PROVE  /\ toRelay' \in [Nodes -> Seq(RelayFrames)]
           /\ \A x \in Nodes : x # n => toRelay'[x] = toRelay[x]
           /\ InFlight(toRelay'[n]) = InFlight(toRelay[n]) \cup {m}
<1>1. toRelay \in [Nodes -> Seq(RelayFrames)]
  BY DEF Typed
<1>2. /\ Append(toRelay[n], m) \in Seq(RelayFrames)
      /\ InFlight(Append(toRelay[n], m)) = InFlight(toRelay[n]) \cup {m}
  BY <1>1, FramesAre
<1> QED
  BY <1>1, <1>2 DEF NodeSends

\* A step over a live connection that leaves every connection as it is.
LEMMA ConnectedStays ==
    ASSUME Connected, NEW n \in Nodes, wire[n], UNCHANGED <<wire, conns, sockets>>,
           \A x \in Nodes : x # n => /\ toNode'[x] = toNode[x] /\ toRelay'[x] = toRelay[x]
                                     /\ fleet'[x] = fleet[x],
           fleet'[n].in => fleet'[n].owner = conns[n],
           \A m \in InFlight(toRelay'[n]) : m.type = "CAPABILITY" => m.owner = conns[n]
    PROVE  Connected'
  BY DEF Connected

\* A frame is in flight on a live connection only.
LEMMA LiveFrames ==
    ASSUME Connected, NEW n \in Nodes, toNode[n] # <<>> \/ toRelay[n] # <<>>
    PROVE  wire[n] /\ n \in sockets /\ conns[n] \in 1 .. MaxConns
  BY DEF Connected

-----------------------------------------------------------------------------
(* A node. *)

LEMMA GetSkillStep ==
    ASSUME IInv, NEW n \in Nodes, GetSkill(n)
    PROVE  IInv'
<1> USE DEF IInv
<1>1. toNode[n] # <<>> /\ NodeTakes(n)
  BY DEF GetSkill, NodeGets
<1>2. wire[n] /\ conns[n] \in 1 .. MaxConns
  BY <1>1, LiveFrames
<1>3. /\ UNCHANGED <<wire, conns, computed, fleetVars, jobVars, rivalVars>>
      /\ skill' \in [Nodes -> {"none", "verified", "ready"}]
  BY DEF GetSkill, Typed, TypeOK
<1>4. /\ toRelay' \in [Nodes -> Seq(RelayFrames)]
      /\ \A x \in Nodes : x # n => toRelay'[x] = toRelay[x]
      /\ \A m \in InFlight(toRelay'[n]) :
            m \in InFlight(toRelay[n]) \/ (m.type = "CAPABILITY" /\ m.owner = conns[n])
  <2>1. CASE n \in Strangers
    <3>1. toRelay' = toRelay
      BY <2>1 DEF GetSkill
    <3>2. toRelay'[n] = toRelay[n] /\ \A x \in Nodes : toRelay'[x] = toRelay[x]
      BY <3>1
    <3>3. toRelay' \in [Nodes -> Seq(RelayFrames)]
      BY <3>1 DEF Typed
    <3> QED
      BY <3>2, <3>3
  <2>2. CASE n \notin Strangers
    <3>1. PICK report : report = [type |-> "CAPABILITY", owner |-> conns[n]]
      OBVIOUS
    <3>2. NodeSends(n, report)
      BY <2>2, <3>1 DEF GetSkill
    <3>3. report.type = "CAPABILITY" /\ report.owner = conns[n] /\ report \in RelayFrames
      BY <1>2, <3>1 DEF RelayFrames
    <3>4. /\ toRelay' \in [Nodes -> Seq(RelayFrames)]
          /\ \A x \in Nodes : x # n => toRelay'[x] = toRelay[x]
          /\ InFlight(toRelay'[n]) = InFlight(toRelay[n]) \cup {report}
      BY <3>2, <3>3, NodeSendsFrame
    <3> QED
      BY <3>3, <3>4
  <2> QED
    BY <2>1, <2>2
<1>5. Typed'
  BY <1>1, <1>3, <1>4, NodeTakesFrame DEF Typed, TypeOK, fleetVars, jobVars, rivalVars
<1>6. Connected'
  BY <1>1, <1>2, <1>3, <1>4, NodeTakesFrame, ConnectedStays DEF Connected, fleetVars
<1>7. Carried'
  BY <1>1, <1>3, <1>4, NodeTakesFrame, CarriedStays DEF jobVars
<1>8. OneJob' /\ Apart' /\ receipts' \subseteq computed'
  BY <1>3, JobsStay
<1> QED
  BY <1>5, <1>6, <1>7, <1>8

LEMMA InstantiatedStep ==
    ASSUME IInv, NEW n \in Nodes, Instantiated(n)
    PROVE  IInv'
<1> USE DEF IInv
<1>1. /\ UNCHANGED <<netVars, computed, fleetVars, jobVars, rivalVars>>
      /\ skill' \in [Nodes -> {"none", "verified", "ready"}]
  BY DEF Instantiated, Typed, TypeOK
<1>2. Typed' /\ Connected'
  BY <1>1 DEF Typed, TypeOK, Connected, netVars, fleetVars, jobVars, rivalVars
<1>3. Carried'
  BY <1>1, CarriedStays DEF netVars, jobVars
<1>4. OneJob' /\ Apart' /\ receipts' \subseteq computed'
  BY <1>1, JobsStay
<1> QED
  BY <1>2, <1>3, <1>4

LEMMA GetChallengeStep ==
    ASSUME IInv, NEW n \in Nodes, GetChallenge(n)
    PROVE  IInv'
<1> USE DEF IInv
<1> DEFINE m == [type |-> "PROOF", nonce |-> Head(toNode[n]).nonce]
<1>1. toNode[n] # <<>> /\ NodeTakes(n) /\ Head(toNode[n]).type = "CHALLENGE"
  BY DEF GetChallenge, NodeGets
<1>2. /\ UNCHANGED <<wire, conns, nodeVars, fleetVars, jobVars, rivalVars>>
      /\ NodeSends(n, m)
  BY DEF GetChallenge
<1>3. m \in RelayFrames /\ m.type = "PROOF"
  BY <1>1, NodeTakesFrame, FrameShapes DEF RelayFrames
<1> HIDE DEF m
<1>4. wire[n]
  BY <1>1, LiveFrames
<1>5. Typed'
  BY <1>1, <1>2, <1>3, NodeTakesFrame, NodeSendsFrame
     DEF Typed, TypeOK, nodeVars, fleetVars, jobVars, rivalVars
<1>6. Connected'
  <2>1. InFlight(toRelay'[n]) = InFlight(toRelay[n]) \cup {m}
    BY <1>2, <1>3, NodeSendsFrame
  <2>2. \A f \in InFlight(toRelay'[n]) : f.type = "CAPABILITY" => f.owner = conns[n]
    BY <1>3, <2>1 DEF Connected
  <2> QED
    BY <1>1, <1>2, <1>3, <1>4, <2>2, NodeTakesFrame, NodeSendsFrame, ConnectedStays
       DEF Connected, fleetVars
<1>7. Carried'
  BY <1>1, <1>2, <1>3, NodeTakesFrame, NodeSendsFrame, CarriedStays DEF jobVars, nodeVars
<1>8. OneJob' /\ Apart' /\ receipts' \subseteq computed'
  BY <1>2, JobsStay DEF nodeVars
<1> QED
  BY <1>5, <1>6, <1>7, <1>8

\* A slice is computed: by the process the relay gave it to, for its owner.
LEMMA GetJobStep ==
    ASSUME IInv, NEW n \in Nodes, GetJob(n)
    PROVE  IInv'
<1> USE DEF IInv
<1>1. PICK m : m = Head(toNode[n])
  OBVIOUS
<1>2. toNode[n] # <<>> /\ NodeTakes(n) /\ m.type = "JOB"
  BY <1>1 DEF GetJob, NodeGets
<1>3. m \in InFlight(toNode[n]) /\ m.job \in 1 .. MaxJobs /\ m.slice \in SUBSET (1 .. MaxInput)
  BY <1>1, <1>2, NodeTakesFrame, FrameShapes
<1>4. wire[n] /\ conns[n] \in 1 .. MaxConns
  BY <1>2, LiveFrames
<1>5. UNCHANGED <<wire, conns, skill, fleetVars, jobVars, rivalVars>>
  BY DEF GetJob
<1> DEFINE Done == [job |-> m.job, node |-> n, slice |-> m.slice, owner |-> conns[n]]
<1>6. PICK kind \in {"right", "wrong", "error"} :
         /\ NodeSends(n, [type |-> "RESULT", job |-> m.job, kind |-> kind])
         /\ \/ kind = "right" /\ computed' = computed \cup {Done}
            \/ kind # "right" /\ computed' = computed
  BY <1>1 DEF GetJob
<1>7. PICK r : r = [type |-> "RESULT", job |-> m.job, kind |-> kind]
  OBVIOUS
<1>8. r \in RelayFrames /\ r.type = "RESULT" /\ r.job = m.job /\ r.kind = kind
  BY <1>3, <1>7 DEF RelayFrames
<1>9. /\ toRelay' \in [Nodes -> Seq(RelayFrames)]
      /\ \A x \in Nodes : x # n => toRelay'[x] = toRelay[x]
      /\ InFlight(toRelay'[n]) = InFlight(toRelay[n]) \cup {r}
  BY <1>6, <1>7, <1>8, NodeSendsFrame
<1>10. /\ toNode' \in [Nodes -> Seq(NodeFrames)]
       /\ \A x \in Nodes : x # n => toNode'[x] = toNode[x]
       /\ \A x \in Nodes : InFlight(toNode'[x]) \subseteq InFlight(toNode[x])
  BY <1>2, NodeTakesFrame
<1>11. Done \in Slots
  BY <1>3, <1>4 DEF Slots
<1>12. kind = "right" => Out(n, m.job) \subseteq {Done}
  <2> SUFFICES ASSUME NEW p \in Out(n, m.job) PROVE p = Done
    OBVIOUS
  <2>1. p \in Slots /\ p.node = n /\ p.job = m.job
    BY DEF Out, Typed, TypeOK
  <2>2. p.slice = m.slice /\ p.owner = conns[n]
    BY <1>2, <1>3 DEF Carried
  <2> QED
    BY <2>1, <2>2 DEF Slots
<1> HIDE DEF Done
<1>13. Typed'
  BY <1>5, <1>6, <1>9, <1>10, <1>11 DEF Typed, TypeOK, fleetVars, jobVars, rivalVars
<1>14. Connected'
  <2>1. \A f \in InFlight(toRelay'[n]) : f.type = "CAPABILITY" => f.owner = conns[n]
    BY <1>8, <1>9 DEF Connected
  <2> QED
    BY <1>4, <1>5, <1>9, <1>10, <2>1, ConnectedStays DEF Connected, fleetVars
<1>15. Carried'
  <2> SUFFICES ASSUME NEW x \in Nodes
               PROVE  /\ \A f \in InFlight(toNode'[x]) : f.type = "JOB" =>
                            /\ f.job <= jobSeq
                            /\ \A p \in Out(x, f.job) : p.slice = f.slice /\ p.owner = conns[x]
                      /\ \A f \in InFlight(toRelay'[x]) : f.type = "RESULT" =>
                            /\ f.job <= jobSeq
                            /\ f.kind = "right" => Out(x, f.job) \subseteq computed'
    BY <1>5 DEF Carried, Out, jobVars
  <2>1. \A f \in InFlight(toNode'[x]) : f \in InFlight(toNode[x])
    BY <1>10
  <2>2. \A f \in InFlight(toRelay'[x]) : f \in InFlight(toRelay[x]) \/ (x = n /\ f = r)
    <3>1. CASE x = n
      BY <1>9, <3>1
    <3>2. CASE x # n
      <4>1. toRelay'[x] = toRelay[x]
        BY <1>9, <3>2
      <4> QED
        BY <4>1
    <3> QED
      BY <3>1, <3>2
  <2>3. m.job <= jobSeq
    BY <1>2, <1>3 DEF Carried
  <2>4. r.job <= jobSeq /\ (r.kind = "right" => Out(n, r.job) \subseteq computed')
    BY <1>6, <1>8, <1>12, <2>3
  <2>5. computed \subseteq computed'
    BY <1>6
  <2> QED
    BY <2>1, <2>2, <2>4, <2>5 DEF Carried
<1>16. OneJob' /\ Apart' /\ receipts' \subseteq computed'
  BY <1>5, <1>6, JobsStay
<1> QED
  BY <1>13, <1>14, <1>15, <1>16

-----------------------------------------------------------------------------
(* The relay. *)

LEMMA GetCapabilityStep ==
    ASSUME IInv, NEW n \in Nodes, GetCapability(n)
    PROVE  IInv'
<1> USE DEF IInv
<1>1. toRelay[n] # <<>> /\ RelayTakes(n) /\ Head(toRelay[n]).type = "CAPABILITY"
  BY DEF GetCapability, RelayGets
<1>2. wire[n] /\ conns[n] \in 1 .. MaxConns
  BY <1>1, LiveFrames
<1>3. Head(toRelay[n]).owner = conns[n]
  BY <1>1, RelayTakesFrame DEF Connected
<1>4. UNCHANGED <<wire, conns, sockets, nodeVars, jobVars, rivalVars>>
  BY DEF GetCapability
<1>5. /\ toNode' \in [Nodes -> Seq(NodeFrames)]
      /\ \A x \in Nodes : x # n => toNode'[x] = toNode[x] /\ fleet'[x] = fleet[x]
      /\ \A f \in InFlight(toNode'[n]) : f \in InFlight(toNode[n]) \/ f.type # "JOB"
      /\ fleet' \in [Nodes -> {NoCap} \cup [in : {TRUE}, owner : 1 .. MaxConns,
                                            proven : BOOLEAN]]
      /\ fleet'[n].in => fleet'[n].owner = conns[n]
      /\ challenges' \in [Nodes -> 0 .. MaxConns]
  <2>1. CASE n \notin Fleet /\ Cardinality(Fleet) >= FleetMax
    <3>1. UNCHANGED <<fleet, challenges, toNode>>
      BY <2>1 DEF GetCapability
    <3> QED
      BY <3>1 DEF Typed, TypeOK, Connected
  <2>2. CASE ~(n \notin Fleet /\ Cardinality(Fleet) >= FleetMax)
    <3>1. PICK m : m = [type |-> "CHALLENGE", nonce |-> conns[n]]
      OBVIOUS
    <3>2. PICK cap : cap = Capability(conns[n])
      OBVIOUS
    <3>3. /\ fleet' = [fleet EXCEPT ![n] = cap]
          /\ challenges' = [challenges EXCEPT ![n] = conns[n]]
          /\ toNode' = [toNode EXCEPT ![n] = Append(toNode[n], m)]
      BY <1>2, <1>3, <2>2, <3>1, <3>2 DEF GetCapability, ToNode
    <3>4. m \in NodeFrames /\ m.type = "CHALLENGE"
      BY <1>2, <3>1 DEF NodeFrames
    <3>5. /\ toNode[n] \in Seq(NodeFrames) /\ Append(toNode[n], m) \in Seq(NodeFrames)
          /\ InFlight(Append(toNode[n], m)) = InFlight(toNode[n]) \cup {m}
      BY <3>4, FramesAre DEF Typed
    <3>6. cap \in [in : {TRUE}, owner : 1 .. MaxConns, proven : BOOLEAN] /\ cap.owner = conns[n]
      BY <1>2, <3>2 DEF Capability
    <3>7. conns[n] \in 0 .. MaxConns
      BY DEF Typed, TypeOK
    <3>8. challenges' \in [Nodes -> 0 .. MaxConns] /\ toNode' \in [Nodes -> Seq(NodeFrames)]
      BY <3>3, <3>5, <3>7 DEF Typed, TypeOK
    <3>9. fleet' \in [Nodes -> {NoCap} \cup [in : {TRUE}, owner : 1 .. MaxConns,
                                             proven : BOOLEAN]]
      BY <3>3, <3>6 DEF Typed, TypeOK
    <3>10. fleet'[n] = cap /\ toNode'[n] = Append(toNode[n], m)
      BY <3>3 DEF Typed, TypeOK
    <3> QED
      BY <3>3, <3>4, <3>5, <3>6, <3>8, <3>9, <3>10
  <2> QED
    BY <2>1, <2>2
<1>6. Typed'
  BY <1>1, <1>4, <1>5, RelayTakesFrame DEF Typed, TypeOK, nodeVars, jobVars, rivalVars
<1>7. Connected'
  <2>1. \A x \in Nodes : InFlight(toRelay'[x]) \subseteq InFlight(toRelay[x])
    BY <1>1, RelayTakesFrame
  <2>2. \A f \in InFlight(toRelay'[n]) : f.type = "CAPABILITY" => f.owner = conns[n]
    BY <2>1 DEF Connected
  <2>3. \A x \in Nodes : x # n => toRelay'[x] = toRelay[x]
    BY <1>1, RelayTakesFrame
  <2> QED
    BY <1>2, <1>4, <1>5, <2>2, <2>3, ConnectedStays
<1>8. Carried'
  BY <1>1, <1>4, <1>5, RelayTakesFrame, CarriedStays DEF nodeVars, jobVars
<1>9. OneJob' /\ Apart' /\ receipts' \subseteq computed'
  BY <1>4, JobsStay DEF nodeVars
<1> QED
  BY <1>6, <1>7, <1>8, <1>9

LEMMA GetProofStep ==
    ASSUME IInv, NEW n \in Nodes, GetProof(n)
    PROVE  IInv'
<1> USE DEF IInv
<1>1. toRelay[n] # <<>> /\ RelayTakes(n)
  BY DEF GetProof, RelayGets
<1>2. wire[n]
  BY <1>1, LiveFrames
<1>3. UNCHANGED <<wire, conns, toNode, sockets, nodeVars, jobVars, rivalVars>>
  BY DEF GetProof
<1>4. /\ \A x \in Nodes : x # n => fleet'[x] = fleet[x]
      /\ fleet' \in [Nodes -> {NoCap} \cup [in : {TRUE}, owner : 1 .. MaxConns,
                                            proven : BOOLEAN]]
      /\ fleet'[n].in => fleet[n].in /\ fleet'[n].owner = fleet[n].owner
      /\ challenges' \in [Nodes -> 0 .. MaxConns]
  <2>1. CASE n \in Fleet /\ challenges[n] # 0 /\ challenges[n] = Head(toRelay[n]).nonce
    <3>1. PICK ok \in {TRUE, n \notin Broken} :
             fleet' = [fleet EXCEPT ![n].proven = fleet[n].proven \/ ok]
      BY <2>1 DEF GetProof
    <3>2. PICK b \in BOOLEAN : fleet' = [fleet EXCEPT ![n].proven = b]
      BY <3>1
    <3>3. fleet[n] \in [in : {TRUE}, owner : 1 .. MaxConns, proven : BOOLEAN]
      <4>1. fleet[n] = NoCap \/ fleet[n] \in [in : {TRUE}, owner : 1 .. MaxConns, proven : BOOLEAN]
        BY DEF Typed, TypeOK
      <4>2. fleet[n].in /\ ~NoCap.in
        BY <2>1 DEF Fleet, NoCap
      <4> QED
        BY <4>1, <4>2
    <3>4. [fleet[n] EXCEPT !.proven = b] \in [in : {TRUE}, owner : 1 .. MaxConns,
                                              proven : BOOLEAN]
      BY <3>3
    <3>5. /\ fleet' \in [Nodes -> {NoCap} \cup [in : {TRUE}, owner : 1 .. MaxConns,
                                                proven : BOOLEAN]]
          /\ fleet'[n] = [fleet[n] EXCEPT !.proven = b]
          /\ \A x \in Nodes : x # n => fleet'[x] = fleet[x]
      BY <3>2, <3>4 DEF Typed, TypeOK
    <3>6. fleet'[n].owner = fleet[n].owner /\ fleet[n].in
      BY <3>3, <3>5
    <3>7. challenges' \in [Nodes -> 0 .. MaxConns]
      <4>1. 0 \in 0 .. MaxConns
        BY MeshAssumption
      <4> QED
        BY <2>1, <4>1 DEF GetProof, Typed, TypeOK
    <3> QED
      BY <3>5, <3>6, <3>7
  <2>2. CASE ~(n \in Fleet /\ challenges[n] # 0 /\ challenges[n] = Head(toRelay[n]).nonce)
    BY <2>2 DEF GetProof, Typed, TypeOK
  <2> QED
    BY <2>1, <2>2
<1>5. Typed'
  BY <1>1, <1>3, <1>4, RelayTakesFrame DEF Typed, TypeOK, nodeVars, jobVars, rivalVars
<1>6. Connected'
  BY <1>1, <1>2, <1>3, <1>4, RelayTakesFrame, ConnectedStays DEF Connected
<1>7. Carried'
  BY <1>1, <1>3, RelayTakesFrame, CarriedStays DEF nodeVars, jobVars
<1>8. OneJob' /\ Apart' /\ receipts' \subseteq computed'
  BY <1>3, JobsStay DEF nodeVars
<1> QED
  BY <1>5, <1>6, <1>7, <1>8

\* A slice that is out leaves it for a report: the report is the first and
\* the last of that worker, and the receipts grow by that slice at most.
LEMMA SliceLeaves ==
    ASSUME OneJob, Apart, receipts \subseteq computed, Typed, NEW p \in pending,
           NEW kind \in {"counted", "timedOut"}, Reported(p, kind), pending' = pending \ {p},
           receipts' = receipts \/ (receipts' = receipts \cup {p} /\ p \in computed),
           jobSeq' = jobSeq, busy' = busy, computed' = computed
    PROVE  /\ OneJob' /\ Apart' /\ receipts' \subseteq computed'
           /\ receipts' \subseteq Slots /\ pending' \subseteq Slots
           /\ perNode' \subseteq [job : 1 .. MaxJobs, node : Nodes, kind : {"counted", "timedOut"}]
<1>1. PICK r : r = [job |-> p.job, node |-> p.node, kind |-> kind]
  OBVIOUS
<1>2. perNode' = perNode \cup {r}
  BY <1>1 DEF Reported
<1>3. p \in Slots /\ pending \subseteq Slots
  BY DEF Typed, TypeOK
<1>4. r \in [job : 1 .. MaxJobs, node : Nodes, kind : {"counted", "timedOut"}]
      /\ r.job = p.job /\ r.node = p.node
  BY <1>1, <1>3 DEF Slots
<1>5. p.job = jobSeq /\ jobSeq \in Nat
  BY DEF OneJob, Typed, TypeOK
<1>6. \A n, j : Out(n, j)' \subseteq Out(n, j)
  BY DEF Out
<1>7. Out(p.node, p.job)' = {}
  <2> SUFFICES ASSUME NEW q \in pending', q.node = p.node PROVE FALSE
    BY DEF Out
  <2>1. q = p
    BY DEF OneJob
  <2> QED
    BY <2>1
<1>8. \A s \in perNode : ~(s.job = p.job /\ s.node = p.node)
  <2> SUFFICES ASSUME NEW s \in perNode, s.job = p.job, s.node = p.node PROVE FALSE
    OBVIOUS
  <2>1. Out(p.node, p.job) = {}
    BY DEF OneJob
  <2> QED
    BY <2>1 DEF Out
<1>9. OneJob'
  <2>1. \A q \in pending' : q.job = jobSeq' /\ busy'
    BY DEF OneJob
  <2>2. \A q, s \in pending' : q.node = s.node => q = s
    BY DEF OneJob
  <2>3. \A s \in perNode' : s.job <= jobSeq' /\ Out(s.node, s.job)' = {}
    <3> SUFFICES ASSUME NEW s \in perNode'
                 PROVE  s.job <= jobSeq' /\ Out(s.node, s.job)' = {}
      OBVIOUS
    <3>1. CASE s \in perNode
      BY <1>6, <3>1 DEF OneJob
    <3>2. CASE s = r
      BY <1>4, <1>5, <1>7, <3>2
    <3> QED
      BY <1>2, <3>1, <3>2
  <2>4. \A s, u \in perNode' : s.job = u.job /\ s.node = u.node => s = u
    BY <1>2, <1>4, <1>8 DEF OneJob
  <2>5. \A s \in receipts' : s.job <= jobSeq'
    BY <1>5 DEF OneJob
  <2> QED
    BY <2>1, <2>2, <2>3, <2>4, <2>5 DEF OneJob
<1>10. Apart'
  <2>1. pending' \cup receipts' \subseteq pending \cup receipts
    OBVIOUS
  <2> QED
    BY <2>1 DEF Apart
<1> QED
  BY <1>2, <1>3, <1>4, <1>9, <1>10 DEF Typed, TypeOK

LEMMA GetResultStep ==
    ASSUME IInv, NEW n \in Nodes, GetResult(n)
    PROVE  IInv'
<1> USE DEF IInv
<1>1. PICK m : m = Head(toRelay[n])
  OBVIOUS
<1>2. toRelay[n] # <<>> /\ RelayTakes(n) /\ m.type = "RESULT" /\ m \in InFlight(toRelay[n])
  BY <1>1, RelayTakesFrame DEF GetResult, RelayGets
<1>3. wire[n]
  BY <1>2, LiveFrames
<1>4. UNCHANGED <<wire, conns, toNode, nodeVars, fleetVars, jobSeq, busy, rivalVars>>
  BY DEF GetResult
<1>5. /\ toRelay' \in [Nodes -> Seq(RelayFrames)]
      /\ \A x \in Nodes : x # n => toRelay'[x] = toRelay[x]
      /\ \A x \in Nodes : InFlight(toRelay'[x]) \subseteq InFlight(toRelay[x])
  BY <1>2, RelayTakesFrame
<1>6. /\ OneJob' /\ Apart' /\ receipts' \subseteq computed'
      /\ receipts' \subseteq Slots /\ pending' \subseteq Slots /\ pending' \subseteq pending
      /\ perNode' \subseteq [job : 1 .. MaxJobs, node : Nodes, kind : {"counted", "timedOut"}]
  <2>1. CASE Out(n, m.job) = {}
    <3>1. UNCHANGED <<pending, perNode, receipts>>
      BY <1>1, <2>1 DEF GetResult
    <3> QED
      BY <1>4, <3>1, JobsStay DEF jobVars, nodeVars, Typed, TypeOK
  <2>2. CASE Out(n, m.job) # {}
    <3>1. PICK p \in Out(n, m.job) :
             /\ pending' = pending \ {p}
             /\ Reported(p, IF m.kind = "error" THEN "timedOut" ELSE "counted")
             /\ receipts' = IF m.kind = "right" THEN receipts \cup {p} ELSE receipts
      BY <1>1, <2>2 DEF GetResult
    <3>2. PICK kind \in {"counted", "timedOut"} : Reported(p, kind)
      BY <3>1
    <3>3. m.kind = "right" => p \in computed
      BY <1>2, <3>1 DEF Carried
    <3>4. p \in pending
      BY <3>1 DEF Out
    <3>5. receipts' = receipts \/ (receipts' = receipts \cup {p} /\ p \in computed)
      BY <3>1, <3>3
    <3>6. jobSeq' = jobSeq /\ busy' = busy /\ computed' = computed
      BY <1>4 DEF nodeVars
    <3> QED
      BY <3>1, <3>2, <3>4, <3>5, <3>6, SliceLeaves
  <2> QED
    BY <2>1, <2>2
<1>7. Typed'
  BY <1>4, <1>5, <1>6 DEF Typed, TypeOK, nodeVars, fleetVars, rivalVars
<1>8. Connected'
  <2>1. \A f \in InFlight(toRelay'[n]) : f.type = "CAPABILITY" => f.owner = conns[n]
    BY <1>5 DEF Connected
  <2> QED
    BY <1>3, <1>4, <1>5, <2>1, ConnectedStays DEF Connected, fleetVars
<1>9. Carried'
  BY <1>4, <1>5, <1>6, CarriedStays DEF nodeVars
<1> QED
  BY <1>6, <1>7, <1>8, <1>9

LEMMA JobTimeoutStep ==
    ASSUME IInv, NEW p \in pending, JobTimeout(p)
    PROVE  IInv'
<1> USE DEF IInv
<1>1. /\ pending' = pending \ {p} /\ Reported(p, "timedOut")
      /\ UNCHANGED <<netVars, nodeVars, fleetVars, jobSeq, busy, receipts, rivalVars>>
  BY DEF JobTimeout
<1>2. /\ OneJob' /\ Apart' /\ receipts' \subseteq computed'
      /\ receipts' \subseteq Slots /\ pending' \subseteq Slots
      /\ perNode' \subseteq [job : 1 .. MaxJobs, node : Nodes, kind : {"counted", "timedOut"}]
  BY <1>1, SliceLeaves DEF nodeVars
<1>3. Typed' /\ Connected'
  BY <1>1, <1>2 DEF Typed, TypeOK, Connected, netVars, nodeVars, fleetVars, rivalVars
<1>4. Carried'
  BY <1>1, CarriedStays DEF netVars, nodeVars
<1> QED
  BY <1>2, <1>3, <1>4

LEMMA JobEndsStep == IInv /\ JobEnds => IInv'
<1> SUFFICES ASSUME IInv, JobEnds PROVE IInv'
  OBVIOUS
<1> USE DEF IInv
<1>1. /\ UNCHANGED <<netVars, nodeVars, fleetVars, jobSeq, pending, perNode, receipts, rivalVars>>
      /\ busy' = FALSE /\ pending = {}
  BY DEF JobEnds, OneJob
<1>2. Typed' /\ Connected'
  BY <1>1 DEF Typed, TypeOK, Connected, netVars, nodeVars, fleetVars, rivalVars
<1>3. Carried'
  BY <1>1, CarriedStays DEF netVars, nodeVars
<1>4. OneJob' /\ Apart' /\ receipts' \subseteq computed'
  BY <1>1 DEF OneJob, Apart, Out, nodeVars
<1> QED
  BY <1>2, <1>3, <1>4

LEMMA RivalStep == IInv /\ (RivalDies \/ RelayHello \/ RivalExpires \/ UNCHANGED vars) => IInv'
<1> SUFFICES ASSUME IInv, RivalDies \/ RelayHello \/ RivalExpires \/ UNCHANGED vars PROVE IInv'
  OBVIOUS
<1> USE DEF IInv
<1>1. UNCHANGED <<netVars, nodeVars, fleetVars, jobVars>>
  BY DEF RivalDies, RelayHello, RivalExpires, vars
<1>2. rivalUp' \in BOOLEAN /\ aliveRival' \in BOOLEAN
  BY DEF RivalDies, RelayHello, RivalExpires, vars, rivalVars, Typed, TypeOK
<1>3. Typed' /\ Connected'
  BY <1>1, <1>2 DEF Typed, TypeOK, Connected, netVars, nodeVars, fleetVars, jobVars
<1>4. Carried'
  BY <1>1, CarriedStays DEF netVars, nodeVars, jobVars
<1>5. OneJob' /\ Apart' /\ receipts' \subseteq computed'
  BY <1>1, JobsStay DEF nodeVars
<1> QED
  BY <1>3, <1>4, <1>5

\* A job goes out: nothing of another is out any more, each worker's slice is
\* new, in the name of the process it is sent to, and apart from the others.
LEMMA DispatchStep == IInv /\ Dispatch => IInv'
<1> SUFFICES ASSUME IInv, Dispatch PROVE IInv'
  OBVIOUS
<1> USE DEF IInv
<1>1. PICK k : k = Cardinality(Workers)
  OBVIOUS
<1>2. PICK turn \in [Workers -> 1 .. k], unsent \in SUBSET {n \in Workers : ~wire[n]} :
         /\ \A n, m \in Workers : turn[n] = turn[m] => n = m
         /\ pending' = pending \cup
               {[job |-> jobSeq + 1, node |-> n, slice |-> Slice(turn[n], k),
                 owner |-> fleet[n].owner] : n \in Workers \ unsent}
         /\ toNode' = [n \in Nodes |->
               IF n \in Workers
               THEN ToNode(n, [type |-> "JOB", job |-> jobSeq + 1, slice |-> Slice(turn[n], k)])
               ELSE toNode[n]]
  BY <1>1 DEF Dispatch
<1>3. /\ ~busy /\ jobSeq < MaxJobs /\ Workers # {} /\ jobSeq' = jobSeq + 1 /\ busy' = TRUE
      /\ UNCHANGED <<wire, conns, toRelay, nodeVars, fleetVars, perNode, receipts, rivalVars>>
  BY DEF Dispatch
<1>4. /\ Workers \subseteq Nodes
      /\ \A n \in Workers : /\ n \in sockets /\ fleet[n].owner = conns[n]
                            /\ conns[n] \in 1 .. MaxConns
  BY DEF Workers, Fleet, Connected
<1>5. k \in Nat \ {0}
  <2>1. IsFiniteSet(Workers)
    BY <1>4, MeshAssumption, FS_Subset
  <2> QED
    BY <1>1, <1>3, <2>1, FS_CardinalityType, FS_EmptySet
<1>6. jobSeq \in Nat /\ jobSeq + 1 \in 1 .. MaxJobs /\ jobSeq + 1 \in 0 .. MaxJobs
  BY <1>3, MeshAssumption DEF Typed, TypeOK
<1>7. pending = {}
  BY <1>3 DEF OneJob
\* The slices.
<1>8. ASSUME NEW p \in pending'
      PROVE  /\ p \in Slots /\ p.job = jobSeq + 1 /\ p.node \in Workers
             /\ p.slice = Slice(turn[p.node], k) /\ p.owner = conns[p.node]
             /\ p = [job |-> jobSeq + 1, node |-> p.node, slice |-> Slice(turn[p.node], k),
                     owner |-> fleet[p.node].owner]
  <2>1. PICK n \in Workers :
           p = [job |-> jobSeq + 1, node |-> n, slice |-> Slice(turn[n], k),
                owner |-> fleet[n].owner]
    BY <1>2, <1>7, <1>8
  <2>2. Slice(turn[n], k) \subseteq 1 .. MaxInput
    BY DEF Slice
  <2> QED
    BY <1>4, <1>6, <2>1, <2>2 DEF Slots
<1>9. \A p, q \in pending' : p.node = q.node => p = q
  BY <1>8
<1>10. \A p, q \in pending' : p # q => p.slice \cap q.slice = {}
  <2> SUFFICES ASSUME NEW p \in pending', NEW q \in pending', p # q
               PROVE  p.slice \cap q.slice = {}
    OBVIOUS
  <2>1. p.node \in Workers /\ q.node \in Workers /\ p.node # q.node
    BY <1>8, <1>9
  <2>2. turn[p.node] \in 1 .. k /\ turn[q.node] \in 1 .. k /\ turn[p.node] # turn[q.node]
    BY <1>2, <2>1
  <2> QED
    BY <1>5, <1>8, <2>2, SlicesApart
\* The frames.
<1>11. ASSUME NEW n \in Nodes
       PROVE  /\ toNode'[n] \in Seq(NodeFrames)
              /\ ~wire[n] => toNode'[n] = toNode[n]
              /\ \A m \in InFlight(toNode'[n]) :
                    \/ m \in InFlight(toNode[n])
                    \/ m.job = jobSeq + 1 /\ m.slice = Slice(turn[n], k)
  <2>1. toNode[n] \in Seq(NodeFrames)
    BY DEF Typed
  <2>2. CASE n \in Workers /\ wire[n]
    <3>1. PICK m : m = [type |-> "JOB", job |-> jobSeq + 1, slice |-> Slice(turn[n], k)]
      OBVIOUS
    <3>2. m \in NodeFrames /\ m.job = jobSeq + 1 /\ m.slice = Slice(turn[n], k)
      BY <1>6, <3>1 DEF NodeFrames, Slice
    <3>3. toNode'[n] = Append(toNode[n], m)
      BY <1>2, <2>2, <3>1 DEF ToNode
    <3> QED
      BY <2>1, <2>2, <3>2, <3>3, FramesAre
  <2>3. CASE ~(n \in Workers /\ wire[n])
    <3>1. toNode'[n] = toNode[n]
      BY <1>2, <2>3 DEF ToNode
    <3> QED
      BY <2>1, <3>1
  <2> QED
    BY <2>2, <2>3
<1>12. Typed'
  <2>1. toNode' \in [Nodes -> Seq(NodeFrames)]
    <3>1. \E g : toNode' = [n \in Nodes |-> g[n]]
      <4> DEFINE g == [n \in Nodes |->
               IF n \in Workers
               THEN ToNode(n, [type |-> "JOB", job |-> jobSeq + 1, slice |-> Slice(turn[n], k)])
               ELSE toNode[n]]
      <4>1. toNode' = g /\ g = [n \in Nodes |-> g[n]]
        BY <1>2
      <4> QED
        BY <4>1
    <3> QED
      BY <1>11, <3>1
  <2>2. pending' \subseteq Slots
    BY <1>8
  <2> QED
    BY <1>3, <1>6, <2>1, <2>2 DEF Typed, TypeOK, nodeVars, fleetVars, rivalVars
<1>13. Connected'
  BY <1>3, <1>11 DEF Connected, fleetVars
<1>14. Carried'
  <2> SUFFICES ASSUME NEW n \in Nodes
               PROVE  /\ \A m \in InFlight(toNode'[n]) : m.type = "JOB" =>
                            /\ m.job <= jobSeq + 1
                            /\ \A p \in Out(n, m.job)' : p.slice = m.slice /\ p.owner = conns[n]
                      /\ \A m \in InFlight(toRelay[n]) : m.type = "RESULT" =>
                            /\ m.job <= jobSeq + 1
                            /\ m.kind = "right" => Out(n, m.job)' \subseteq computed
    BY <1>3 DEF Carried, nodeVars
  <2>1. \A j : j <= jobSeq => Out(n, j)' = {}
    <3> SUFFICES ASSUME NEW j, j <= jobSeq, NEW p \in pending', p.job = j PROVE FALSE
      BY DEF Out
    <3> QED
      BY <1>6, <1>8
  <2>2. \A p \in pending' : p.node = n => p.slice = Slice(turn[n], k) /\ p.owner = conns[n]
    BY <1>8
  <2>3. ASSUME NEW m \in InFlight(toNode'[n]), m.type = "JOB"
        PROVE  m.job <= jobSeq + 1 /\ \A p \in Out(n, m.job)' : p.slice = m.slice /\ p.owner = conns[n]
    <3>1. CASE m \in InFlight(toNode[n])
      <4>1. m.job <= jobSeq /\ m.job \in Nat
        <5>1. m \in NodeFrames
          BY <3>1, FramesAre DEF Typed
        <5> QED
          BY <2>3, <3>1, <5>1, FrameShapes DEF Carried
      <4> QED
        BY <1>6, <2>1, <4>1
    <3>2. CASE m.job = jobSeq + 1 /\ m.slice = Slice(turn[n], k)
      <4>1. m.job <= jobSeq + 1
        BY <1>6, <3>2
      <4>2. ASSUME NEW p \in Out(n, m.job)' PROVE p.slice = m.slice /\ p.owner = conns[n]
        <5>1. p \in pending' /\ p.node = n
          BY <4>2 DEF Out
        <5> QED
          BY <2>2, <3>2, <5>1
      <4> QED
        BY <4>1, <4>2
    <3> QED
      BY <1>11, <3>1, <3>2
  <2>4. ASSUME NEW m \in InFlight(toRelay[n]), m.type = "RESULT"
        PROVE  m.job <= jobSeq + 1 /\ Out(n, m.job)' = {}
    <3>1. m.job <= jobSeq /\ m.job \in Nat
      <4>1. m \in RelayFrames
        BY FramesAre DEF Typed
      <4> QED
        BY <2>4, <4>1, FrameShapes DEF Carried
    <3> QED
      BY <1>6, <2>1, <3>1
  <2> QED
    BY <2>3, <2>4
<1>15. OneJob'
  <2>1. \A r \in perNode : r.job \in Nat /\ r.job <= jobSeq
    BY DEF OneJob, Typed, TypeOK
  <2>2. \A r \in receipts : r.job \in Nat /\ r.job <= jobSeq
    BY DEF OneJob, Typed, TypeOK, Slots
  <2>3. \A r \in perNode : Out(r.node, r.job)' = {}
    <3> SUFFICES ASSUME NEW r \in perNode, NEW p \in pending', p.job = r.job PROVE FALSE
      BY DEF Out
    <3> QED
      BY <1>6, <1>8, <2>1
  <2> QED
    BY <1>3, <1>6, <1>8, <1>9, <2>1, <2>2, <2>3 DEF OneJob
<1>16. Apart'
  <2>1. \A p \in pending', r \in receipts : p.job # r.job
    <3>1. \A r \in receipts : r.job \in Nat /\ r.job <= jobSeq
      BY DEF OneJob, Typed, TypeOK, Slots
    <3> QED
      BY <1>6, <1>8, <3>1
  <2> QED
    BY <1>3, <1>10, <2>1 DEF Apart
<1> QED
  BY <1>3, <1>12, <1>13, <1>14, <1>15, <1>16 DEF nodeVars

LEMMA NextIInv == IInv /\ [Next]_vars => IInv'
<1> SUFFICES ASSUME IInv, [Next]_vars PROVE IInv'
  OBVIOUS
<1>1. CASE \E n \in Nodes : Connect(n) \/ Cut(n) \/ Close(n)
  BY <1>1, ConnectStep, CutStep, CloseStep
<1>2. CASE \E n \in Nodes : GetSkill(n) \/ Instantiated(n) \/ GetChallenge(n) \/ GetJob(n)
  BY <1>2, GetSkillStep, InstantiatedStep, GetChallengeStep, GetJobStep
<1>3. CASE \E n \in Nodes : GetCapability(n) \/ GetProof(n) \/ GetResult(n)
  BY <1>3, GetCapabilityStep, GetProofStep, GetResultStep
<1>4. CASE \E p \in pending : JobTimeout(p)
  BY <1>4, JobTimeoutStep
<1>5. CASE Dispatch \/ JobEnds
  BY <1>5, DispatchStep, JobEndsStep
<1>6. CASE RivalDies \/ RelayHello \/ RivalExpires \/ UNCHANGED vars
  BY <1>6, RivalStep
<1> QED
  BY <1>1, <1>2, <1>3, <1>4, <1>5, <1>6 DEF Next

THEOREM Invariance == Spec => []IInv
  BY InitIInv, NextIInv, PTL DEF Spec

\* The relay's tables and the frames in flight keep their shapes.
THEOREM TypeCorrect == Spec => []TypeOK
<1>1. IInv => TypeOK
  BY DEF IInv, Typed
<1> QED
  BY <1>1, Invariance, PTL

(***************************************************************************)
(* A receipt names who computed: the relay reads the owner from the fleet  *)
(* when the slice goes out and credits it when the result comes, and       *)
(* neither a node that came back for another owner, nor a late or a wrong  *)
(* result, nor the round robin pays the wrong one, or one input twice.     *)
(***************************************************************************)
THEOREM CreditWhereDueCorrect == Spec => []CreditWhereDue
<1>1. IInv => CreditWhereDue
  BY DEF IInv, Apart, CreditWhereDue
<1> QED
  BY <1>1, Invariance, PTL

(***************************************************************************)
(* The report of a job is final: a slice has one entry, made when it left  *)
(* the pending table, and neither the entries nor the receipts of a job    *)
(* that is over change when a result comes after its timer.                *)
(***************************************************************************)
THEOREM ReportIsFinalCorrect == Spec => ReportIsFinal
<1> DEFINE Final ==
             /\ \A j \in 1 .. jobSeq : Over(j) =>
                   {r \in perNode' : r.job = j} = {r \in perNode : r.job = j}
                   /\ {r \in receipts' : r.job = j} = {r \in receipts : r.job = j}
             /\ \A r, s \in perNode' : r.job = s.job /\ r.node = s.node => r = s
<1>1. IInv /\ IInv' /\ [Next]_vars => [Final]_vars
  <2> SUFFICES ASSUME IInv, IInv', [Next]_vars PROVE Final
    OBVIOUS
  <2>1. \A r, s \in perNode' : r.job = s.job /\ r.node = s.node => r = s
    BY DEF IInv, OneJob
  <2>2. \/ UNCHANGED <<perNode, receipts>>
        \/ \E p \in pending, kind \in {"counted", "timedOut"} :
              Reported(p, kind) /\ receipts' \in {receipts, receipts \cup {p}}
    <3>1. CASE \E n \in Nodes : GetResult(n)
      <4>1. PICK n \in Nodes : GetResult(n)
        BY <3>1
      <4>2. CASE Out(n, Head(toRelay[n]).job) = {}
        BY <4>1, <4>2 DEF GetResult
      <4>3. CASE Out(n, Head(toRelay[n]).job) # {}
        BY <4>1, <4>3 DEF GetResult, Out
      <4> QED
        BY <4>2, <4>3
    <3>2. CASE \E p \in pending : JobTimeout(p)
      BY <3>2 DEF JobTimeout
    <3>3. CASE ~(\E n \in Nodes : GetResult(n)) /\ ~(\E p \in pending : JobTimeout(p))
      BY <3>3 DEF Next, Connect, Cut, Close, GetSkill, Instantiated, GetChallenge, GetJob,
                  GetCapability, GetProof, Dispatch, JobEnds, RivalDies, RelayHello,
                  RivalExpires, jobVars, vars
    <3> QED
      BY <3>1, <3>2, <3>3
  <2>3. ASSUME NEW j \in 1 .. jobSeq, Over(j)
        PROVE  /\ {r \in perNode' : r.job = j} = {r \in perNode : r.job = j}
               /\ {r \in receipts' : r.job = j} = {r \in receipts : r.job = j}
    <3>1. \A p \in pending : p.job # j
      BY <2>3 DEF Over, IInv, OneJob
    <3>2. CASE UNCHANGED <<perNode, receipts>>
      BY <3>2
    <3>3. ASSUME NEW p \in pending, NEW kind \in {"counted", "timedOut"}, Reported(p, kind),
                 receipts' \in {receipts, receipts \cup {p}}
          PROVE  /\ {r \in perNode' : r.job = j} = {r \in perNode : r.job = j}
                 /\ {r \in receipts' : r.job = j} = {r \in receipts : r.job = j}
      BY <3>1, <3>3 DEF Reported
    <3> QED
      BY <2>2, <3>2, <3>3
  <2> QED
    BY <2>1, <2>3
<1> QED
  BY <1>1, Invariance, PTL DEF Spec, ReportIsFinal
-----------------------------------------------------------------------------
(* The relay implements the job ledger.                                     *)

Quiet == UNCHANGED <<jobVars, computed>>

LEMMA QuietSteps ==
    ASSUME NEW n \in Nodes,
           \/ Connect(n) \/ Cut(n) \/ Close(n)
           \/ GetSkill(n) \/ Instantiated(n) \/ GetChallenge(n)
           \/ GetCapability(n) \/ GetProof(n)
    PROVE  Quiet
  BY DEF Connect, Cut, Close, GetSkill, Instantiated, GetChallenge, GetCapability, GetProof,
         Quiet, nodeVars

LEMMA DispatchPosts ==
    ASSUME IInv', Dispatch
    PROVE  Ledger!Post
<1>1. /\ ~busy /\ busy' = TRUE /\ jobSeq' = jobSeq + 1
      /\ UNCHANGED <<perNode, receipts, computed>>
  BY DEF Dispatch, nodeVars
<1>2. pending' \subseteq [job : {jobSeq'}, node : Nodes, slice : SUBSET (1 .. MaxInput),
                          owner : 1 .. MaxConns]
  <2> SUFFICES ASSUME NEW p \in pending'
               PROVE  p \in [job : {jobSeq'}, node : Nodes, slice : SUBSET (1 .. MaxInput),
                             owner : 1 .. MaxConns]
    OBVIOUS
  <2>1. p \in Slots /\ p.job = jobSeq'
    BY DEF IInv, Typed, TypeOK, OneJob
  <2> QED
    BY <2>1 DEF Slots
<1>3. \A p, q \in pending' : p # q => p.node # q.node /\ p.slice \cap q.slice = {}
  BY DEF IInv, OneJob, Apart
<1> QED
  BY <1>1, <1>2, <1>3 DEF Ledger!Post

\* A slice is computed: of the job that is out, or of one that is over.
LEMMA GetJobComputes ==
    ASSUME IInv, NEW n \in Nodes, GetJob(n)
    PROVE  Quiet \/ Ledger!Compute
<1>1. PICK m : m = Head(toNode[n])
  OBVIOUS
<1>2. UNCHANGED jobVars
  BY DEF GetJob
<1>3. CASE computed' = computed
  BY <1>2, <1>3 DEF Quiet
<1>4. CASE computed' = computed \cup
             {[job |-> m.job, node |-> n, slice |-> m.slice, owner |-> conns[n]]}
  <2>1. toNode[n] # <<>> /\ NodeTakes(n) /\ m.type = "JOB"
    BY <1>1 DEF GetJob, NodeGets
  <2>2. m \in InFlight(toNode[n]) /\ m \in NodeFrames
    BY <1>1, <2>1, NodeTakesFrame, FramesAre DEF IInv, Typed
  <2>3. m.job \in 1 .. MaxJobs /\ m.job <= jobSeq
    BY <2>1, <2>2, FrameShapes DEF IInv, Carried
  <2>4. m.job \in 1 .. jobSeq
    BY <2>3 DEF IInv, Typed, TypeOK
  <2> QED
    BY <1>2, <1>4, <2>4 DEF Ledger!Compute, jobVars
<1> QED
  BY <1>1, <1>3, <1>4 DEF GetJob

\* A slice is settled by a result or by its timer, whichever comes first.
LEMMA SliceSettles ==
    ASSUME OneJob, NEW p \in pending, NEW kind \in {"counted", "timedOut"},
           Reported(p, kind), pending' = pending \ {p},
           \/ receipts' = receipts
           \/ receipts' = receipts \cup {p} /\ p \in computed /\ kind = "counted",
           jobSeq' = jobSeq, busy' = busy, computed' = computed
    PROVE  Ledger!Settle(p, kind)
<1>1. \A r \in perNode : ~(r.job = p.job /\ r.node = p.node)
  BY DEF OneJob, Out
<1>2. \/ receipts' = receipts
      \/ kind = "counted" /\ p \in computed \ receipts /\ receipts' = receipts \cup {p}
  OBVIOUS
<1> QED
  BY <1>1, <1>2 DEF Ledger!Settle, Reported

LEMMA GetResultSettles ==
    ASSUME IInv, NEW n \in Nodes, GetResult(n)
    PROVE  Quiet \/ \E p \in pending, kind \in {"counted", "timedOut"} : Ledger!Settle(p, kind)
<1>1. PICK m : m = Head(toRelay[n])
  OBVIOUS
<1>2. toRelay[n] # <<>> /\ m.type = "RESULT" /\ m \in InFlight(toRelay[n])
  BY <1>1, RelayTakesFrame DEF IInv, GetResult, RelayGets
<1>3. jobSeq' = jobSeq /\ busy' = busy /\ computed' = computed
  BY DEF GetResult, nodeVars
<1>4. CASE Out(n, m.job) = {}
  BY <1>1, <1>3, <1>4 DEF GetResult, Quiet, jobVars
<1>5. CASE Out(n, m.job) # {}
  <2>1. PICK p \in Out(n, m.job) :
           /\ pending' = pending \ {p}
           /\ Reported(p, IF m.kind = "error" THEN "timedOut" ELSE "counted")
           /\ receipts' = IF m.kind = "right" THEN receipts \cup {p} ELSE receipts
    BY <1>1, <1>5 DEF GetResult
  <2>2. PICK kind \in {"counted", "timedOut"} :
           Reported(p, kind) /\ (m.kind = "right" => kind = "counted")
    BY <2>1
  <2>3. m.kind = "right" => p \in computed
    BY <1>2, <2>1 DEF IInv, Carried
  <2>4. p \in pending
    BY <2>1 DEF Out
  <2>5. Ledger!Settle(p, kind)
    BY <1>3, <2>1, <2>2, <2>3, <2>4, SliceSettles DEF IInv
  <2> QED
    BY <2>4, <2>5
<1> QED
  BY <1>4, <1>5

LEMMA StepRefines == IInv /\ IInv' /\ [Next]_vars => [Ledger!LedgerNext]_(Ledger!ledger)
<1> SUFFICES ASSUME IInv, IInv', [Next]_vars PROVE Quiet \/ Ledger!LedgerNext
  BY DEF Quiet, jobVars, Ledger!ledger
<1>1. CASE \E n \in Nodes : \/ Connect(n) \/ Cut(n) \/ Close(n)
                            \/ GetSkill(n) \/ Instantiated(n) \/ GetChallenge(n)
                            \/ GetCapability(n) \/ GetProof(n)
  BY <1>1, QuietSteps
<1>2. CASE \E n \in Nodes : GetJob(n)
  BY <1>2, GetJobComputes DEF Ledger!LedgerNext
<1>3. CASE \E n \in Nodes : GetResult(n)
  BY <1>3, GetResultSettles DEF Ledger!LedgerNext
<1>4. CASE \E p \in pending : JobTimeout(p)
  <2>1. PICK p \in pending : JobTimeout(p)
    BY <1>4
  <2>2. Ledger!Settle(p, "timedOut")
    BY <2>1, SliceSettles DEF JobTimeout, nodeVars, IInv
  <2> QED
    BY <2>2 DEF Ledger!LedgerNext
<1>5. CASE Dispatch
  BY <1>5, DispatchPosts DEF Ledger!LedgerNext
<1>6. CASE JobEnds
  <2>1. pending = {}
    BY <1>6 DEF JobEnds, IInv, OneJob
  <2>2. Ledger!Finish
    BY <1>6, <2>1 DEF JobEnds, nodeVars, Ledger!Finish
  <2> QED
    BY <2>2 DEF Ledger!LedgerNext
<1>7. CASE RivalDies \/ RelayHello \/ RivalExpires \/ UNCHANGED vars
  BY <1>7 DEF RivalDies, RelayHello, RivalExpires, vars, Quiet, nodeVars
<1> QED
  BY <1>1, <1>2, <1>3, <1>4, <1>5, <1>6, <1>7 DEF Next

(***************************************************************************)
(* Over a network that loses, delays and cuts, with nodes that come back   *)
(* for other owners and timers that race their answers, the relay's tables *)
(* are a job ledger: one job at a time, its slices apart, each settled     *)
(* once before the job is over, and paid only where it was computed.       *)
(***************************************************************************)
THEOREM RefinementCorrect == Spec => ImplementsJobLedger
<1>1. Init => Ledger!LedgerInit
  BY DEF Init, Ledger!LedgerInit
<1> QED
  BY <1>1, Invariance, StepRefines, PTL DEF Spec, ImplementsJobLedger, Ledger!LedgerSpec

-----------------------------------------------------------------------------
(***************************************************************************)
(* Evolution: the learning of skills. Every example a capture carries, a   *)
(* row holds or a night compiles is an answer the model gave for that      *)
(* intent (Grounded). While nothing fails and the captures of an intent do *)
(* not overlap, its row is the only one and holds the last answer to each  *)
(* operand, and a night has compiled, or has still to compile, every row   *)
(* it read (Learning).                                                     *)
(***************************************************************************)

(* Where a skill comes from. *)

Stages == {"none", "matched", "model", "observed", "read", "deleted", "served", "done"}
Examples(i) == {<<s[2], s[3]>> : s \in {t \in said : t[1] = i}}

\* These are answers the model gave for intent i.
Observed(i, ex) == ex \subseteq Examples(i) /\ IsFiniteSet(ex)
From(i, hash) == \E ex : Observed(i, ex) /\ hash = Induced(ex)

\* A capture merges answers of the model only, from the one it observed to the
\* row it adds, and a night compiles what the rows hold.
RequestOK(r) ==
    /\ req[r] = [stage |-> req[r].stage, intent |-> req[r].intent, x |-> req[r].x,
                 y |-> req[r].y, ex |-> req[r].ex, skill |-> req[r].skill]
    /\ req[r].stage \in Stages
    /\ req[r].stage \in {"matched", "model", "observed", "read", "deleted"} => req[r].intent \in Intents
    /\ req[r].stage \in {"observed", "read"} => <<req[r].intent, req[r].x, req[r].y>> \in said
    /\ Capturing(r) => Observed(req[r].intent, req[r].ex)

Grounded ==
    /\ req = [r \in Requests |-> req[r]] /\ \A r \in Requests : RequestOK(r)
    /\ \A w \in rows : w.intent \in Intents /\ Observed(w.intent, w.ex)
    /\ shift = [on |-> shift.on, todo |-> shift.todo, reg |-> shift.reg, read |-> shift.read]
    /\ shift.on \in BOOLEAN
    /\ \A d \in shift.todo : d.intent \in Intents /\ From(d.intent, d.hash)
    /\ \A w \in shift.read : w.intent \in Intents
    /\ files = [i \in Intents |-> files[i]]
    /\ \A i \in Intents : files[i] \in {None, Torn} \/ From(i, files[i])

(* What a calm night learns. *)

Descriptor(w) == [intent |-> w.intent, hash |-> Induced(w.ex)]
Compiled(w) == files[w.intent] = Induced(w.ex)

\* Captures of one intent come one after the other, so its row is the only one
\* and holds the last answer to each operand.
Orderly ==
    /\ latest = [i \in Intents |-> latest[i]]
    /\ \A r, s \in Requests : Capturing(r) /\ Capturing(s) /\ req[r].intent = req[s].intent => r = s
    /\ \A w, v \in rows : w.intent = v.intent => w = v
    /\ \A w \in rows : w.ex = latest[w.intent]
    /\ \A i \in Intents : latest[i] # {} =>
          RowsOf(i) # {} \/ \E r \in Requests : req[r].stage = "deleted" /\ req[r].intent = i
    /\ \A r \in Requests : Capturing(r) => req[r].ex = Merged(latest[req[r].intent], req[r].x, req[r].y)
    /\ \A r \in Requests : req[r].stage = "deleted" => RowsOf(req[r].intent) = {}

\* The registry names what is on disk, and every row a night has read is on
\* disk or still to be compiled.
Nightly ==
    /\ ~shift.on => registry = files /\ \A w \in learned : Compiled(w)
    /\ shift.on =>
          /\ shift.reg = files
          /\ \A w, v \in shift.read : w.intent = v.intent => w = v
          /\ \A w \in shift.read : Compiled(w) \/ Descriptor(w) \in shift.todo
          /\ \A d \in shift.todo : \E w \in shift.read : d = Descriptor(w)

Learning == calm \in BOOLEAN /\ (calm => Orderly /\ Nightly)
-----------------------------------------------------------------------------
LEMMA InitGrounded == LearnInit => Grounded
  BY DEF LearnInit, Grounded, RequestOK, Stages, NoRequest, NoShift, Capturing

LEMMA MergedObserved ==
  ASSUME NEW i \in Intents, NEW x, NEW y, NEW ex, Observed(i, ex) \/ ex = {}, <<i, x, y>> \in said
  PROVE  Observed(i, Merged(ex, x, y))
<1>1. <<x, y>> \in Examples(i)
  BY DEF Examples
<1>2. IsFiniteSet(ex)
  BY FS_EmptySet DEF Observed
<1>3. IsFiniteSet({e \in ex : e[1] # x})
  BY <1>2, FS_Subset
<1>4. IsFiniteSet({<<x, y>>})
  BY FS_Singleton
<1>5. IsFiniteSet(Merged(ex, x, y))
  BY <1>3, <1>4, FS_Union DEF Merged
<1> QED
  BY <1>1, <1>5 DEF Merged, Observed

\* Nothing the model said is unsaid.
LEMMA StillObserved ==
  ASSUME said \subseteq said'
  PROVE  /\ \A i, ex : Observed(i, ex) => Observed(i, ex)'
         /\ \A i, h : From(i, h) => From(i, h)'
<1>1. \A i : Examples(i) \subseteq Examples(i)'
  BY DEF Examples
<1>2. \A i, ex : Observed(i, ex) => Observed(i, ex)'
  BY <1>1 DEF Observed
<1> QED
  BY <1>2 DEF From

\* A step of one request, which leaves the shift and its files alone.
LEMMA RequestGrounded ==
  ASSUME Grounded, NEW r \in Requests, NEW a, req' = [req EXCEPT ![r] = a],
         said \subseteq said', RequestOK(r)', UNCHANGED <<shift, files>>,
         \A w \in rows' : w \in rows \/ (w.intent \in Intents /\ Observed(w.intent, w.ex))
  PROVE  Grounded'
<1>1. \A s \in Requests : s # r => req'[s] = req[s]
  BY DEF Grounded
<1>2. ASSUME NEW s \in Requests, s # r PROVE RequestOK(s)'
  BY <1>1, <1>2, StillObserved DEF Grounded, RequestOK, Capturing
<1>3. req' = [s \in Requests |-> req'[s]]
  BY DEF Grounded
<1>4. \A w \in rows' : w.intent \in Intents /\ Observed(w.intent, w.ex)'
  BY StillObserved DEF Grounded
<1>5. \A d \in shift'.todo : d.intent \in Intents /\ From(d.intent, d.hash)'
  BY StillObserved DEF Grounded
<1>6. \A i \in Intents : files'[i] \in {None, Torn} \/ From(i, files[i])'
  BY StillObserved DEF Grounded
<1> QED
  BY <1>2, <1>3, <1>4, <1>5, <1>6 DEF Grounded

\* Updating a request leaves a request.
LEMMA WholeRecord ==
  ASSUME Grounded, NEW r \in Requests
  PROVE  \E st, i, x, y, ex, k :
            req[r] = [stage |-> st, intent |-> i, x |-> x, y |-> y, ex |-> ex, skill |-> k]
<1>1. req[r] = [stage |-> req[r].stage, intent |-> req[r].intent, x |-> req[r].x,
                y |-> req[r].y, ex |-> req[r].ex, skill |-> req[r].skill]
  BY DEF Grounded, RequestOK
<1> QED
  BY <1>1, Zenon

LEMMA MatchGrounded ==
  ASSUME Grounded, NEW r \in Requests, NEW i \in Intents, NEW x \in Inputs,
         Match(r, i, x) \/ MatchNothing(r, i, x)
  PROVE  Grounded'
<1>0. PICK st \in {"matched", "model"} :
         \E k : req' = [req EXCEPT ![r] = [@ EXCEPT !.stage = st, !.intent = i, !.x = x, !.skill = k]]
  <2>1. CASE Match(r, i, x)
    BY <2>1 DEF Match
  <2>2. CASE MatchNothing(r, i, x)
    <3>1. req[r] = [req[r] EXCEPT !.skill = req[r].skill]
      BY DEF Grounded, RequestOK
    <3> QED
      BY <2>2, <3>1 DEF MatchNothing, Grounded, RequestOK
  <2> QED
    BY <2>1, <2>2
<1>1. PICK k : req' = [req EXCEPT ![r] = [@ EXCEPT !.stage = st, !.intent = i, !.x = x, !.skill = k]]
  BY <1>0
<1>2. UNCHANGED <<rows, shift, files, said>> /\ req[r].stage = "none"
  BY DEF Match, MatchNothing, historyVars
<1>3. req'[r] = [req[r] EXCEPT !.stage = st, !.intent = i, !.x = x, !.skill = k]
  BY <1>1 DEF Grounded
<1>4. RequestOK(r)'
  BY <1>2, <1>3, WholeRecord DEF Grounded, RequestOK, Stages, Capturing
<1> QED
  BY <1>1, <1>2, <1>4, RequestGrounded

LEMMA ServeGrounded ==
  ASSUME Grounded, NEW r \in Requests, Serve(r) \/ AnswerProse(r)
  PROVE  Grounded'
<1>1. \/ req' = [req EXCEPT ![r] = [@ EXCEPT !.stage = "model"]]
      \/ \E y : req' = [req EXCEPT ![r] = [Finished("served") EXCEPT !.y = y]]
      \/ req' = [req EXCEPT ![r] = Finished("done")]
  BY DEF Serve, AnswerProse
<1>2. /\ UNCHANGED <<rows, shift, files, said>>
      /\ req[r].stage \in {"matched", "model"}
  BY DEF Serve, AnswerProse, historyVars
<1>3. \E a : req' = [req EXCEPT ![r] = a]
  BY <1>1
<1>4. RequestOK(r)'
  <2>1. CASE req' = [req EXCEPT ![r] = [@ EXCEPT !.stage = "model"]]
    <3>1. req'[r] = [req[r] EXCEPT !.stage = "model"]
      BY <2>1 DEF Grounded
    <3> QED
      BY <1>2, <3>1 DEF Grounded, RequestOK, Stages, Capturing
  <2>2. CASE \E y : req' = [req EXCEPT ![r] = [Finished("served") EXCEPT !.y = y]]
    BY <2>2 DEF Grounded, RequestOK, Stages, Capturing, Finished, NoRequest
  <2>3. CASE req' = [req EXCEPT ![r] = Finished("done")]
    BY <2>3 DEF Grounded, RequestOK, Stages, Capturing, Finished, NoRequest
  <2> QED
    BY <1>1, <2>1, <2>2, <2>3
<1> QED
  BY <1>2, <1>3, <1>4, RequestGrounded

LEMMA AnswerGrounded ==
  ASSUME Grounded, NEW r \in Requests, NEW y \in Outputs, Answer(r, y)
  PROVE  Grounded'
<1>1. req'[r] = [req[r] EXCEPT !.stage = "observed", !.y = y]
  BY DEF Answer, Grounded
<1>2. PICK st, i, x, z, ex, k :
         req[r] = [stage |-> st, intent |-> i, x |-> x, y |-> z, ex |-> ex, skill |-> k]
  BY WholeRecord
<1>3. req'[r] = [stage |-> "observed", intent |-> i, x |-> x, y |-> y, ex |-> ex, skill |-> k]
  <2>1. [req[r] EXCEPT !.stage = "observed"] =
           [stage |-> "observed", intent |-> i, x |-> x, y |-> z, ex |-> ex, skill |-> k]
    BY <1>2
  <2> QED
    BY <1>1, <2>1
<1>4. <<i, x, y>> \in said' /\ i \in Intents
  <2>1. req[r].intent = i /\ req[r].x = x
    BY <1>2
  <2> QED
    BY <2>1 DEF Answer, Grounded, RequestOK
<1>5. RequestOK(r)'
  BY <1>3, <1>4 DEF RequestOK, Stages, Capturing
<1> QED
  BY <1>5, RequestGrounded DEF Answer

LEMMA ReadPriorGrounded ==
  ASSUME Grounded, NEW r \in Requests, ReadPrior(r)
  PROVE  Grounded'
<1> DEFINE i == req[r].intent
<1>1. PICK ex \in Priors(i) \cup {{}} :
         req' = [req EXCEPT ![r] = [@ EXCEPT !.stage = "read", !.ex = Merged(ex, req[r].x, req[r].y)]]
  BY DEF ReadPrior
<1>2. ex = {} \/ Observed(i, ex)
  BY <1>1 DEF Grounded, Priors, RowsOf
<1>3. i \in Intents /\ <<i, req[r].x, req[r].y>> \in said
  BY DEF ReadPrior, Grounded, RequestOK
<1>4. Observed(i, Merged(ex, req[r].x, req[r].y))
  BY <1>2, <1>3, MergedObserved
<1>5. UNCHANGED <<rows, shift, files, said>>
  BY DEF ReadPrior
<1>6. req'[r] = [req[r] EXCEPT !.stage = "read", !.ex = Merged(ex, req[r].x, req[r].y)]
  BY <1>1 DEF Grounded
<1>7. RequestOK(r)'
  <2>1. PICK m : m = Merged(ex, req[r].x, req[r].y)
    OBVIOUS
  <2>2. Observed(req[r].intent, m)
    BY <1>4, <2>1
  <2>3. req'[r] = [req[r] EXCEPT !.stage = "read", !.ex = m]
    BY <1>6, <2>1
  <2>4. PICK st, j, x, y, old, k :
           req[r] = [stage |-> st, intent |-> j, x |-> x, y |-> y, ex |-> old, skill |-> k]
    BY WholeRecord
  <2>5. req'[r] = [stage |-> "read", intent |-> j, x |-> x, y |-> y, ex |-> m, skill |-> k]
    <3>1. [req[r] EXCEPT !.stage = "read"] =
             [stage |-> "read", intent |-> j, x |-> x, y |-> y, ex |-> old, skill |-> k]
      BY <2>4
    <3> QED
      BY <2>3, <3>1
  <2>6. j = req[r].intent /\ x = req[r].x /\ y = req[r].y
    BY <2>4
  <2> HIDE DEF i
  <2> QED
    BY <1>3, <1>5, <2>2, <2>5, <2>6 DEF i, Observed, Examples, Grounded, RequestOK, Stages, Capturing
<1> QED
  BY <1>1, <1>5, <1>7, RequestGrounded

LEMMA DeletePriorGrounded ==
  ASSUME Grounded, NEW r \in Requests, DeletePrior(r)
  PROVE  Grounded'
<1>1. rows' \subseteq rows
  BY DEF DeletePrior
<1>2. req'[r] = [req[r] EXCEPT !.stage = "deleted"]
  BY DEF DeletePrior, Grounded
<1>3. RequestOK(r)'
  BY <1>2, WholeRecord DEF DeletePrior, Grounded, RequestOK, Stages, Capturing, Observed, Examples
<1>4. \E a : req' = [req EXCEPT ![r] = a]
  BY DEF DeletePrior
<1> QED
  BY <1>1, <1>3, <1>4, RequestGrounded DEF DeletePrior

LEMMA AddRowGrounded ==
  ASSUME Grounded, NEW r \in Requests, AddRow(r)
  PROVE  Grounded'
<1>1. req[r].intent \in Intents /\ Observed(req[r].intent, req[r].ex)
  BY DEF AddRow, Grounded, RequestOK, Capturing
<1>2. rows' \subseteq rows \cup {[by |-> r, intent |-> req[r].intent, ex |-> req[r].ex]}
  BY DEF AddRow
<1>3. RequestOK(r)'
  BY DEF AddRow, Grounded, RequestOK, Stages, Capturing, Finished, NoRequest
<1>4. \A w \in rows' : w \in rows \/ (w.intent \in Intents /\ Observed(w.intent, w.ex))
  BY <1>1, <1>2
<1>5. \E a : req' = [req EXCEPT ![r] = a]
  BY DEF AddRow
<1> QED
  BY <1>3, <1>4, <1>5, RequestGrounded DEF AddRow

LEMMA SameRequests ==
  ASSUME Grounded, UNCHANGED <<req, said, rows>>
  PROVE  /\ req' = [r \in Requests |-> req'[r]] /\ \A r \in Requests : RequestOK(r)'
         /\ \A w \in rows' : w.intent \in Intents /\ Observed(w.intent, w.ex)'
  BY DEF Grounded, RequestOK, Capturing, Observed, Examples

LEMMA ShiftGrounded ==
  ASSUME Grounded, StartShift \/ EndShift
  PROVE  Grounded'
<1>1. /\ UNCHANGED <<req, said, rows, files>>
      /\ \A i, h : From(i, h)' <=> From(i, h)
  BY DEF StartShift, EndShift, historyVars, From, Observed, Examples
<1>2. /\ shift'.on \in BOOLEAN
      /\ shift' = [on |-> shift'.on, todo |-> shift'.todo, reg |-> shift'.reg, read |-> shift'.read]
  <2>1. CASE StartShift
    <3>1. shift' = [on |-> TRUE, todo |-> distill(rows), reg |-> registry, read |-> rows]
      BY <2>1 DEF StartShift
    <3> QED
      BY <3>1
  <2>2. CASE EndShift
    <3>1. shift' = [on |-> FALSE, todo |-> {}, reg |-> [i \in Intents |-> None], read |-> {}]
      BY <2>2 DEF EndShift, NoShift
    <3> QED
      BY <3>1
  <2> QED
    BY <2>1, <2>2
<1>3. /\ \A d \in shift'.todo : d.intent \in Intents /\ From(d.intent, d.hash)
      /\ \A w \in shift'.read : w.intent \in Intents
  <2>1. CASE StartShift
    BY <2>1 DEF StartShift, distill, Grounded, From
  <2>2. CASE EndShift
    BY <2>2 DEF EndShift, NoShift
  <2> QED
    BY <2>1, <2>2
<1> QED
  BY <1>1, <1>2, <1>3, SameRequests DEF Grounded

LEMMA CompileOneGrounded ==
  ASSUME Grounded, NEW d \in shift.todo, CompileOne(d)
  PROVE  Grounded'
<1>1. /\ UNCHANGED <<req, said, rows>>
      /\ \A i, h : From(i, h)' <=> From(i, h)
  BY DEF CompileOne, From, Observed, Examples
<1>2. /\ shift'.on = shift.on /\ shift'.todo = shift.todo \ {d} /\ shift'.read = shift.read
      /\ shift' = [on |-> shift'.on, todo |-> shift'.todo, reg |-> shift'.reg, read |-> shift'.read]
  BY DEF CompileOne, Grounded
<1>3. d.intent \in Intents /\ From(d.intent, d.hash)
  BY DEF Grounded
<1>4. files' = files \/ files' = [files EXCEPT ![d.intent] = d.hash]
  BY DEF CompileOne
<1>5. /\ files' = [i \in Intents |-> files'[i]]
      /\ \A i \in Intents : files'[i] \in {None, Torn} \/ From(i, files'[i])
  BY <1>3, <1>4 DEF Grounded
<1> QED
  BY <1>1, <1>2, <1>5, SameRequests DEF Grounded

LEMMA CrashGrounded ==
  ASSUME Grounded, Crash
  PROVE  Grounded'
<1>1. /\ UNCHANGED <<said, rows>>
      /\ \A i, h : From(i, h)' <=> From(i, h)
      /\ \A i, ex : Observed(i, ex)' <=> Observed(i, ex)
  BY DEF Crash, From, Observed, Examples
<1>2. shift' = NoShift
  BY DEF Crash
<1>3. files' = files \/ \E d \in shift.todo : files' = [files EXCEPT ![d.intent] = Torn]
  BY DEF Crash
<1>4. /\ files' = [i \in Intents |-> files'[i]]
      /\ \A i \in Intents : files'[i] \in {None, Torn} \/ From(i, files'[i])
  BY <1>3 DEF Grounded
<1>5. ASSUME NEW r \in Requests PROVE RequestOK(r)'
  <2>1. req'[r] = IF req[r].stage = "none" THEN req[r] ELSE Finished("done")
    BY DEF Crash
  <2>2. CASE req[r].stage = "none"
    BY <2>1, <2>2 DEF Grounded, RequestOK, Stages, Capturing
  <2>3. CASE req[r].stage # "none"
    BY <2>1, <2>3 DEF RequestOK, Stages, Capturing, Finished, NoRequest
  <2> QED
    BY <2>2, <2>3
<1>6. req' = [r \in Requests |-> req'[r]]
  BY DEF Crash
<1>7. /\ shift'.on \in BOOLEAN /\ shift'.todo = {} /\ shift'.read = {}
      /\ shift' = [on |-> shift'.on, todo |-> shift'.todo, reg |-> shift'.reg, read |-> shift'.read]
  BY <1>2 DEF NoShift
<1> QED
  BY <1>1, <1>4, <1>5, <1>6, <1>7 DEF Grounded

LEMMA NextGrounded == ASSUME Grounded, [LearnNext]_learnVars PROVE Grounded'
<1>1. CASE UNCHANGED learnVars
  <2>1. /\ UNCHANGED <<req, said, rows, files, shift>>
        /\ \A i, h : From(i, h)' <=> From(i, h)
    BY <1>1 DEF learnVars, historyVars, From, Observed, Examples
  <2> QED
    BY <2>1, SameRequests DEF Grounded
<1> QED
  BY <1>1, MatchGrounded, ServeGrounded, AnswerGrounded, ReadPriorGrounded, DeletePriorGrounded,
     AddRowGrounded, ShiftGrounded, CompileOneGrounded, CrashGrounded DEF LearnNext

LEMMA GroundedInvariance == LearnSpec => []Grounded
  BY InitGrounded, NextGrounded, PTL DEF LearnSpec

\* A program is never determined by one observation, and it reproduces what
\* determined it.
LEMMA InducedFits ==
  ASSUME NEW ex, IsFiniteSet(ex), Induced(ex) # Automation
  PROVE  Cardinality(Xs(ex)) >= 2 /\ fitsAll(Induced(ex), ex)
<1>1. IsFiniteSet(Xs(ex))
  <2> DEFINE f == [e \in ex |-> e[1]]
  <2>1. f \in Surjection(ex, Xs(ex))
    BY DEF Surjection, Xs
  <2> QED
    BY <2>1, FS_Surjection
<1>2. Cardinality(Xs(ex)) \in Nat
  BY <1>1, FS_CardinalityType
<1>3. ~(Cardinality(Xs(ex)) < 2) /\ Induced(ex) = Synthesized(ex)
  BY DEF Induced
<1>4. Synthesized(ex) \in TierA(ex)
  BY <1>3 DEF Synthesized
<1> QED
  BY <1>2, <1>3, <1>4 DEF TierA

(***************************************************************************)
(* Whatever captures overlap or fail, a program on disk is one the model's *)
(* own answers to at least two operands of that intent determine, and it   *)
(* gives those answers back, as far as an i32 can hold them                *)
(* (GroundedSkills; skill-induction.js:135).                               *)
(***************************************************************************)
THEOREM GroundedSkillsCorrect == LearnSpec => []GroundedSkills
<1>1. ASSUME Grounded PROVE GroundedSkills
  <2> SUFFICES ASSUME NEW i \in Intents, files[i] \in Programs
               PROVE  \E ex \in SUBSET Examples(i) :
                         /\ Cardinality(Xs(ex)) >= 2
                         /\ Induced(ex) = files[i]
                         /\ \A e \in ex : compute(files[i], e[1]) = wrap(e[2])
    BY DEF GroundedSkills, Examples
  <2>1. files[i] \notin {None, Automation, Torn}
    BY DEF Programs
  <2>2. PICK ex : Observed(i, ex) /\ files[i] = Induced(ex)
    BY <1>1, <2>1 DEF Grounded, From
  <2>3. Cardinality(Xs(ex)) >= 2 /\ fitsAll(files[i], ex)
    BY <2>1, <2>2, InducedFits DEF Observed
  <2>4. \A e \in ex : compute(files[i], e[1]) = wrap(e[2])
    BY <2>3 DEF compute, fitsAll
  <2> QED
    BY <2>2, <2>3, <2>4 DEF Observed
<1> QED
  BY <1>1, GroundedInvariance, PTL

-----------------------------------------------------------------------------
LEMMA InitLearning == LearnInit => Learning
  BY DEF LearnInit, Learning, Orderly, Nightly, NoShift, NoRequest, Capturing, RowsOf

LEMMA SameNight ==
  ASSUME Nightly, UNCHANGED <<shift, registry, files, learned>>
  PROVE  Nightly'
  BY DEF Nightly, Compiled, Descriptor

\* A request that is not capturing is nobody's business.
LEMMA SameOrder ==
  ASSUME Orderly, UNCHANGED <<rows, latest>>,
         \A r \in Requests : Capturing(r) \/ Capturing(r)' => req'[r] = req[r]
  PROVE  Orderly'
<1>2. \A r \in Requests : Capturing(r)' => Capturing(r) /\ req'[r] = req[r]
  BY DEF Capturing
<1>3. \A r \in Requests : req[r].stage = "deleted" => req'[r] = req[r]
  BY DEF Capturing
<1>4. \A r \in Requests : req'[r].stage = "deleted" => req'[r] = req[r]
  BY DEF Capturing
<1>5. \A i \in Intents : latest'[i] # {} =>
         RowsOf(i)' # {} \/ \E r \in Requests : req'[r].stage = "deleted" /\ req'[r].intent = i
  BY <1>3 DEF Orderly, RowsOf
<1>6. \A r \in Requests : Capturing(r)' =>
         req'[r].ex = Merged(latest'[req'[r].intent], req'[r].x, req'[r].y)
  BY <1>2 DEF Orderly
<1>7. \A r \in Requests : req'[r].stage = "deleted" => RowsOf(req[r].intent)' = {}
  BY <1>4 DEF Orderly, RowsOf
<1> QED
  BY <1>2, <1>3, <1>4, <1>5, <1>6, <1>7 DEF Orderly, Merged

LEMMA NotCapturing ==
  ASSUME Grounded, Learning, NEW r \in Requests, ~Capturing(r),
         NEW a, req' = [req EXCEPT ![r] = a], a.stage \notin {"read", "deleted"},
         UNCHANGED <<rows, latest, shift, registry, files, learned, calm>>
  PROVE  Learning'
<1>1. \A s \in Requests : Capturing(s) \/ Capturing(s)' => req'[s] = req[s]
  BY DEF Grounded, Capturing
<1> QED
  BY <1>1, SameOrder, SameNight DEF Learning

LEMMA ServingLearns ==
  ASSUME Grounded, Learning, NEW r \in Requests,
         \/ \E i \in Intents, x \in Inputs : Match(r, i, x) \/ MatchNothing(r, i, x)
         \/ Serve(r) \/ AnswerProse(r) \/ \E y \in Outputs : Answer(r, y)
  PROVE  Learning'
<1>1. PICK a : req' = [req EXCEPT ![r] = a]
  BY DEF Match, MatchNothing, Serve, AnswerProse, Answer
<1>2. a = req'[r]
  BY <1>1 DEF Grounded
<1>3. req'[r].stage \notin {"read", "deleted"}
  BY WholeRecord DEF Grounded, Match, MatchNothing, Serve, AnswerProse, Answer, Finished, NoRequest
<1>4. UNCHANGED <<rows, latest, shift, registry, files, learned, calm>> /\ ~Capturing(r)
  BY DEF Match, MatchNothing, Serve, AnswerProse, Answer, historyVars, Capturing
<1> QED
  BY <1>1, <1>2, <1>3, <1>4, NotCapturing

LEMMA ReadPriorLearns ==
  ASSUME Grounded, Learning, NEW r \in Requests, ReadPrior(r)
  PROVE  Learning'
<1> DEFINE i == req[r].intent
<1>1. PICK ex : /\ calm' => ex \in Priors(i)
                /\ req' = [req EXCEPT ![r] = [@ EXCEPT !.stage = "read",
                                                !.ex = Merged(ex, req[r].x, req[r].y)]]
  BY DEF ReadPrior
<1>2. /\ UNCHANGED <<rows, latest, shift, registry, files, learned>>
      /\ req[r].stage = "observed" /\ i \in Intents
      /\ calm' \in BOOLEAN
      /\ calm' => calm /\ \A s \in Requests : Capturing(s) => req[s].intent # i
  BY DEF ReadPrior, Learning, Grounded, RequestOK
<1>3. PICK m : m = Merged(ex, req[r].x, req[r].y)
  OBVIOUS
<1>4. /\ req'[r].stage = "read" /\ req'[r].intent = i
      /\ req'[r].x = req[r].x /\ req'[r].y = req[r].y /\ req'[r].ex = m
  <2>1. PICK st, j, x, y, old, k :
           req[r] = [stage |-> st, intent |-> j, x |-> x, y |-> y, ex |-> old, skill |-> k]
    BY WholeRecord
  <2>2. req'[r] = [[req[r] EXCEPT !.stage = "read"] EXCEPT !.ex = m]
    BY <1>1, <1>3 DEF Grounded
  <2>3. [req[r] EXCEPT !.stage = "read"] =
             [stage |-> "read", intent |-> j, x |-> x, y |-> y, ex |-> old, skill |-> k]
    BY <2>1
  <2>4. req'[r] = [stage |-> "read", intent |-> j, x |-> x, y |-> y, ex |-> m, skill |-> k]
    BY <2>2, <2>3
  <2>5. req[r].intent = j /\ req[r].x = x /\ req[r].y = y
    BY <2>1
  <2> QED
    BY <2>4, <2>5
<1>5. \A s \in Requests : s # r => req'[s] = req[s]
  BY <1>1 DEF Grounded
<1>6. ASSUME calm' PROVE Orderly'
  <2>0. calm /\ Orderly /\ Nightly
    BY <1>2, <1>6 DEF Learning
  <2>1. ex = latest[i]
    <3>1. CASE RowsOf(i) = {}
      <4>1. \A s \in Requests : ~(req[s].stage = "deleted" /\ req[s].intent = i)
        BY <1>2, <1>6 DEF Capturing
      <4>2. latest[i] = {}
        BY <1>2, <2>0, <3>1, <4>1 DEF Orderly
      <4> QED
        BY <1>1, <1>6, <3>1, <4>2 DEF Priors
    <3>2. CASE RowsOf(i) # {}
      <4>1. PICK w \in RowsOf(i) : ex = w.ex
        BY <1>1, <1>6, <3>2 DEF Priors
      <4>2. w \in rows /\ w.intent = i
        BY <4>1 DEF RowsOf
      <4> QED
        BY <2>0, <4>1, <4>2 DEF Orderly
    <3> QED
      BY <3>1, <3>2
  <2>2. m = Merged(latest[i], req[r].x, req[r].y)
    BY <1>3, <2>1
  <2>3. \A s, t \in Requests :
           Capturing(s)' /\ Capturing(t)' /\ req'[s].intent = req'[t].intent => s = t
    BY <1>2, <1>4, <1>5, <1>6 DEF Learning, Orderly, Capturing
  <2>4. \A s \in Requests : Capturing(s)' =>
           req'[s].ex = Merged(latest[req'[s].intent], req'[s].x, req'[s].y)
    BY <1>2, <1>4, <1>5, <1>6, <2>2 DEF Learning, Orderly, Capturing
  <2>5. \A s \in Requests : req'[s].stage = "deleted" <=> s # r /\ req[s].stage = "deleted"
    BY <1>2, <1>4, <1>5
  <2>6. \A j : RowsOf(j)' = RowsOf(j)
    BY <1>2 DEF RowsOf
  <2>7. \A s \in Requests : req[s].stage = "deleted" => req'[s] = req[s] /\ req'[s].stage = "deleted"
    BY <1>2, <1>5
  <2> QED
    BY <1>2, <1>5, <1>6, <2>3, <2>4, <2>5, <2>6, <2>7 DEF Learning, Orderly, Merged
<1>7. ASSUME calm' PROVE Nightly'
  BY <1>2, <1>7, SameNight DEF Learning
<1>8. calm' \in BOOLEAN
  BY <1>2
<1> QED
  BY <1>6, <1>7, <1>8, Zenon DEF Learning

\* A fault, after which nothing is promised any more.
LEMMA NotCalm == ASSUME calm' = FALSE PROVE Learning'
  BY DEF Learning

LEMMA DeletePriorLearns ==
  ASSUME Grounded, Learning, NEW r \in Requests, DeletePrior(r)
  PROVE  Learning'
<1> DEFINE i == req[r].intent
<1>1. CASE calm' = FALSE
  BY <1>1, NotCalm
<1>2. CASE calm # FALSE /\ rows' = rows \ RowsOf(i) /\ UNCHANGED calm
  <2>1. Orderly /\ Nightly /\ calm' \in BOOLEAN
    BY <1>2 DEF Learning
  <2>2. /\ UNCHANGED <<latest, shift, registry, files, learned>>
        /\ req[r].stage = "read"
    BY DEF DeletePrior
  <2>3. /\ req'[r] = [req[r] EXCEPT !.stage = "deleted"]
        /\ \A s \in Requests : s # r => req'[s] = req[s]
    BY DEF DeletePrior, Grounded
  <2>4. /\ req'[r].stage = "deleted" /\ req'[r].intent = i
        /\ req'[r].x = req[r].x /\ req'[r].y = req[r].y /\ req'[r].ex = req[r].ex
    BY <2>3, WholeRecord
  <2>5. \A s \in Requests :
           /\ Capturing(s)' <=> Capturing(s)
           /\ req'[s].intent = req[s].intent /\ req'[s].x = req[s].x
           /\ req'[s].y = req[s].y /\ req'[s].ex = req[s].ex
           /\ req'[s].stage = "deleted" <=> s = r \/ req[s].stage = "deleted"
    BY <2>2, <2>3, <2>4 DEF Capturing
  <2>6. \A s, t \in Requests :
           Capturing(s)' /\ Capturing(t)' /\ req'[s].intent = req'[t].intent => s = t
    BY <2>1, <2>5 DEF Orderly
  <2>7. rows' = {w \in rows : w.intent # i}
    BY <1>2 DEF RowsOf
  <2>8. \A j \in Intents : latest'[j] # {} =>
           RowsOf(j)' # {} \/ \E s \in Requests : req'[s].stage = "deleted" /\ req'[s].intent = j
    <3> SUFFICES ASSUME NEW j \in Intents, latest[j] # {}, j # i
                 PROVE  RowsOf(j)' # {} \/ \E s \in Requests : req'[s].stage = "deleted" /\ req'[s].intent = j
      BY <2>2, <2>5
    <3>1. CASE RowsOf(j) # {}
      BY <2>7, <3>1 DEF RowsOf
    <3>2. CASE RowsOf(j) = {}
      BY <2>1, <2>5, <3>2 DEF Orderly
    <3> QED
      BY <3>1, <3>2
  <2>9. \A s \in Requests : Capturing(s)' =>
           req'[s].ex = Merged(latest'[req'[s].intent], req'[s].x, req'[s].y)
    BY <2>1, <2>2, <2>5 DEF Orderly
  <2>10. \A s \in Requests : req'[s].stage = "deleted" => RowsOf(req[s].intent)' = {}
    <3>1. RowsOf(req[r].intent)' = {}
      BY <2>5, <2>7 DEF RowsOf
    <3>2. \A s \in Requests : req[s].stage = "deleted" => RowsOf(req[s].intent)' = {}
      BY <2>1, <2>5, <2>7 DEF Orderly, RowsOf
    <3> QED
      BY <2>5, <3>1, <3>2
  <2>11. Orderly'
    BY <2>1, <2>2, <2>6, <2>7, <2>8, <2>9, <2>10 DEF Orderly, Merged
  <2> QED
    BY <2>1, <2>2, <2>11, SameNight DEF Learning
<1> QED
  BY <1>1, <1>2 DEF DeletePrior

LEMMA AddRowLearns ==
  ASSUME Grounded, Learning, NEW r \in Requests, AddRow(r)
  PROVE  Learning'
<1> DEFINE i == req[r].intent
           new == [by |-> r, intent |-> i, ex |-> req[r].ex]
<1>1. CASE calm' = FALSE
  BY <1>1, NotCalm
<1>2. CASE /\ calm # FALSE /\ UNCHANGED calm
           /\ rows' = rows \cup {new}
           /\ latest' = [latest EXCEPT ![i] = {e \in @ : e[1] # req[r].x} \cup {<<req[r].x, req[r].y>>}]
  <2>1. Orderly /\ Nightly /\ calm' \in BOOLEAN
    BY <1>2 DEF Learning
  <2>2. /\ UNCHANGED <<shift, registry, files, learned>>
        /\ req[r].stage = "deleted" /\ i \in Intents
    BY DEF AddRow, Grounded, RequestOK
  <2>3. /\ req'[r].stage = "done"
        /\ \A s \in Requests : s # r => req'[s] = req[s]
    BY DEF AddRow, Grounded, Finished, NoRequest
  <2>4. /\ latest'[i] = req[r].ex /\ \A j \in Intents : j # i => latest'[j] = latest[j]
        /\ latest' = [j \in Intents |-> latest'[j]]
    BY <1>2, <2>1, <2>2 DEF Orderly, Merged, Capturing
  <2>5. \A s \in Requests : Capturing(s)' => Capturing(s) /\ s # r /\ req'[s] = req[s]
    BY <2>3 DEF Capturing
  <2>6. \A s \in Requests : Capturing(s)' => req[s].intent # i
    BY <2>1, <2>2, <2>5 DEF Orderly, Capturing
  <2>7. \A w \in rows : w.intent # i
    BY <2>1, <2>2 DEF Orderly, RowsOf
  <2>8. \A s, t \in Requests :
           Capturing(s)' /\ Capturing(t)' /\ req'[s].intent = req'[t].intent => s = t
    BY <2>1, <2>5 DEF Orderly
  <2>9. /\ \A w, v \in rows' : w.intent = v.intent => w = v
        /\ \A w \in rows' : w.ex = latest'[w.intent]
    <3>1. new.intent = i /\ new.ex = req[r].ex
      OBVIOUS
    <3>2. \A w \in rows : w.intent \in Intents /\ w.ex = latest[w.intent]
      BY <2>1 DEF Orderly, Grounded
    <3>3. \A w \in rows' : w = new \/ w \in rows
      BY <1>2
    <3> HIDE DEF new
    <3> QED
      BY <2>1, <2>4, <2>7, <3>1, <3>2, <3>3 DEF Orderly
  <2>10. \A j \in Intents : latest'[j] # {} =>
           RowsOf(j)' # {} \/ \E s \in Requests : req'[s].stage = "deleted" /\ req'[s].intent = j
    <3>1. new \in rows' /\ new.intent = i
      BY <1>2
    <3>2. ASSUME NEW j \in Intents, j # i, latest[j] # {}
          PROVE  RowsOf(j)' # {} \/ \E s \in Requests : req'[s].stage = "deleted" /\ req'[s].intent = j
      <4>1. CASE RowsOf(j) # {}
        BY <1>2, <4>1 DEF RowsOf
      <4>2. CASE RowsOf(j) = {}
        <5>1. PICK s \in Requests : req[s].stage = "deleted" /\ req[s].intent = j
          BY <2>1, <3>2, <4>2 DEF Orderly
        <5> QED
          BY <2>3, <3>2, <5>1
      <4> QED
        BY <4>1, <4>2
    <3> HIDE DEF new
    <3>3. ASSUME NEW j \in Intents, j = i PROVE RowsOf(j)' # {}
      BY <3>1, <3>3 DEF RowsOf
    <3> QED
      BY <2>4, <3>2, <3>3
  <2>11. \A s \in Requests : Capturing(s)' =>
           req'[s].ex = Merged(latest'[req'[s].intent], req'[s].x, req'[s].y)
    <3> SUFFICES ASSUME NEW s \in Requests, Capturing(s)'
                 PROVE  req'[s].ex = Merged(latest'[req'[s].intent], req'[s].x, req'[s].y)
      OBVIOUS
    <3>1. Capturing(s) /\ req'[s] = req[s] /\ req[s].intent \in Intents \ {i}
      BY <2>5, <2>6 DEF Grounded, RequestOK, Capturing
    <3>2. req[s].ex = Merged(latest[req[s].intent], req[s].x, req[s].y)
      BY <2>1, <3>1 DEF Orderly
    <3>3. latest'[req[s].intent] = latest[req[s].intent]
      BY <2>4, <3>1
    <3> QED
      BY <3>1, <3>2, <3>3
  <2>12. \A s \in Requests : req'[s].stage = "deleted" =>
            \A w \in rows' : w.intent # req'[s].intent
    <3> SUFFICES ASSUME NEW s \in Requests, req'[s].stage = "deleted",
                        NEW w \in rows'
                 PROVE  w.intent # req'[s].intent
      OBVIOUS
    <3>1. s # r /\ req'[s] = req[s] /\ req[s].intent # i
      BY <2>3, <2>6 DEF Capturing
    <3>2. CASE w \in rows
      BY <2>1, <3>1, <3>2 DEF Orderly, RowsOf
    <3>3. CASE w = new
      BY <3>1, <3>3
    <3> QED
      BY <1>2, <3>2, <3>3
  <2>13. \A s \in Requests : req'[s].stage = "deleted" => RowsOf(req[s].intent)' = {}
    BY <2>12 DEF RowsOf
  <2>14. Orderly'
    BY <2>4, <2>8, <2>9, <2>10, <2>11, <2>13 DEF Orderly, Merged
  <2> QED
    BY <2>1, <2>2, <2>14, SameNight DEF Learning
<1> QED
  BY <1>1, <1>2 DEF AddRow
LEMMA ShiftLearns ==
  ASSUME Grounded, Learning, StartShift \/ EndShift
  PROVE  Learning'
<1>1. /\ \A r \in Requests : req'[r] = req[r]
      /\ UNCHANGED <<rows, latest, calm, files>>
  BY DEF StartShift, EndShift, historyVars
<1>2. ASSUME calm' PROVE Orderly'
  BY <1>1, <1>2, SameOrder DEF Learning
<1>3. ASSUME calm' PROVE Nightly'
  <2>1. Orderly /\ Nightly
    BY <1>1, <1>3 DEF Learning
  <2>2. CASE StartShift
    <3>1. /\ shift'.on = TRUE /\ shift'.todo = distill(rows)
          /\ shift'.reg = registry /\ shift'.read = rows
          /\ registry = files
      BY <2>1, <2>2 DEF StartShift, Nightly
    <3>2. \A w \in rows : Descriptor(w) \in distill(rows)
      BY DEF distill, Descriptor
    <3>3. \A d \in distill(rows) : \E w \in rows : d = Descriptor(w)
      BY DEF distill, Descriptor
    <3> QED
      BY <1>1, <2>1, <3>1, <3>2, <3>3 DEF Orderly, Nightly, Descriptor
  <2>3. CASE EndShift
    <3>1. /\ shift'.on = FALSE /\ learned' = shift.read /\ registry' = files
          /\ \A w \in shift.read : Compiled(w)
      BY <2>1, <2>3 DEF EndShift, Nightly, NoShift
    <3> QED
      BY <1>1, <3>1 DEF Nightly, Compiled
  <2> QED
    BY <2>2, <2>3
<1>4. calm' \in BOOLEAN
  BY <1>1 DEF Learning
<1> QED
  BY <1>2, <1>3, <1>4, Zenon DEF Learning

\* Skipped as unchanged or compiled anew, the skill of the row is on disk.
LEMMA CompileOneLearns ==
  ASSUME Grounded, Learning, NEW d \in shift.todo, CompileOne(d)
  PROVE  Learning'
<1>1. CASE calm' = FALSE
  BY <1>1, NotCalm
<1>2. CASE calm # FALSE /\ UNCHANGED calm /\ CompileOne(d)
  <2>1. Orderly /\ Nightly /\ calm' \in BOOLEAN
    BY <1>2 DEF Learning
  <2>2. /\ \A r \in Requests : req'[r] = req[r]
        /\ UNCHANGED <<rows, latest, registry, learned>>
        /\ shift.on /\ shift.reg = files
    BY <2>1 DEF CompileOne, Nightly
  <2>3. d.intent \in Intents /\ \A i \in Intents : i # d.intent => files'[i] = files[i]
    BY DEF CompileOne, Grounded
  <2>4. /\ files'[d.intent] = d.hash
        /\ shift'.on = shift.on /\ shift'.reg = files'
        /\ shift'.todo = shift.todo \ {d} /\ shift'.read = shift.read
    <3>1. CASE Unchanged(d)
      <4>1. files' = files /\ shift' = [shift EXCEPT !.todo = @ \ {d}] /\ files[d.intent] = d.hash
        BY <2>2, <3>1 DEF CompileOne, Unchanged
      <4> QED
        BY <2>2, <4>1 DEF Grounded
    <3>2. CASE ~Unchanged(d)
      <4>1. /\ files' = [files EXCEPT ![d.intent] = d.hash]
            /\ shift' = [shift EXCEPT !.todo = @ \ {d}, !.reg[d.intent] = d.hash]
        BY <1>2, <3>2 DEF CompileOne
      <4>2. /\ shift'.on = shift.on /\ shift'.todo = shift.todo \ {d} /\ shift'.read = shift.read
            /\ shift'.reg = [shift.reg EXCEPT ![d.intent] = d.hash]
        BY <4>1 DEF Grounded
      <4>3. files'[d.intent] = d.hash
        BY <2>3, <4>1 DEF Grounded
      <4> QED
        BY <2>2, <4>1, <4>2, <4>3
    <3> QED
      BY <3>1, <3>2
  <2>5. PICK v \in shift.read : d = Descriptor(v)
    BY <2>1, <2>2 DEF Nightly
  <2>6. d.intent = v.intent /\ d.hash = Induced(v.ex)
    BY <2>5 DEF Descriptor
  <2>7. ASSUME NEW w \in shift'.read
        PROVE  Compiled(w)' \/ Descriptor(w) \in shift'.todo
    <3>1. CASE w = v
      BY <2>4, <2>6, <3>1 DEF Compiled
    <3>2. CASE w # v
      <4>1. w.intent # d.intent /\ Descriptor(w).intent = w.intent
        BY <2>1, <2>2, <2>4, <2>6, <3>2 DEF Nightly, Descriptor
      <4>2. CASE Compiled(w)
        <5>1. w.intent \in Intents
          BY <2>1, <2>2, <2>4, <4>1 DEF Nightly, Grounded
        <5> QED
          BY <2>3, <4>1, <4>2, <5>1 DEF Compiled
      <4>3. CASE Descriptor(w) \in shift.todo
        BY <2>4, <4>1, <4>3
      <4> QED
        BY <2>1, <2>2, <2>4, <4>2, <4>3 DEF Nightly
    <3> QED
      BY <3>1, <3>2
  <2>8. Nightly'
    BY <2>1, <2>2, <2>4, <2>7 DEF Nightly, Descriptor
  <2>9. Orderly'
    BY <2>1, <2>2, SameOrder
  <2> QED
    BY <2>1, <2>8, <2>9 DEF Learning
<1> QED
  BY <1>1, <1>2 DEF CompileOne

LEMMA NextLearning == ASSUME Grounded, Learning, [LearnNext]_learnVars PROVE Learning'
<1>1. CASE UNCHANGED learnVars
  <2>1. /\ \A r \in Requests : req'[r] = req[r]
        /\ UNCHANGED <<rows, latest, calm, files, shift, registry, learned>>
    BY <1>1 DEF learnVars, historyVars
  <2> QED
    BY <2>1, SameOrder, SameNight DEF Learning
<1>2. CASE Crash
  BY <1>2, NotCalm DEF Crash
<1> QED
  BY <1>1, <1>2, ServingLearns, ReadPriorLearns, DeletePriorLearns, AddRowLearns, ShiftLearns,
     CompileOneLearns DEF LearnNext

(***************************************************************************)
(* As long as captures of one intent do not overlap and nothing fails, the *)
(* night after the last capture leaves every intent the skill that all its *)
(* answers together determine (LearnsOverNight; self-evolution.js:114).    *)
(***************************************************************************)
THEOREM LearnsOverNightCorrect == LearnSpec => []LearnsOverNight
<1>1. ASSUME Grounded, Learning PROVE LearnsOverNight
  <2> SUFFICES ASSUME calm, ~shift.on, learned = rows, ~(\E r \in Requests : Capturing(r)),
                      NEW i \in Intents, latest[i] # {}
               PROVE  files[i] = Induced(latest[i])
    BY DEF LearnsOverNight
  <2>1. Orderly /\ Nightly
    BY <1>1 DEF Learning
  <2>2. PICK w \in rows : w.intent = i
    BY <2>1 DEF Orderly, RowsOf, Capturing
  <2>3. w.ex = latest[i]
    BY <2>1, <2>2 DEF Orderly
  <2> QED
    BY <2>1, <2>2, <2>3 DEF Nightly, Compiled
<1>2. LearnInit => Grounded /\ Learning
  BY InitGrounded, InitLearning
<1>3. Grounded /\ Learning /\ [LearnNext]_learnVars => Grounded' /\ Learning'
  BY NextGrounded, NextLearning
<1> QED
  BY <1>1, <1>2, <1>3, PTL DEF LearnSpec
=============================================================================
