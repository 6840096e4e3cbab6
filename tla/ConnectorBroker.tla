-------------------------- MODULE ConnectorBroker --------------------------
(***************************************************************************)
(* Connector writes behind human approval (packages/stratos-agent/src/     *)
(* connectors): the agent's side of the broker (broker-client.js), the     *)
(* broker child process (broker-process.js, broker-core.js), the approval  *)
(* ledger in its heap (write-approval.js) and the MCP sidecar it spawns    *)
(* (mcp-client.js, mcp-stdio-transport.js).                                *)
(*                                                                         *)
(* The agent sends lines down a pipe; the broker takes them in order and   *)
(* runs each up to its await on the sidecar, so several calls are out at   *)
(* once.  The agent, the owner, the sidecar, the clock, the death of the   *)
(* sidecar and the death or closing of the broker all interleave.          *)
(*                                                                         *)
(* A write stands for a tool with its account and exact arguments, what    *)
(* the fingerprint tells apart.  The required scopes of a tool come from   *)
(* the broker's registry both when it proposes and when it consumes, so    *)
(* they are part of the write as well.                                     *)
(***************************************************************************)
EXTENDS Integers, Sequences, FiniteSets

CONSTANTS
    Calls,      (* request ids of callTool                                  *)
    Proposals,  (* proposal ids                                             *)
    Writes,     (* calls of write and destructive tools                     *)
    Reads,      (* calls of read tools                                      *)
    Redirects,  (* the calls that name a destination the broker refuses     *)
    NoProposal, (* no approvalId in the request                             *)
    Ttl,        (* ttlMs of a proposal                                      *)
    MaxTime     (* bound on the clock                                       *)

ASSUME BrokerAssumption ==
    /\ Writes \cap Reads = {}
    /\ Redirects \subseteq Writes \cup Reads
    /\ NoProposal \notin Proposals
    /\ Ttl \in Nat /\ MaxTime \in Nat

VARIABLES
    proposal,    (* the ledger: pending, the Map of write-approval.js       *)
    call,        (* what each call asks, and where it is                    *)
    answer,      (* what the agent has got: "none", "pending", or a result  *)
    pipe,        (* calls written to the broker's stdin, not yet read       *)
    client,      (* clients.get(connector): "none", "live" or "dead"        *)
    credential,  (* the vault still resolves the connector's handle         *)
    broker,      (* the child process is "up" or "down"                     *)
    closed,      (* the agent's side is closed                              *)
    yes,         (* history: the proposals the owner approved               *)
    executed,    (* history: what the outside world has seen, call by call  *)
    now

vars == <<proposal, call, answer, pipe, client, credential, broker, closed,
          yes, executed, now>>

NoCall == [stage |-> "none", what |-> "none", by |-> NoProposal]

Init ==
    /\ proposal = [p \in Proposals |-> [status |-> "none", what |-> "none", createdAt |-> 0]]
    /\ call = [c \in Calls |-> NoCall]
    /\ answer = [c \in Calls |-> "none"]
    /\ pipe = <<>>
    /\ client = "none"
    /\ credential = TRUE
    /\ broker = "up"
    /\ closed = FALSE
    /\ yes = {}
    /\ executed = {}
    /\ now = 0

expired(p) == now - proposal[p].createdAt > Ttl
SetStatus(p, status) == proposal' = [proposal EXCEPT ![p].status = status]
-----------------------------------------------------------------------------
(* The ledger and the owner. *)

\* proposeWrite: the broker fills in the grant, and refuses a redirect.
ProposeWrite(p, w) ==
    /\ broker = "up" /\ ~closed
    /\ proposal[p].status = "none"
    /\ w \notin Redirects
    /\ proposal' = [proposal EXCEPT ![p] = [status |-> "pending", what |-> w, createdAt |-> now]]
    /\ UNCHANGED <<call, answer, pipe, client, credential, broker, closed, yes, executed, now>>

\* approve, with the nonce of the challenge.
Approve(p) ==
    /\ broker = "up"
    /\ proposal[p].status = "pending"
    /\ IF expired(p)
       THEN SetStatus(p, "expired") /\ UNCHANGED yes
       ELSE SetStatus(p, "approved") /\ yes' = yes \cup {p}
    /\ UNCHANGED <<call, answer, pipe, client, credential, broker, closed, executed, now>>

Deny(p) ==
    /\ broker = "up"
    /\ proposal[p].status = "pending"
    /\ SetStatus(p, "denied")
    /\ UNCHANGED <<call, answer, pipe, client, credential, broker, closed, yes, executed, now>>

\* Mutant of Consumed: only approve looks at the age of a proposal.
ConsumedStale(p, w) ==
    IF proposal[p].status # "approved" THEN proposal[p].status
    ELSE IF proposal[p].what # w THEN "tampered"
    ELSE "consumed"

\* consumeApproval for the write w: the status it leaves the proposal in.
Consumed(p, w) ==
    IF proposal[p].status # "approved" THEN proposal[p].status
    ELSE IF expired(p) THEN "expired"
    ELSE IF proposal[p].what # w THEN "tampered"
    ELSE "consumed"

\* It is ok only for an approved, fresh proposal of this very write.
Consumable(p, w) == proposal[p].status = "approved" /\ Consumed(p, w) = "consumed"
-----------------------------------------------------------------------------
(* The agent's side of the pipe. *)

\* rpc('callTool', ...)
Send(c, w, p) ==
    /\ ~closed
    /\ call[c].stage = "none"
    /\ call' = [call EXCEPT ![c] = [stage |-> "piped", what |-> w, by |-> p]]
    /\ answer' = [answer EXCEPT ![c] = "pending"]
    /\ pipe' = Append(pipe, c)
    /\ UNCHANGED <<proposal, client, credential, broker, closed, yes, executed, now>>

\* close(), called or by the idle timer: the child is told to die.
Close ==
    /\ ~closed
    /\ closed' = TRUE
    /\ UNCHANGED <<proposal, call, answer, pipe, client, credential, broker, yes, executed, now>>

\* Mutant of Receive: the id of the line is not looked at.
ReceiveAny(c) ==
    /\ call[c].stage \in {"ok", "denied", "failed"}
    /\ \E d \in Calls : /\ answer[d] = "pending"
                       /\ answer' = [answer EXCEPT ![d] = call[c].stage]
    /\ UNCHANGED <<proposal, call, pipe, client, credential, broker, closed, yes, executed, now>>

\* A line of the broker's stdout settles the call it names.
Receive(c) ==
    /\ answer[c] = "pending"
    /\ call[c].stage \in {"ok", "denied", "failed"}
    /\ answer' = [answer EXCEPT ![c] = call[c].stage]
    /\ UNCHANGED <<proposal, call, pipe, client, credential, broker, closed, yes, executed, now>>

\* Mutant of BrokerExit: the pending calls are forgotten, not rejected.
BrokerExitSilent ==
    /\ broker = "down"
    /\ closed' = TRUE
    /\ UNCHANGED <<proposal, call, answer, pipe, client, credential, broker, yes, executed, now>>

\* The child's 'exit': every pending call rejects.
BrokerExit ==
    /\ broker = "down"
    /\ closed' = TRUE
    /\ answer' = [c \in Calls |-> IF answer[c] = "pending" THEN "rejected" ELSE answer[c]]
    /\ UNCHANGED <<proposal, call, pipe, client, credential, broker, yes, executed, now>>
-----------------------------------------------------------------------------
(* The broker. *)

\* clientFor: the cached client, or a new sidecar when the vault has the secret.
ClientAfter == IF client = "none" /\ credential THEN "live" ELSE client
StageAfter == IF ClientAfter = "live" THEN "running" ELSE "failed"

\* Mutant of Handle: the approval is spent only when the tool could be run.
HandleKeepsApproval ==
    LET c == Head(pipe)
        w == call[c].what
        p == call[c].by
        allowed == w \in Reads \/ (p # NoProposal /\ Consumable(p, w))
    IN  /\ broker = "up" /\ pipe # <<>>
        /\ pipe' = Tail(pipe)
        /\ IF w \in Redirects \/ ~allowed
           THEN call' = [call EXCEPT ![c].stage = "denied"] /\ UNCHANGED client
           ELSE call' = [call EXCEPT ![c].stage = StageAfter] /\ client' = ClientAfter
        /\ UNCHANGED <<proposal, answer, credential, broker, closed, yes, executed, now>>

\* callTool, up to its await.
Handle ==
    LET c == Head(pipe)
        w == call[c].what
        p == call[c].by
        allowed == w \in Reads \/ (p # NoProposal /\ Consumable(p, w))
    IN  /\ broker = "up" /\ pipe # <<>>
        /\ pipe' = Tail(pipe)
        /\ IF w \in Redirects \/ ~allowed
           THEN call' = [call EXCEPT ![c].stage = "denied"] /\ UNCHANGED client
           ELSE call' = [call EXCEPT ![c].stage = StageAfter] /\ client' = ClientAfter
        /\ IF w \in Writes \ Redirects /\ p # NoProposal
           THEN SetStatus(p, Consumed(p, w))
           ELSE UNCHANGED proposal
        /\ UNCHANGED <<answer, credential, broker, closed, yes, executed, now>>

\* The sidecar acts on the request ...
Execute(c) ==
    /\ call[c].stage \in {"running", "orphan"}
    /\ executed' = executed \cup {[call |-> c, what |-> call[c].what, by |-> call[c].by]}
    /\ call' = [call EXCEPT ![c].stage = IF @ = "running" THEN "executed" ELSE "lost"]
    /\ UNCHANGED <<proposal, answer, pipe, client, credential, broker, closed, yes, now>>

\* ... and its result comes back to the broker, which writes its line; or it
\* answers with an error.
SidecarReplies(c) ==
    /\ broker = "up" /\ client = "live"
    /\ \/ call[c].stage = "executed" /\ call' = [call EXCEPT ![c].stage = "ok"]
       \/ call[c].stage \in {"running", "executed"} /\ call' = [call EXCEPT ![c].stage = "failed"]
    /\ UNCHANGED <<proposal, answer, pipe, client, credential, broker, closed, yes, executed, now>>

\* The sidecar dies: what it was asked fails, and the client stays cached.
SidecarDies ==
    /\ client = "live"
    /\ client' = "dead"
    /\ call' = [c \in Calls |->
                   IF call[c].stage \in {"running", "executed"}
                   THEN [call[c] EXCEPT !.stage = IF broker = "up" THEN "failed" ELSE "lost"]
                   ELSE IF call[c].stage = "orphan" THEN [call[c] EXCEPT !.stage = "lost"]
                   ELSE call[c]]
    /\ UNCHANGED <<proposal, answer, pipe, credential, broker, closed, yes, executed, now>>

\* Mutant of BrokerDies: what is in the pipe of a dead process stays there.
BrokerDiesPiped ==
    /\ broker = "up"
    /\ broker' = "down"
    /\ call' = [c \in Calls |->
                   [call[c] EXCEPT !.stage = CASE @ = "running" -> "orphan"
                                               [] @ \in {"piped", "executed"} -> "lost"
                                               [] OTHER -> @]]
    /\ UNCHANGED <<proposal, answer, pipe, client, credential, closed, yes, executed, now>>

\* The broker dies, on its own or because it was closed: its ledger is gone;
\* what the sidecar has already been asked it may still do.
BrokerDies ==
    /\ broker = "up"
    /\ broker' = "down"
    /\ pipe' = <<>>
    /\ call' = [c \in Calls |->
                   [call[c] EXCEPT !.stage = CASE @ = "running" -> "orphan"
                                               [] @ \in {"piped", "executed"} -> "lost"
                                               [] OTHER -> @]]
    /\ UNCHANGED <<proposal, answer, client, credential, closed, yes, executed, now>>

\* removeConnector: the handle is revoked in the vault.
Revoke ==
    /\ credential
    /\ credential' = FALSE
    /\ UNCHANGED <<proposal, call, answer, pipe, client, broker, closed, yes, executed, now>>

Tick ==
    /\ now < MaxTime
    /\ now' = now + 1
    /\ UNCHANGED <<proposal, call, answer, pipe, client, credential, broker, closed, yes, executed>>

Next ==
    \/ \E p \in Proposals : \/ \E w \in Writes : ProposeWrite(p, w)
                            \/ Approve(p) \/ Deny(p)
    \/ \E c \in Calls : \/ \E w \in Writes, p \in Proposals \cup {NoProposal} : Send(c, w, p)
                        \/ \E w \in Reads : Send(c, w, NoProposal)
    \/ \E c \in Calls : Receive(c) \/ Execute(c) \/ SidecarReplies(c)
    \/ Close \/ BrokerExit \/ Handle \/ SidecarDies \/ BrokerDies \/ Revoke \/ Tick

Spec == Init /\ [][Next]_vars

\* A closed child dies (it was sent SIGTERM), and its exit is reported.
Fairness == WF_vars(BrokerExit) /\ WF_vars(closed /\ BrokerDies)
FairSpec == Spec /\ Fairness
-----------------------------------------------------------------------------
Final == {"denied", "expired", "tampered", "consumed"}
Done(c) == {e \in executed : e.call = c}

TypeOK ==
    /\ \A p \in Proposals :
          /\ proposal[p].status \in {"none", "pending", "approved"} \cup Final
          /\ proposal[p].what \in Writes \cup {"none"}
          /\ proposal[p].createdAt \in 0 .. now
    /\ \A c \in Calls :
          /\ call[c].stage \in {"none", "piped", "running", "executed", "orphan", "lost",
                                "ok", "denied", "failed"}
          /\ call[c].what \in Writes \cup Reads \cup {"none"}
          /\ call[c].by \in Proposals \cup {NoProposal}
          /\ answer[c] \in {"none", "pending", "ok", "denied", "failed", "rejected"}
    /\ \A i \in DOMAIN pipe : pipe[i] \in Calls /\ call[pipe[i]].stage = "piped"
    /\ client \in {"none", "live", "dead"}
    /\ credential \in BOOLEAN /\ closed \in BOOLEAN
    /\ broker \in {"up", "down"}
    /\ yes \subseteq Proposals
    /\ now \in 0 .. MaxTime

(***************************************************************************)
(* "A write executes only after the human OWNER approves the exact         *)
(* proposal out-of-band, and each approval is single-use"                  *)
(* (write-approval.js:5): whatever the calls in flight, the deaths and the *)
(* retries, the outside world sees a write only if the owner said yes to   *)
(* this very write, and sees one write for one yes; a refused destination  *)
(* is never reached.                                                       *)
(***************************************************************************)
ApprovedOnce ==
    \A e \in executed :
        /\ e.what \notin Redirects
        /\ e.what \in Writes =>
              /\ e.by \in yes
              /\ proposal[e.by].what = e.what
              /\ \A f \in executed : f.what \in Writes /\ f.by = e.by => f = e

\* What the agent is told: ok means it happened, denied that it never will.
\* (failed and rejected promise nothing: the sidecar may have acted.)
HonestAnswers ==
    \A c \in Calls : /\ answer[c] = "ok" => Done(c) # {}
                     /\ answer[c] = "denied" => Done(c) = {}

(***************************************************************************)
(* "approvals/proposals expire; stale yeses don't execute" (:13): the time *)
(* runs from the proposal, through the approval, to the consumption, and   *)
(* never starts again; a no, an expiry or a use is for good.               *)
(***************************************************************************)
DeadlineKept ==
    [][\A p \in Proposals : proposal'[p] # proposal[p] =>
          /\ proposal[p].status \notin Final
          /\ proposal[p].status # "none" => proposal'[p].createdAt = proposal[p].createdAt
          /\ proposal'[p].status \in {"approved", "consumed"} =>
                now <= proposal[p].createdAt + Ttl]_vars

\* "if the broker child dies, in-flight calls reject" (broker-client.js:7):
\* no call waits for ever on a broker that is gone or was closed.
AnswersSettle == \A c \in Calls : answer[c] = "pending" /\ closed ~> answer[c] # "pending"
=============================================================================
