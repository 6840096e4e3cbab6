----------------------- MODULE ConnectorBrokerProofs -----------------------
(***************************************************************************)
(* Proofs about ConnectorBroker, for any number of calls and proposals,    *)
(* any writes and reads, any time to live and any clock.                   *)
(***************************************************************************)
EXTENDS ConnectorBroker, SequenceTheorems, TLAPS

-----------------------------------------------------------------------------
(* The inductive invariant.                                                 *)

Statuses == {"none", "pending", "approved"} \cup Final
Stages == {"none", "piped", "running", "executed", "orphan", "lost", "ok", "denied", "failed"}
Answers == {"none", "pending", "ok", "denied", "failed", "rejected"}
Asks == Writes \cup Reads
Slips == Proposals \cup {NoProposal}
CallRecords == [stage : Stages, what : Asks \cup {"none"}, by : Slips]
Entries == [status : Statuses, what : Writes \cup {"none"}, createdAt : Nat]

Typed ==
    /\ proposal \in [Proposals -> Entries]
    /\ \A p \in Proposals : proposal[p].createdAt <= now
    /\ call \in [Calls -> CallRecords]
    /\ answer \in [Calls -> Answers]
    /\ pipe \in Seq(Calls)
    /\ client \in {"none", "live", "dead"}
    /\ credential \in BOOLEAN /\ closed \in BOOLEAN
    /\ broker \in {"up", "down"}
    /\ yes \subseteq Proposals
    /\ now \in 0 .. MaxTime

\* A call is in the pipe once, as long as it is piped.
Queued ==
    /\ \A i \in DOMAIN pipe : call[pipe[i]].stage = "piped"
    /\ \A i, j \in DOMAIN pipe : pipe[i] = pipe[j] => i = j

\* A call that was sent asks for something, to which the broker has said yes
\* if it passed it on.
Passed == {"running", "orphan", "executed", "ok"}
Asked ==
    \A c \in Calls :
        /\ call[c].stage # "none" => call[c].what \in Asks
        /\ call[c].stage \in Passed => call[c].what \notin Redirects

\* What the world has seen is what the call asked, and it was asked once.
Seen ==
    \A e \in executed :
        /\ e.call \in Calls
        /\ e = [call |-> e.call, what |-> call[e.call].what, by |-> call[e.call].by]
        /\ call[e.call].stage \in {"executed", "lost", "ok", "failed"}
        /\ call[e.call].what \in Asks \ Redirects

\* What the agent heard is how the call ended.
Heard ==
    \A c \in Calls :
        /\ call[c].stage \in {"executed", "ok"} => Done(c) # {}
        /\ answer[c] \in {"ok", "denied", "failed"} => call[c].stage = answer[c]

\* A write that may happen or has happened holds its yes, alone.
Acting(c) ==
    /\ call[c].what \in Writes
    /\ call[c].stage \in {"running", "orphan"} \/ Done(c) # {}
Holds ==
    /\ \A p \in Proposals : proposal[p].status \in {"approved", "consumed"} => p \in yes
    /\ \A c \in Calls : Acting(c) =>
          /\ call[c].by \in yes
          /\ proposal[call[c].by].status = "consumed"
          /\ proposal[call[c].by].what = call[c].what
    /\ \A c, d \in Calls : Acting(c) /\ Acting(d) /\ call[c].by = call[d].by => c = d

IInv == Typed /\ Queued /\ Asked /\ Seen /\ Heard /\ Holds

-----------------------------------------------------------------------------
LEMMA InitIInv == ASSUME BrokerAssumption PROVE Init => IInv
<1> SUFFICES ASSUME Init PROVE IInv
  OBVIOUS
<1> USE BrokerAssumption DEF BrokerAssumption
<1>1. Typed
  <2>1. NoCall \in CallRecords
    BY DEF NoCall, CallRecords, Stages, Slips
  <2>2. [status |-> "none", what |-> "none", createdAt |-> 0] \in Entries
    BY DEF Entries, Statuses
  <2>3. <<>> \in Seq(Calls)
    BY EmptySeq
  <2>4. proposal \in [Proposals -> Entries] /\ call \in [Calls -> CallRecords]
    BY <2>1, <2>2 DEF Init
  <2>5. \A p \in Proposals : proposal[p].createdAt <= now
    BY DEF Init
  <2>6. answer \in [Calls -> Answers]
    BY DEF Init, Answers
  <2>7. /\ pipe \in Seq(Calls)
        /\ client \in {"none", "live", "dead"}
        /\ broker \in {"up", "down"}
        /\ yes \subseteq Proposals
        /\ now \in 0 .. MaxTime
    BY <2>3 DEF Init
  <2>8. credential \in BOOLEAN /\ closed \in BOOLEAN
    BY DEF Init
  <2> QED
    BY <2>4, <2>5, <2>6, <2>7, <2>8 DEF Typed
<1>2. Queued /\ Asked /\ Seen
  BY DEF Init, Queued, Asked, Seen, NoCall, Passed
<1>3. Heard /\ Holds
  BY DEF Init, Heard, Holds, NoCall, Done, Acting
<1> QED
  BY <1>1, <1>2, <1>3 DEF IInv

-----------------------------------------------------------------------------
(* Types.                                                                   *)

LEMMA Restaged ==
  ASSUME Typed, NEW c \in Calls, NEW s \in Stages
  PROVE  [call[c] EXCEPT !.stage = s] \in CallRecords
<1>1. call[c] \in CallRecords
  BY DEF Typed
<1> QED
  BY <1>1 DEF CallRecords

LEMMA RestagedOne ==
  ASSUME Typed, NEW c \in Calls, NEW s \in Stages, call' = [call EXCEPT ![c].stage = s]
  PROVE  call' \in [Calls -> CallRecords]
<1>1. [call[c] EXCEPT !.stage = s] \in CallRecords
  BY Restaged
<1>2. call' = [call EXCEPT ![c] = [call[c] EXCEPT !.stage = s]]
  OBVIOUS
<1> QED
  BY <1>1, <1>2 DEF Typed

LEMMA Restatused ==
  ASSUME Typed, NEW p \in Proposals, NEW s \in Statuses, SetStatus(p, s)
  PROVE  /\ proposal' \in [Proposals -> Entries]
         /\ \A q \in Proposals : proposal'[q].createdAt = proposal[q].createdAt
<1>1. proposal[p] \in Entries
  BY DEF Typed
<1>2. [proposal[p] EXCEPT !.status = s] \in Entries
  BY <1>1 DEF Entries
<1>3. proposal' = [proposal EXCEPT ![p] = [proposal[p] EXCEPT !.status = s]]
  BY DEF SetStatus
<1>4. proposal' \in [Proposals -> Entries]
  BY <1>2, <1>3 DEF Typed
<1>5. ASSUME NEW q \in Proposals PROVE proposal'[q].createdAt = proposal[q].createdAt
  BY <1>1, <1>3 DEF Typed, Entries
<1> QED
  BY <1>4, <1>5

LEMMA HandleType ==
  ASSUME BrokerAssumption, Typed, Handle
  PROVE  Typed'
<1> DEFINE c == Head(pipe)
           p == call[c].by
           w == call[c].what
<1>1. c \in Calls /\ Tail(pipe) \in Seq(Calls)
  BY DEF Typed, Handle
<1>2. pipe' \in Seq(Calls)
  BY <1>1 DEF Handle
<1>3. StageAfter \in Stages /\ "denied" \in Stages
  BY DEF StageAfter, Stages
<1>4. call' \in [Calls -> CallRecords]
  <2>1. PICK s \in Stages : call' = [call EXCEPT ![c].stage = s]
    BY <1>3 DEF Handle
  <2> HIDE DEF c
  <2> QED
    BY <1>1, <2>1, RestagedOne
<1>5. client' \in {"none", "live", "dead"}
  BY DEF Handle, Typed, ClientAfter
<1>6. /\ proposal' \in [Proposals -> Entries]
      /\ \A q \in Proposals : proposal'[q].createdAt = proposal[q].createdAt
  <2>1. p \in Slips
    BY <1>1 DEF Typed, CallRecords
  <2>2. CASE w \in Writes \ Redirects /\ p # NoProposal
    <3>1. p \in Proposals
      BY <2>1, <2>2 DEF Slips
    <3>2. Consumed(p, w) \in Statuses
      BY <3>1 DEF Consumed, Typed, Entries, Statuses, Final
    <3>3. SetStatus(p, Consumed(p, w))
      BY <2>2 DEF Handle
    <3> HIDE DEF p, w
    <3> QED
      BY <3>1, <3>2, <3>3, Restatused
  <2>3. CASE ~(w \in Writes \ Redirects /\ p # NoProposal)
    <3>1. proposal' = proposal
      BY <2>3 DEF Handle
    <3> QED
      BY <3>1 DEF Typed
  <2> QED
    BY <2>2, <2>3
<1> QED
  BY <1>2, <1>4, <1>5, <1>6 DEF Handle, Typed

LEMMA NextType ==
  ASSUME BrokerAssumption, Typed, [Next]_vars
  PROVE  Typed'
<1> USE BrokerAssumption DEF BrokerAssumption
<1>1. ASSUME NEW p \in Proposals, NEW w \in Writes, ProposeWrite(p, w) PROVE Typed'
  <2>1. [status |-> "pending", what |-> w, createdAt |-> now] \in Entries
    BY DEF Entries, Statuses, Typed
  <2> QED
    BY <1>1, <2>1 DEF ProposeWrite, Typed
<1>2. ASSUME NEW p \in Proposals, Approve(p) \/ Deny(p) PROVE Typed'
  <2>1. /\ proposal' \in [Proposals -> Entries]
        /\ \A q \in Proposals : proposal'[q].createdAt = proposal[q].createdAt
    <3>1. PICK s \in Statuses : SetStatus(p, s)
      BY <1>2 DEF Approve, Deny, Statuses, Final
    <3> QED
      BY <3>1, Restatused
  <2> QED
    BY <1>2, <2>1 DEF Approve, Deny, Typed
<1>3. ASSUME NEW c \in Calls, NEW w \in Asks, NEW p \in Slips, Send(c, w, p) PROVE Typed'
  <2>1. [stage |-> "piped", what |-> w, by |-> p] \in CallRecords
    BY DEF CallRecords, Stages
  <2> QED
    BY <1>3, <2>1, AppendProperties DEF Send, Typed, Answers
<1>4. ASSUME NEW c \in Calls, Receive(c) PROVE Typed'
  BY <1>4 DEF Receive, Typed, Answers
<1>5. ASSUME NEW c \in Calls, Execute(c) PROVE Typed'
  <2>1. call' \in [Calls -> CallRecords]
    <3>1. PICK s \in Stages : call' = [call EXCEPT ![c].stage = s]
      BY <1>5 DEF Execute, Stages
    <3> QED
      BY <3>1, RestagedOne
  <2> QED
    BY <1>5, <2>1 DEF Execute, Typed
<1>6. ASSUME NEW c \in Calls, SidecarReplies(c) PROVE Typed'
  <2>1. call' \in [Calls -> CallRecords]
    <3>1. PICK s \in Stages : call' = [call EXCEPT ![c].stage = s]
      BY <1>6 DEF SidecarReplies, Stages
    <3> QED
      BY <3>1, RestagedOne
  <2> QED
    BY <1>6, <2>1 DEF SidecarReplies, Typed
<1>7. CASE Close \/ Revoke \/ BrokerExit
  BY <1>7 DEF Close, Revoke, BrokerExit, Typed, Answers
<1>8. CASE SidecarDies
  <2>1. \A c \in Calls : call'[c] \in CallRecords
    BY <1>8, Restaged DEF SidecarDies, Stages, Typed
  <2> QED
    BY <1>8, <2>1 DEF SidecarDies, Typed
<1>9. CASE BrokerDies
  <2>1. ASSUME NEW c \in Calls PROVE call'[c] \in CallRecords
    <3>1. call[c].stage \in Stages
      BY DEF Typed, CallRecords
    <3>2. (CASE call[c].stage = "running" -> "orphan"
            [] call[c].stage \in {"piped", "executed"} -> "lost"
            [] OTHER -> call[c].stage) \in Stages
      BY <3>1 DEF Stages
    <3> QED
      BY <1>9, <3>2, Restaged DEF BrokerDies
  <2>2. pipe' \in Seq(Calls)
    BY <1>9, EmptySeq DEF BrokerDies
  <2> QED
    BY <1>9, <2>1, <2>2 DEF BrokerDies, Typed
<1>10. CASE Tick
  <2>1. \A p \in Proposals : proposal[p].createdAt \in Nat
    BY DEF Typed, Entries
  <2>2. \A p \in Proposals : proposal'[p].createdAt <= now'
    BY <1>10, <2>1 DEF Tick, Typed
  <2>3. now' \in 0 .. MaxTime
    BY <1>10 DEF Tick, Typed
  <2> QED
    BY <1>10, <2>2, <2>3 DEF Tick, Typed
<1>11. CASE UNCHANGED vars
  BY <1>11 DEF vars, Typed
<1> QED
  BY <1>1, <1>2, <1>3, <1>4, <1>5, <1>6, <1>7, <1>8, <1>9, <1>10, <1>11, HandleType
     DEF Next, Asks, Slips

-----------------------------------------------------------------------------
(* What a step does to a call, to its answer and to the world.              *)

\* A call is sent once, and goes from the pipe to its end.
Moved(c) ==
    \/ call'[c] = call[c]
    \/ /\ call[c].stage = "none" /\ call'[c].stage = "piped"
       /\ call'[c].what \in Asks
    \/ /\ call'[c].what = call[c].what /\ call'[c].by = call[c].by
       /\ \/ call[c].stage = "piped" /\ call'[c].stage \in {"denied", "failed", "lost"}
          \/ /\ call[c].stage = "piped" /\ call'[c].stage = "running"
             /\ call[c].what \notin Redirects
          \/ /\ call[c].stage = "running"
             /\ call'[c].stage \in {"executed", "orphan", "failed", "lost"}
          \/ call[c].stage = "executed" /\ call'[c].stage \in {"ok", "failed", "lost"}
          \/ call[c].stage = "orphan" /\ call'[c].stage = "lost"

LEMMA RestagedFields ==
  ASSUME Typed, NEW c \in Calls, NEW s, call' = [call EXCEPT ![c].stage = s]
  PROVE  /\ call'[c].stage = s /\ call'[c].what = call[c].what /\ call'[c].by = call[c].by
         /\ \A d \in Calls : d # c => call'[d] = call[d]
<1>1. call[c] \in CallRecords
  BY DEF Typed
<1>2. call'[c] = [call[c] EXCEPT !.stage = s]
  BY DEF Typed
<1>3. \A d \in Calls : d # c => call'[d] = call[d]
  BY DEF Typed
<1> QED
  BY <1>1, <1>2, <1>3 DEF CallRecords

\* What Handle does: it takes a piped call, and passes a write on only when it
\* spends an approval of that very write.
LEMMA HandleStep ==
  ASSUME BrokerAssumption, Typed, Queued, Handle
  PROVE  /\ Head(pipe) \in Calls
         /\ call[Head(pipe)].stage = "piped"
         /\ \E s \in {"denied", "running", "failed"} :
               /\ call' = [call EXCEPT ![Head(pipe)].stage = s]
               /\ s = "running" =>
                     /\ call[Head(pipe)].what \notin Redirects
                     /\ call[Head(pipe)].what \in Writes =>
                           /\ call[Head(pipe)].by \in Proposals
                           /\ proposal[call[Head(pipe)].by].status = "approved"
                           /\ proposal[call[Head(pipe)].by].what = call[Head(pipe)].what
                           /\ SetStatus(call[Head(pipe)].by, "consumed")
<1> DEFINE c == Head(pipe)
           w == call[c].what
           p == call[c].by
           allowed == w \in Reads \/ (p # NoProposal /\ Consumable(p, w))
<1>1. c \in Calls /\ c = pipe[1] /\ 1 \in DOMAIN pipe
  BY DEF Typed, Handle
<1>2. call[c].stage = "piped"
  BY <1>1 DEF Queued
<1>3. p \in Slips
  BY <1>1 DEF Typed, CallRecords
<1>4. CASE w \in Redirects \/ ~allowed
  <2>1. call' = [call EXCEPT ![c].stage = "denied"]
    BY <1>4 DEF Handle
  <2> QED
    BY <1>1, <1>2, <2>1
<1>5. CASE ~(w \in Redirects \/ ~allowed)
  <2>1. call' = [call EXCEPT ![c].stage = StageAfter] /\ StageAfter \in {"running", "failed"}
    BY <1>5 DEF Handle, StageAfter
  <2>2. ASSUME w \in Writes
        PROVE  /\ p \in Proposals
               /\ proposal[p].status = "approved"
               /\ proposal[p].what = w
               /\ SetStatus(p, "consumed")
    <3>1. p # NoProposal /\ Consumable(p, w)
      BY <1>5, <2>2 DEF BrokerAssumption
    <3>2. p \in Proposals
      BY <1>3, <3>1 DEF Slips
    <3>3. Consumed(p, w) = "consumed" /\ proposal[p].status = "approved"
      BY <3>1 DEF Consumable
    <3>4. proposal[p].what = w
      BY <3>3 DEF Consumed
    <3>5. SetStatus(p, Consumed(p, w))
      BY <1>5, <2>2, <3>1 DEF Handle
    <3> QED
      BY <3>2, <3>3, <3>4, <3>5
  <2> QED
    BY <1>1, <1>2, <1>5, <2>1, <2>2
<1> QED
  BY <1>4, <1>5

LEMMA NextMoved ==
  ASSUME BrokerAssumption, Typed, Queued, [Next]_vars, NEW c \in Calls
  PROVE  Moved(c)
<1>0. call[c] \in CallRecords
  BY DEF Typed
<1>1. ASSUME NEW d \in Calls, NEW w \in Asks, NEW p \in Slips, Send(d, w, p) PROVE Moved(c)
  BY <1>1 DEF Send, Typed, Moved
<1>2. ASSUME NEW d \in Calls, Execute(d) PROVE Moved(c)
  <2>1. PICK s : /\ call' = [call EXCEPT ![d].stage = s]
                 /\ \/ call[d].stage = "running" /\ s = "executed"
                    \/ call[d].stage = "orphan" /\ s = "lost"
    BY <1>2 DEF Execute
  <2> QED
    BY <2>1, RestagedFields DEF Moved
<1>3. ASSUME NEW d \in Calls, SidecarReplies(d) PROVE Moved(c)
  <2>1. PICK s : /\ call' = [call EXCEPT ![d].stage = s]
                 /\ \/ call[d].stage = "executed" /\ s = "ok"
                    \/ call[d].stage \in {"running", "executed"} /\ s = "failed"
    BY <1>3 DEF SidecarReplies
  <2> QED
    BY <2>1, RestagedFields DEF Moved
<1>4. CASE Handle
  <2> DEFINE d == Head(pipe)
  <2>1. d \in Calls /\ call[d].stage = "piped"
    BY <1>4, HandleStep
  <2>2. PICK s \in {"denied", "running", "failed"} :
           /\ call' = [call EXCEPT ![d].stage = s]
           /\ s = "running" => call[d].what \notin Redirects
    BY <1>4, HandleStep
  <2> HIDE DEF d
  <2> QED
    BY <2>1, <2>2, RestagedFields DEF Moved
<1>5. CASE SidecarDies
  <2>1. \/ call'[c] = call[c]
        \/ /\ call[c].stage \in {"running", "executed"}
           /\ \E s \in {"failed", "lost"} : call'[c] = [call[c] EXCEPT !.stage = s]
        \/ call[c].stage = "orphan" /\ call'[c] = [call[c] EXCEPT !.stage = "lost"]
    BY <1>5 DEF SidecarDies
  <2> QED
    BY <1>0, <2>1 DEF Moved, CallRecords
<1>6. CASE BrokerDies
  <2>1. \/ call'[c] = [call[c] EXCEPT !.stage = call[c].stage]
        \/ call[c].stage = "running" /\ call'[c] = [call[c] EXCEPT !.stage = "orphan"]
        \/ /\ call[c].stage \in {"piped", "executed"}
           /\ call'[c] = [call[c] EXCEPT !.stage = "lost"]
    BY <1>6 DEF BrokerDies
  <2> QED
    BY <1>0, <2>1 DEF Moved, CallRecords
<1>7. CASE call' = call
  BY <1>7 DEF Moved
<1>8. \/ \E d \in Calls, w \in Asks, p \in Slips : Send(d, w, p)
      \/ \E d \in Calls : Execute(d) \/ SidecarReplies(d)
      \/ Handle \/ SidecarDies \/ BrokerDies \/ call' = call
  BY DEF Next, vars, Asks, Slips, ProposeWrite, Approve, Deny, Receive, Close, BrokerExit,
         Revoke, Tick
<1> QED
  BY <1>1, <1>2, <1>3, <1>4, <1>5, <1>6, <1>7, <1>8

\* Only Execute changes the world, and only it calls a request executed.
LEMMA NextWorld ==
  ASSUME BrokerAssumption, Typed, Queued, [Next]_vars
  PROVE  \/ /\ executed' = executed
            /\ \A c \in Calls : call'[c].stage = "executed" => call[c].stage = "executed"
         \/ \E c \in Calls : Execute(c)
<1>0. SUFFICES ASSUME ~\E c \in Calls : Execute(c)
               PROVE  /\ executed' = executed
                      /\ \A c \in Calls : call'[c].stage = "executed" =>
                                             call[c].stage = "executed"
  OBVIOUS
<1>1. executed' = executed
  BY <1>0 DEF Next, vars, ProposeWrite, Approve, Deny, Send, Receive, SidecarReplies, Close,
              BrokerExit, Handle, SidecarDies, BrokerDies, Revoke, Tick
<1>2. ASSUME NEW c \in Calls, call'[c].stage = "executed" PROVE call[c].stage = "executed"
  <2>1. ASSUME NEW d \in Calls, SidecarReplies(d) PROVE call[c].stage = "executed"
    <3>1. PICK s \in {"ok", "failed"} : call' = [call EXCEPT ![d].stage = s]
      BY <2>1 DEF SidecarReplies
    <3> QED
      BY <1>2, <3>1, RestagedFields
  <2>2. ASSUME NEW d \in Calls, NEW w, NEW p, Send(d, w, p) PROVE call[c].stage = "executed"
    BY <1>2, <2>2 DEF Send, Typed
  <2>3. CASE Handle
    <3> DEFINE d == Head(pipe)
    <3>1. d \in Calls
      BY <2>3, HandleStep
    <3>2. PICK s \in {"denied", "running", "failed"} : call' = [call EXCEPT ![d].stage = s]
      BY <2>3, HandleStep
    <3> HIDE DEF d
    <3> QED
      BY <1>2, <3>1, <3>2, RestagedFields
  <2>4. CASE SidecarDies \/ BrokerDies
    <3>1. call[c] \in CallRecords
      BY DEF Typed
    <3>2. \/ call'[c] = call[c]
          \/ \E s \in {call[c].stage, "failed", "lost", "orphan"} :
                call'[c] = [call[c] EXCEPT !.stage = s]
      BY <2>4 DEF SidecarDies, BrokerDies
    <3> QED
      BY <1>2, <3>1, <3>2 DEF CallRecords
  <2>5. CASE call' = call
    BY <1>2, <2>5
  <2>6. \/ \E d \in Calls, w \in Asks, p \in Slips : Send(d, w, p)
        \/ \E d \in Calls : SidecarReplies(d)
        \/ Handle \/ SidecarDies \/ BrokerDies \/ call' = call
    BY <1>0 DEF Next, vars, Asks, Slips, ProposeWrite, Approve, Deny, Receive, Close,
                BrokerExit, Revoke, Tick
  <2> QED
    BY <2>1, <2>2, <2>3, <2>4, <2>5, <2>6
<1> QED
  BY <1>1, <1>2

\* The agent hears of a call what became of it, and of no other.
LEMMA NextAnswer ==
  ASSUME BrokerAssumption, Typed, [Next]_vars, NEW c \in Calls
  PROVE  \/ answer'[c] = answer[c]
         \/ answer'[c] \in {"pending", "rejected"}
         \/ answer'[c] = call[c].stage /\ call' = call
<1>1. ASSUME NEW d \in Calls, NEW w, NEW p, Send(d, w, p)
      PROVE  answer'[c] = answer[c] \/ answer'[c] = "pending"
  BY <1>1 DEF Send, Typed
<1>2. ASSUME NEW d \in Calls, Receive(d)
      PROVE  answer'[c] = answer[c] \/ (answer'[c] = call[c].stage /\ call' = call)
  BY <1>2 DEF Receive, Typed
<1>3. CASE BrokerExit
  BY <1>3 DEF BrokerExit
<1>4. CASE answer' = answer
  BY <1>4
<1>5. \/ \E d \in Calls, w \in Asks, p \in Slips : Send(d, w, p)
      \/ \E d \in Calls : Receive(d)
      \/ BrokerExit \/ answer' = answer
  BY DEF Next, vars, Asks, Slips, ProposeWrite, Approve, Deny, Execute, SidecarReplies, Close,
         Handle, SidecarDies, BrokerDies, Revoke, Tick
<1> QED
  BY <1>1, <1>2, <1>3, <1>4, <1>5

\* Every way a proposal changes.
LEMMA NextProposal ==
  ASSUME BrokerAssumption, Typed, [Next]_vars, NEW p \in Proposals
  PROVE  \/ proposal'[p] = proposal[p]
         \/ proposal[p].status = "none" /\ proposal'[p].status = "pending"
         \/ /\ proposal'[p].what = proposal[p].what
            /\ proposal'[p].createdAt = proposal[p].createdAt
            /\ \/ /\ proposal[p].status = "pending"
                  /\ proposal'[p].status \in {"denied", "expired"}
               \/ /\ proposal[p].status = "pending" /\ proposal'[p].status = "approved"
                  /\ ~expired(p) /\ p \in yes'
               \/ /\ proposal[p].status = "approved"
                  /\ proposal'[p].status \in {"expired", "tampered"}
               \/ /\ proposal[p].status = "approved" /\ proposal'[p].status = "consumed"
                  /\ ~expired(p) /\ Handle
<1>0. proposal[p] \in Entries
  BY DEF Typed
<1>1. ASSUME NEW q \in Proposals, NEW s, SetStatus(q, s), proposal'[p] # proposal[p]
      PROVE  /\ p = q /\ proposal'[p].status = s
             /\ proposal'[p].what = proposal[p].what
             /\ proposal'[p].createdAt = proposal[p].createdAt
  <2>1. p = q /\ proposal'[p] = [proposal[p] EXCEPT !.status = s]
    BY <1>1 DEF SetStatus, Typed
  <2> QED
    BY <1>0, <2>1 DEF Entries
<1>2. ASSUME NEW q \in Proposals, NEW w \in Writes, ProposeWrite(q, w),
             proposal'[p] # proposal[p]
      PROVE  proposal[p].status = "none" /\ proposal'[p].status = "pending"
  BY <1>2 DEF ProposeWrite, Typed
<1>3. ASSUME NEW q \in Proposals, Approve(q), proposal'[p] # proposal[p]
      PROVE  /\ proposal'[p].what = proposal[p].what
             /\ proposal'[p].createdAt = proposal[p].createdAt
             /\ proposal[p].status = "pending"
             /\ \/ proposal'[p].status = "expired"
                \/ proposal'[p].status = "approved" /\ ~expired(p) /\ p \in yes'
  <2>1. CASE expired(q)
    <3>1. SetStatus(q, "expired") /\ proposal[q].status = "pending"
      BY <1>3, <2>1 DEF Approve
    <3> QED
      BY <1>1, <1>3, <3>1
  <2>2. CASE ~expired(q)
    <3>1. SetStatus(q, "approved") /\ q \in yes' /\ proposal[q].status = "pending"
      BY <1>3, <2>2 DEF Approve
    <3> QED
      BY <1>1, <1>3, <2>2, <3>1
  <2> QED
    BY <2>1, <2>2
<1>4. ASSUME NEW q \in Proposals, Deny(q), proposal'[p] # proposal[p]
      PROVE  /\ proposal'[p].what = proposal[p].what
             /\ proposal'[p].createdAt = proposal[p].createdAt
             /\ proposal[p].status = "pending" /\ proposal'[p].status = "denied"
  BY <1>1, <1>4 DEF Deny
<1>5. ASSUME Handle, proposal'[p] # proposal[p]
      PROVE  /\ proposal'[p].what = proposal[p].what
             /\ proposal'[p].createdAt = proposal[p].createdAt
             /\ proposal[p].status = "approved"
             /\ \/ proposal'[p].status \in {"expired", "tampered"}
                \/ proposal'[p].status = "consumed" /\ ~expired(p)
  <2>1. PICK q \in Proposals, w \in Writes : SetStatus(q, Consumed(q, w))
    <3>1. Head(pipe) \in Calls
      BY <1>5 DEF Handle, Typed
    <3>2. call[Head(pipe)].by \in Slips
      BY <3>1 DEF Typed, CallRecords
    <3> QED
      BY <1>5, <3>2 DEF Handle, Slips
  <2>2. /\ p = q /\ proposal'[p].status = Consumed(p, w)
        /\ proposal'[p].what = proposal[p].what
        /\ proposal'[p].createdAt = proposal[p].createdAt
    BY <1>1, <1>5, <2>1
  <2>3. proposal[p].status = "approved"
    <3>1. SUFFICES ASSUME proposal[p].status # "approved" PROVE FALSE
      OBVIOUS
    <3>2. proposal' = [proposal EXCEPT ![p].status = proposal[p].status]
      BY <2>1, <2>2, <3>1 DEF Consumed, SetStatus
    <3>3. proposal'[p] = [proposal[p] EXCEPT !.status = proposal[p].status]
      BY <3>2 DEF Typed
    <3> QED
      BY <1>0, <1>5, <3>3 DEF Entries
  <2> QED
    BY <2>2, <2>3 DEF Consumed
<1>6. CASE proposal' = proposal
  BY <1>6
<1>7. \/ \E q \in Proposals : (\E w \in Writes : ProposeWrite(q, w)) \/ Approve(q) \/ Deny(q)
      \/ Handle \/ proposal' = proposal
  BY DEF Next, vars, Send, Receive, Execute, SidecarReplies, Close, BrokerExit, SidecarDies,
         BrokerDies, Revoke, Tick
<1> QED
  BY <1>2, <1>3, <1>4, <1>5, <1>6, <1>7

-----------------------------------------------------------------------------
(* The invariant is inductive.                                              *)

LEMMA NextQueued ==
  ASSUME BrokerAssumption, Typed, Queued, [Next]_vars
  PROVE  Queued'
<1>1. ASSUME NEW c \in Calls, NEW w, NEW p, Send(c, w, p) PROVE Queued'
  <2>1. /\ pipe' = Append(pipe, c) /\ call[c].stage = "none"
        /\ call'[c].stage = "piped"
        /\ \A d \in Calls : d # c => call'[d] = call[d]
    BY <1>1 DEF Send, Typed
  <2>2. /\ Len(pipe') = Len(pipe) + 1 /\ DOMAIN pipe' = 1 .. Len(pipe')
        /\ pipe'[Len(pipe) + 1] = c
        /\ \A i \in 1 .. Len(pipe) : pipe'[i] = pipe[i]
    BY <2>1, AppendProperties DEF Typed
  <2>3. DOMAIN pipe = 1 .. Len(pipe) /\ Len(pipe) \in Nat
        /\ \A i \in 1 .. Len(pipe) : pipe[i] \in Calls /\ pipe[i] # c
    BY <2>1 DEF Typed, Queued
  <2>4. \A i \in DOMAIN pipe' : i = Len(pipe) + 1 \/ i \in 1 .. Len(pipe)
    BY <2>2, <2>3
  <2>5. \A i \in DOMAIN pipe' : call'[pipe'[i]].stage = "piped"
    BY <2>1, <2>2, <2>3, <2>4 DEF Queued
  <2>6. \A i, j \in DOMAIN pipe' : pipe'[i] = pipe'[j] => i = j
    BY <2>2, <2>3, <2>4 DEF Queued
  <2> QED
    BY <2>5, <2>6 DEF Queued
<1>2. CASE Handle
  <2> DEFINE c == Head(pipe)
  <2>1. c \in Calls /\ c = pipe[1] /\ 1 \in DOMAIN pipe
    BY <1>2 DEF Handle, Typed
  <2>2. PICK s \in {"denied", "running", "failed"} : call' = [call EXCEPT ![c].stage = s]
    BY <1>2, HandleStep
  <2>3. /\ pipe' = Tail(pipe) /\ Len(pipe) \in Nat /\ Len(pipe') = Len(pipe) - 1
        /\ DOMAIN pipe = 1 .. Len(pipe) /\ DOMAIN pipe' = 1 .. Len(pipe')
        /\ \A i \in DOMAIN pipe' : pipe'[i] = pipe[i + 1]
    BY <1>2, HeadTailProperties DEF Handle, Typed
  <2>4. \A i \in DOMAIN pipe' : i + 1 \in DOMAIN pipe /\ i + 1 # 1
    BY <2>3
  <2>5. ASSUME NEW i \in DOMAIN pipe' PROVE call'[pipe'[i]].stage = "piped"
    <3>1. pipe'[i] # c /\ pipe'[i] \in Calls /\ call[pipe'[i]].stage = "piped"
      BY <2>1, <2>3, <2>4 DEF Queued, Typed
    <3> HIDE DEF c
    <3> QED
      BY <2>1, <2>2, <3>1, RestagedFields
  <2>6. \A i, j \in DOMAIN pipe' : pipe'[i] = pipe'[j] => i = j
    BY <2>3, <2>4 DEF Queued
  <2> QED
    BY <2>5, <2>6 DEF Queued
<1>3. CASE BrokerDies
  BY <1>3 DEF BrokerDies, Queued
<1>4. ASSUME pipe' = pipe,
             \A c \in Calls : call[c].stage = "piped" => call'[c].stage = "piped"
      PROVE  Queued'
  BY <1>4 DEF Queued, Typed
<1>5. ASSUME NEW d \in Calls, Execute(d) \/ SidecarReplies(d) PROVE Queued'
  <2>1. PICK s \in Stages : call' = [call EXCEPT ![d].stage = s] /\ call[d].stage # "piped"
    BY <1>5 DEF Execute, SidecarReplies, Stages
  <2>2. \A c \in Calls : call[c].stage = "piped" => call'[c].stage = "piped"
    BY <2>1, RestagedFields
  <2> QED
    BY <1>4, <1>5, <2>2 DEF Execute, SidecarReplies
<1>6. CASE SidecarDies
  BY <1>4, <1>6 DEF SidecarDies
<1>7. CASE call' = call /\ pipe' = pipe
  BY <1>4, <1>7
<1>8. \/ \E d \in Calls, w \in Asks, p \in Slips : Send(d, w, p)
      \/ \E d \in Calls : Execute(d) \/ SidecarReplies(d)
      \/ Handle \/ SidecarDies \/ BrokerDies \/ (call' = call /\ pipe' = pipe)
  BY DEF Next, vars, Asks, Slips, ProposeWrite, Approve, Deny, Receive, Close, BrokerExit,
         Revoke, Tick
<1> QED
  BY <1>1, <1>2, <1>3, <1>5, <1>6, <1>7, <1>8

LEMMA NextAsked ==
  ASSUME BrokerAssumption, Typed, Queued, Asked, [Next]_vars
  PROVE  Asked'
<1>1. ASSUME NEW c \in Calls
      PROVE  /\ call'[c].stage # "none" => call'[c].what \in Asks
             /\ call'[c].stage \in Passed => call'[c].what \notin Redirects
  BY NextMoved DEF Moved, Asked, Passed
<1> QED
  BY <1>1 DEF Asked

LEMMA NextSeen ==
  ASSUME BrokerAssumption, Typed, Queued, Asked, Seen, [Next]_vars
  PROVE  Seen'
<1> DEFINE Record(e) == [call |-> e.call, what |-> call[e.call].what, by |-> call[e.call].by]
<1>1. ASSUME NEW c \in Calls, call[c].stage \in {"executed", "lost", "ok", "failed"}
      PROVE  /\ call'[c].what = call[c].what /\ call'[c].by = call[c].by
             /\ call'[c].stage \in {"executed", "lost", "ok", "failed"}
  BY <1>1, NextMoved DEF Moved
<1>2. ASSUME NEW e \in executed
      PROVE  /\ e.call \in Calls
             /\ e = Record(e)'
             /\ call'[e.call].stage \in {"executed", "lost", "ok", "failed"}
             /\ call'[e.call].what \in Asks \ Redirects
  BY <1>1, <1>2 DEF Seen
<1>3. CASE executed' = executed
  BY <1>2, <1>3 DEF Seen
<1>4. ASSUME NEW c \in Calls, Execute(c) PROVE Seen'
  <2> DEFINE e == [call |-> c, what |-> call[c].what, by |-> call[c].by]
  <2>1. executed' = executed \cup {e}
    BY <1>4 DEF Execute
  <2>2. PICK s \in {"executed", "lost"} : call' = [call EXCEPT ![c].stage = s]
    BY <1>4 DEF Execute
  <2>3. /\ call'[c].stage \in {"executed", "lost"}
        /\ call'[c].what = call[c].what /\ call'[c].by = call[c].by
    BY <2>2, RestagedFields
  <2>4. call[c].what \in Asks \ Redirects
    BY <1>4 DEF Execute, Asked, Passed
  <2>5. /\ e.call \in Calls /\ e = Record(e)'
        /\ call'[e.call].stage \in {"executed", "lost", "ok", "failed"}
        /\ call'[e.call].what \in Asks \ Redirects
    BY <2>3, <2>4
  <2> QED
    BY <1>2, <2>1, <2>5 DEF Seen
<1> QED
  BY <1>3, <1>4, NextWorld

LEMMA NextHeard ==
  ASSUME BrokerAssumption, Typed, Queued, Heard, [Next]_vars
  PROVE  Heard'
<1>1. ASSUME NEW c \in Calls, call'[c].stage \in {"executed", "ok"} PROVE Done(c)' # {}
  <2>1. CASE executed' = executed /\ (call'[c].stage = "executed" => call[c].stage = "executed")
    <3>1. call[c].stage \in {"executed", "ok"}
      BY <1>1, <2>1, NextMoved DEF Moved
    <3> QED
      BY <2>1, <3>1 DEF Heard, Done
  <2>2. ASSUME NEW d \in Calls, Execute(d) PROVE Done(c)' # {}
    <3>1. executed' = executed \cup {[call |-> d, what |-> call[d].what, by |-> call[d].by]}
      BY <2>2 DEF Execute
    <3>2. CASE c = d
      <4> DEFINE e == [call |-> d, what |-> call[d].what, by |-> call[d].by]
      <4>1. e \in executed' /\ e.call = c
        BY <3>1, <3>2
      <4> QED
        BY <4>1 DEF Done
    <3>3. CASE c # d
      <4>1. call'[c] = call[c]
        BY <2>2, <3>3 DEF Execute, Typed
      <4> QED
        BY <1>1, <3>1, <4>1 DEF Heard, Done
    <3> QED
      BY <3>2, <3>3
  <2> QED
    BY <1>1, <2>1, <2>2, NextWorld
<1>2. ASSUME NEW c \in Calls, answer'[c] \in {"ok", "denied", "failed"}
      PROVE  call'[c].stage = answer'[c]
  <2>1. CASE answer'[c] = answer[c]
    BY <1>2, <2>1, NextMoved DEF Moved, Heard
  <2>2. CASE answer'[c] = call[c].stage /\ call' = call
    BY <2>2
  <2> QED
    BY <1>2, <2>1, <2>2, NextAnswer
<1> QED
  BY <1>1, <1>2 DEF Heard

LEMMA NextHolds ==
  ASSUME BrokerAssumption, IInv, [Next]_vars
  PROVE  Holds'
<1> USE DEF IInv
<1>1. ASSUME NEW p \in Proposals, proposal'[p].status \in {"approved", "consumed"}
      PROVE  p \in yes'
  <2>1. yes \subseteq yes'
    BY DEF Next, vars, ProposeWrite, Approve, Deny, Send, Receive, Execute, SidecarReplies,
           Close, BrokerExit, Handle, SidecarDies, BrokerDies, Revoke, Tick
  <2> QED
    BY <1>1, <2>1, NextProposal DEF Holds
<1>2. ASSUME NEW p \in Proposals, proposal[p].status = "consumed"
      PROVE  proposal'[p] = proposal[p]
  BY <1>2, NextProposal
\* A call that acts now acted before, or has just been passed on.
<1>3. ASSUME NEW c \in Calls, Acting(c)'
      PROVE  /\ call'[c].what = call[c].what /\ call'[c].by = call[c].by
             /\ \/ Acting(c)
                \/ call[c].stage = "piped" /\ call'[c].stage = "running"
  <2>1. CASE Done(c) # {}
    <3>1. call[c].stage \in {"executed", "lost", "ok", "failed"}
      BY <2>1 DEF Seen, Done
    <3> QED
      BY <1>3, <2>1, <3>1, NextMoved DEF Acting, Moved
  <2>2. CASE Done(c) = {} /\ Done(c)' # {}
    <3>1. Execute(c)
      BY <2>2, NextWorld DEF Done, Execute
    <3>2. call[c].stage \in {"running", "orphan"}
      BY <3>1 DEF Execute
    <3> QED
      BY <1>3, <3>2, NextMoved DEF Acting, Moved
  <2>3. CASE Done(c)' = {}
    <3>1. call'[c].stage \in {"running", "orphan"}
      BY <1>3, <2>3 DEF Acting
    <3> QED
      BY <1>3, <3>1, NextMoved DEF Acting, Moved
  <2> QED
    BY <2>1, <2>2, <2>3
<1>4. CASE \A c \in Calls : Acting(c)' => Acting(c)
  <2>1. ASSUME NEW c \in Calls, Acting(c)'
        PROVE  /\ call'[c].by \in yes'
               /\ proposal'[call'[c].by].status = "consumed"
               /\ proposal'[call'[c].by].what = call'[c].what
    <3>1. /\ call[c].by \in yes /\ yes \subseteq Proposals
          /\ proposal[call[c].by].status = "consumed"
          /\ proposal[call[c].by].what = call[c].what
      BY <1>4, <2>1 DEF Holds, Typed
    <3> QED
      BY <1>1, <1>2, <1>3, <2>1, <3>1
  <2>2. \A c, d \in Calls : Acting(c)' /\ Acting(d)' /\ call'[c].by = call'[d].by => c = d
    BY <1>3, <1>4 DEF Holds
  <2> QED
    BY <1>1, <2>1, <2>2 DEF Holds
<1>5. ASSUME NEW c \in Calls, call[c].stage = "piped", call'[c].stage = "running",
             call'[c].what \in Writes
      PROVE  Holds'
  <2> DEFINE p == call[c].by
  \* This is Handle, at the head of the pipe.
  <2>1. Handle
    <3>1. ASSUME NEW d \in Calls, NEW w, NEW q, Send(d, w, q) PROVE FALSE
      BY <1>5, <3>1 DEF Send, Typed
    <3>2. ASSUME NEW d \in Calls, Execute(d) \/ SidecarReplies(d) PROVE FALSE
      <4>1. PICK s \in Stages : call' = [call EXCEPT ![d].stage = s] /\ s # "running"
        BY <3>2 DEF Execute, SidecarReplies, Stages
      <4> QED
        BY <1>5, <4>1, RestagedFields
    <3>3. ASSUME SidecarDies \/ BrokerDies PROVE FALSE
      <4>1. call[c] \in CallRecords
        BY DEF Typed
      <4>2. call'[c] = call[c] \/ call'[c] = [call[c] EXCEPT !.stage = "lost"]
        BY <1>5, <3>3 DEF SidecarDies, BrokerDies
      <4> QED
        BY <1>5, <4>1, <4>2 DEF CallRecords
    <3>4. \/ \E d \in Calls, w \in Asks, q \in Slips : Send(d, w, q)
          \/ \E d \in Calls : Execute(d) \/ SidecarReplies(d)
          \/ Handle \/ SidecarDies \/ BrokerDies \/ call' = call
      BY DEF Next, vars, Asks, Slips, ProposeWrite, Approve, Deny, Receive, Close, BrokerExit,
             Revoke, Tick
    <3> QED
      BY <1>5, <3>1, <3>2, <3>3, <3>4
  <2>2. /\ c = Head(pipe)
        /\ call'[c].what = call[c].what /\ call'[c].by = call[c].by
        /\ \A d \in Calls : d # c => call'[d] = call[d]
    <3> DEFINE h == Head(pipe)
    <3>1. PICK s \in {"denied", "running", "failed"} : call' = [call EXCEPT ![h].stage = s]
      BY <2>1, HandleStep
    <3>2. h \in Calls
      BY <2>1, HandleStep
    <3> HIDE DEF h
    <3>3. c = h
      BY <1>5, <3>1, <3>2, RestagedFields
    <3>4. /\ call'[c].what = call[c].what /\ call'[c].by = call[c].by
          /\ \A d \in Calls : d # c => call'[d] = call[d]
      BY <3>1, <3>2, <3>3, RestagedFields
    <3> QED
      BY <3>3, <3>4 DEF h
  <2>3. /\ p \in Proposals /\ proposal[p].status = "approved"
        /\ proposal[p].what = call[c].what
        /\ SetStatus(p, "consumed")
    <3>1. PICK s \in {"denied", "running", "failed"} :
             /\ call' = [call EXCEPT ![c].stage = s]
             /\ s = "running" /\ call[c].what \in Writes =>
                   /\ p \in Proposals
                   /\ proposal[p].status = "approved"
                   /\ proposal[p].what = call[c].what
                   /\ SetStatus(p, "consumed")
      BY <2>1, <2>2, HandleStep
    <3>2. s = "running"
      BY <1>5, <3>1, RestagedFields
    <3> QED
      BY <1>5, <2>2, <3>1, <3>2
  <2>4. proposal'[p].status = "consumed" /\ proposal'[p].what = proposal[p].what
    <3>1. proposal[p] \in Entries /\ proposal'[p] = [proposal[p] EXCEPT !.status = "consumed"]
      BY <2>3 DEF SetStatus, Typed
    <3> QED
      BY <3>1 DEF Entries
  <2>5. p \in yes'
    BY <1>1, <2>3, <2>4
  \* Whoever acts already spent its own approval, and p's was not spent.
  <2>6. ASSUME NEW d \in Calls, Acting(d)', d # c
        PROVE  Acting(d) /\ call'[d] = call[d] /\ call[d].by # p
    <3>1. Acting(d)
      BY <1>3, <2>2, <2>6
    <3> QED
      BY <2>2, <2>3, <2>6, <3>1 DEF Holds
  <2>7. ASSUME NEW d \in Calls, Acting(d)'
        PROVE  /\ call'[d].by \in yes'
               /\ proposal'[call'[d].by].status = "consumed"
               /\ proposal'[call'[d].by].what = call'[d].what
    <3>1. CASE d = c
      BY <2>2, <2>3, <2>4, <2>5, <3>1
    <3>2. CASE d # c
      <4>1. /\ call'[d] = call[d] /\ call[d].by \in Proposals
            /\ proposal[call[d].by].status = "consumed"
            /\ proposal[call[d].by].what = call[d].what
        BY <2>6, <2>7, <3>2 DEF Holds, Typed
      <4> QED
        BY <1>1, <1>2, <4>1
    <3> QED
      BY <3>1, <3>2
  <2>8. \A d, e \in Calls : Acting(d)' /\ Acting(e)' /\ call'[d].by = call'[e].by => d = e
    BY <2>2, <2>6 DEF Holds
  <2> QED
    BY <1>1, <2>7, <2>8 DEF Holds
<1> QED
  BY <1>3, <1>4, <1>5 DEF Acting

LEMMA NextIInv == ASSUME BrokerAssumption, IInv, [Next]_vars PROVE IInv'
  BY NextType, NextQueued, NextAsked, NextSeen, NextHeard, NextHolds DEF IInv

LEMMA Inductive == ASSUME BrokerAssumption PROVE Spec => []IInv
<1> USE BrokerAssumption
<1>1. Init => IInv
  BY InitIInv
<1>2. IInv /\ [Next]_vars => IInv'
  BY NextIInv
<1> QED
  BY <1>1, <1>2, PTL DEF Spec

-----------------------------------------------------------------------------
(* What the broker promises.                                                *)

\* Every variable keeps its type (TypeOK).
THEOREM TypeCorrect == ASSUME BrokerAssumption PROVE Spec => []TypeOK
<1>1. ASSUME IInv PROVE TypeOK
  <2>1. ASSUME NEW p \in Proposals
        PROVE  /\ proposal[p].status \in {"none", "pending", "approved"} \cup Final
               /\ proposal[p].what \in Writes \cup {"none"}
               /\ proposal[p].createdAt \in 0 .. now
    <3>1. proposal[p] \in Entries /\ proposal[p].createdAt <= now /\ now \in 0 .. MaxTime
      BY <1>1 DEF IInv, Typed
    <3> QED
      BY <3>1, BrokerAssumption DEF Entries, Statuses, BrokerAssumption
  <2>2. ASSUME NEW c \in Calls
        PROVE  call[c] \in CallRecords /\ answer[c] \in Answers
    BY <1>1 DEF IInv, Typed
  <2>3. \A i \in DOMAIN pipe : pipe[i] \in Calls /\ call[pipe[i]].stage = "piped"
    BY <1>1 DEF IInv, Typed, Queued
  <2> QED
    BY <1>1, <2>1, <2>2, <2>3 DEF TypeOK, IInv, Typed, CallRecords, Stages, Asks, Slips, Answers
<1> QED
  BY <1>1, Inductive, PTL

\* The outside world sees a write only after a yes of the owner to this very
\* write, and one write for one yes (ApprovedOnce; write-approval.js:5).
THEOREM ApprovedOnceCorrect == ASSUME BrokerAssumption PROVE Spec => []ApprovedOnce
<1>1. ASSUME IInv PROVE ApprovedOnce
  <2>1. ASSUME NEW e \in executed
        PROVE  /\ e.call \in Calls
               /\ e = [call |-> e.call, what |-> call[e.call].what, by |-> call[e.call].by]
               /\ e.what = call[e.call].what /\ e.by = call[e.call].by
               /\ e.what \notin Redirects
               /\ e.what \in Writes => Acting(e.call)
    BY <1>1 DEF IInv, Seen, Acting, Done
  <2>2. ASSUME NEW e \in executed, e.what \in Writes
        PROVE  /\ e.by \in yes
               /\ proposal[e.by].what = e.what
               /\ \A f \in executed : f.what \in Writes /\ f.by = e.by => f = e
    <3>1. e.by \in yes /\ proposal[e.by].what = e.what
      BY <1>1, <2>1, <2>2 DEF IInv, Holds
    <3>2. ASSUME NEW f \in executed, f.what \in Writes, f.by = e.by PROVE f = e
      <4>1. f.call = e.call
        BY <1>1, <2>1, <2>2, <3>2 DEF IInv, Holds
      <4> QED
        BY <2>1, <4>1
    <3> QED
      BY <3>1, <3>2
  <2> QED
    BY <2>1, <2>2 DEF ApprovedOnce
<1> QED
  BY <1>1, Inductive, PTL

\* An answer of ok means the tool ran, an answer of denied that it never will
\* (HonestAnswers): what the agent hears is where the call ended, for good.
THEOREM HonestAnswersCorrect == ASSUME BrokerAssumption PROVE Spec => []HonestAnswers
<1>1. ASSUME IInv PROVE HonestAnswers
  <2>1. ASSUME NEW c \in Calls, answer[c] = "ok" PROVE Done(c) # {}
    BY <1>1, <2>1 DEF IInv, Heard
  <2>2. ASSUME NEW c \in Calls, answer[c] = "denied" PROVE Done(c) = {}
    <3>1. call[c].stage = "denied"
      BY <1>1, <2>2 DEF IInv, Heard
    <3> QED
      BY <1>1, <3>1 DEF IInv, Seen, Done
  <2> QED
    BY <2>1, <2>2 DEF HonestAnswers
<1> QED
  BY <1>1, Inductive, PTL

\* A proposal is approved and used before its deadline, the deadline never
\* moves, and a no, an expiry or a use is for good (DeadlineKept;
\* write-approval.js:13).
THEOREM DeadlineKeptCorrect == ASSUME BrokerAssumption PROVE Spec => DeadlineKept
<1>1. ASSUME IInv, [Next]_vars
      PROVE  [\A p \in Proposals : proposal'[p] # proposal[p] =>
                /\ proposal[p].status \notin Final
                /\ proposal[p].status # "none" => proposal'[p].createdAt = proposal[p].createdAt
                /\ proposal'[p].status \in {"approved", "consumed"} =>
                      now <= proposal[p].createdAt + Ttl]_vars
  <2>1. ASSUME NEW p \in Proposals, proposal'[p] # proposal[p]
        PROVE  /\ proposal[p].status \notin Final
               /\ proposal[p].status # "none" => proposal'[p].createdAt = proposal[p].createdAt
               /\ proposal'[p].status \in {"approved", "consumed"} =>
                     now <= proposal[p].createdAt + Ttl
    <3>1. /\ proposal[p].createdAt \in Nat /\ now \in Nat /\ Ttl \in Nat
      BY <1>1, BrokerAssumption DEF IInv, Typed, Entries, BrokerAssumption
    <3>2. proposal'[p].status \in {"approved", "consumed"} => ~expired(p)
      BY <1>1, <2>1, NextProposal, BrokerAssumption DEF IInv
    <3>3. ~expired(p) => now <= proposal[p].createdAt + Ttl
      BY <3>1 DEF expired
    <3>4. /\ proposal[p].status \in {"none", "pending", "approved"}
          /\ proposal[p].status # "none" => proposal'[p].createdAt = proposal[p].createdAt
      BY <1>1, <2>1, NextProposal, BrokerAssumption DEF IInv
    <3> QED
      BY <3>2, <3>3, <3>4 DEF Final
  <2> QED
    BY <2>1
<1> QED
  BY <1>1, Inductive, PTL DEF Spec, DeadlineKept
=============================================================================
