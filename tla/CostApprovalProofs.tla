------------------------- MODULE CostApprovalProofs -------------------------
(***************************************************************************)
(* Proofs about CostApproval for every number of messages, conversations,  *)
(* configurations and restarts.                                            *)
(***************************************************************************)
EXTENDS CostApproval, TLAPS

Idle(t) == turn[t].pc \in {"new", "ignored"}
Waiting(t) == turn[t].pc \in {"asking", "refused"}
Active(t) == Waiting(t) \/ turn[t].pc = "served"
Unpaid(r) == \A p \in paid : p.text # r

\* A turn that was never dispatched has no route, and nobody heard of it.
IdleTurns == \A t \in Turns : Idle(t) => turn[t].route = "none" /\ told[t] = "none" /\ Unpaid(t)

\* A fresh request asks for itself, and before it is served it is unpaid.
FreshTurns ==
    \A t \in Turns : Active(t) /\ turn[t].route = "none" =>
        /\ turn[t].text = t /\ told[t] = "none"
        /\ Waiting(t) => Unpaid(t)

\* r is a finished request of conversation c, its 402 put to the user there.
AskedIn(r, c) ==
    /\ r \in Turns
    /\ turn[r].pc = "done" /\ turn[r].conv = c
    /\ c \in Keyed
    /\ told[r] = "asked"

\* Nobody is replaying request r but, perhaps, turn q.
NobodyElse(q, r) == \A o \in Turns : Active(o) /\ turn[o].route # "none" /\ turn[o].text = r => o = q

\* An approval is pending for an unpaid request of its own conversation.
PendingApprovals ==
    \A c \in Convs : Asked(c) =>
        /\ AskedIn(pending[c].text, c)
        /\ pending[c].token \in {None, pending[c].text}
        /\ Unpaid(pending[c].text)
        /\ NobodyElse(None, pending[c].text)

\* A replay is the only one of its request.
ReplayTurns ==
    \A t \in Turns : Active(t) /\ turn[t].route # "none" =>
        /\ turn[t].word = turn[t].route
        /\ AskedIn(turn[t].text, turn[t].conv)
        /\ turn[t].token \in {None, turn[t].text}
        /\ Waiting(t) => Unpaid(turn[t].text)
        /\ NobodyElse(t, turn[t].text)

\* Whoever made a paid call is past the gate, and so is the request itself
\* when the call was approved.
PaidTurns ==
    \A p \in paid : /\ turn[p.by].pc \in {"served", "done", "lost"}
                    /\ p.gated => turn[p.text].pc = "done"

IInv ==
    /\ TypeOK
    /\ IdleTurns /\ FreshTurns /\ PendingApprovals /\ ReplayTurns /\ PaidTurns
    /\ SpendsApproved /\ HonestMessages
-----------------------------------------------------------------------------
(* How the turns and the tokens change. *)

\* A turn is replaced by another.
LEMMA TurnReplaced ==
    ASSUME turn \in [Turns -> TurnType], NEW t \in Turns, NEW r \in TurnType,
           turn' = [turn EXCEPT ![t] = r]
    PROVE  /\ turn' \in [Turns -> TurnType]
           /\ turn'[t] = r
           /\ \A o \in Turns : o # t => turn'[o] = turn[o]
OBVIOUS

\* Goto changes the place of one turn, and nothing else of it.
LEMMA GotoFrame ==
    ASSUME turn \in [Turns -> TurnType], NEW t \in Turns,
           NEW pc \in {"ignored", "served", "refused", "done"}, Goto(t, pc)
    PROVE  /\ turn' \in [Turns -> TurnType]
           /\ turn'[t].pc = pc
           /\ turn'[t].conv = turn[t].conv
           /\ turn'[t].word = turn[t].word
           /\ turn'[t].text = turn[t].text
           /\ turn'[t].route = turn[t].route
           /\ turn'[t].token = turn[t].token
           /\ \A o \in Turns : o # t => turn'[o] = turn[o]
<1>1. turn[t] \in TurnType
  OBVIOUS
<1>2. [turn[t] EXCEPT !.pc = pc] \in TurnType
  BY <1>1 DEF TurnType
<1>3. turn' = [turn EXCEPT ![t] = [turn[t] EXCEPT !.pc = pc]]
  BY DEF Goto
<1>4. /\ turn' \in [Turns -> TurnType]
      /\ turn'[t] = [turn[t] EXCEPT !.pc = pc]
      /\ \A o \in Turns : o # t => turn'[o] = turn[o]
  BY <1>2, <1>3, TurnReplaced
<1>5. QED
  BY <1>1, <1>4 DEF TurnType

\* A turn that ends without a request.
LEMMA EndedFrame ==
    ASSUME turn \in [Turns -> TurnType], NEW t \in Turns, NEW c \in Convs,
           NEW word \in {"request", "spend", "cancel"}, Ended(t, c, word)
    PROVE  /\ turn' \in [Turns -> TurnType]
           /\ turn'[t].pc = "done" /\ turn'[t].route = "none"
           /\ \A o \in Turns : o # t => turn'[o] = turn[o]
<1> DEFINE r == [NewTurn EXCEPT !.pc = "done", !.conv = c, !.word = word]
<1>1. r \in TurnType /\ r.pc = "done" /\ r.route = "none"
  BY DEF NewTurn, TurnType
<1>2. turn' = [turn EXCEPT ![t] = r]
  BY DEF Ended
<1> HIDE DEF r
<1>3. QED
  BY <1>1, <1>2, TurnReplaced

\* A turn that sends its request.
LEMMA AskingTyped ==
    ASSUME NEW c \in Convs, NEW word \in {"request", "spend", "local", "cancel"},
           NEW text \in Turns, NEW route \in {"none", "spend", "local"}, NEW token \in Turns \cup {None}
    PROVE  [pc |-> "asking", conv |-> c, word |-> word, text |-> text,
            route |-> route, token |-> token] \in TurnType
BY DEF TurnType

\* Presenting a token uses it up, and does not make it younger.
LEMMA ConsumedTyped ==
    ASSUME TypeOK, NEW t \in Turns
    PROVE  /\ Consumed(t) \in [Turns -> TokenType]
           /\ \A r \in Turns : Consumed(t)[r].ts = approvals[r].ts
<1>1. approvals \in [Turns -> TokenType] /\ turn[t].token \in Turns \cup {None}
  BY DEF TypeOK, TurnType
<1>2. CASE turn[t].token = None
  BY <1>1, <1>2 DEF Consumed
<1>3. CASE turn[t].token # None
  <2> DEFINE k == turn[t].token
  <2>1. k \in Turns /\ approvals[k] \in TokenType
    BY <1>1, <1>3
  <2>2. [approvals[k] EXCEPT !.live = FALSE] \in TokenType
        /\ [approvals[k] EXCEPT !.live = FALSE].ts = approvals[k].ts
    BY <2>1 DEF TokenType
  <2>3. Consumed(t) = [approvals EXCEPT ![k] = [approvals[k] EXCEPT !.live = FALSE]]
    BY <1>3 DEF Consumed
  <2> HIDE DEF k
  <2>4. QED
    BY <1>1, <2>1, <2>2, <2>3
<1>4. QED
  BY <1>2, <1>3

\* A token is minted.
LEMMA MintTyped ==
    ASSUME TypeOK, NEW t \in Turns, GateAsks(t)
    PROVE  /\ approvals' \in [Turns -> TokenType]
           /\ \A r \in Turns : r # t => approvals'[r].ts = approvals[r].ts
<1> DEFINE k == [live |-> TRUE, ts |-> now]
<1>1. k \in TokenType
  BY DEF TypeOK, TokenType
<1>2. approvals' = [Consumed(t) EXCEPT ![t] = k]
  BY DEF GateAsks
<1> HIDE DEF k
<1>3. QED
  BY <1>1, <1>2, ConsumedTyped
-----------------------------------------------------------------------------
(* Type correctness. *)

LEMMA InitTyped == Init => TypeOK
<1> SUFFICES ASSUME Init PROVE TypeOK
  OBVIOUS
<1>1. NewTurn \in TurnType /\ NoPending \in PendingType /\ NoToken \in TokenType
  BY DEF NewTurn, TurnType, NoPending, PendingType, NoToken, TokenType
<1>2. turn \in [Turns -> TurnType] /\ pending \in [Convs -> PendingType]
      /\ approvals \in [Turns -> TokenType]
  BY <1>1 DEF Init
<1>3. \A t \in Turns : turn[t].pc = "new"
  BY DEF Init, NewTurn
<1>4. QED
  BY <1>2, <1>3 DEF Init, TypeOK

LEMMA AskFreshTyped ==
    ASSUME TypeOK, NEW t \in Turns, NEW c \in Convs,
           NEW word \in {"request", "spend"}, AskFresh(t, c, word)
    PROVE  /\ TypeOK'
           /\ turn'[t].pc = "asking" /\ turn'[t].text = t /\ turn'[t].route = "none"
           /\ \A o \in Turns : o # t => turn'[o] = turn[o]
<1> DEFINE r == [pc |-> "asking", conv |-> c, word |-> word, text |-> t, route |-> "none",
                 token |-> None]
<1>1. r \in TurnType
  BY AskingTyped
<1>2. r.pc = "asking" /\ r.text = t /\ r.route = "none"
  OBVIOUS
<1>3. turn' = [turn EXCEPT ![t] = r]
  BY DEF AskFresh
<1> HIDE DEF r
<1>4. /\ turn' \in [Turns -> TurnType]
      /\ turn'[t] = r
      /\ \A o \in Turns : o # t => turn'[o] = turn[o]
  BY <1>1, <1>3, TurnReplaced DEF TypeOK
<1>5. TypeOK'
  BY <1>2, <1>4, CostAssumption DEF TypeOK, AskFresh
<1>6. QED
  BY <1>2, <1>4, <1>5

LEMMA ReplayTyped ==
    ASSUME TypeOK, NEW t \in Turns, NEW c \in Convs, NEW word \in {"spend", "local"},
           Replay(t, c, word)
    PROVE  /\ TypeOK'
           /\ turn'[t].pc = "asking" /\ turn'[t].conv = c /\ turn'[t].word = word
           /\ turn'[t].text = pending[c].text /\ turn'[t].route = word
           /\ turn'[t].token \in {None, pending[c].token}
           /\ \A o \in Turns : o # t => turn'[o] = turn[o]
<1> DEFINE token == IF word = "spend" THEN pending[c].token ELSE None
           r == [pc |-> "asking", conv |-> c, word |-> word, text |-> pending[c].text,
                 route |-> word, token |-> token]
<1>1. pending[c] \in PendingType /\ pending[c].text \in Turns /\ token \in Turns \cup {None}
  BY DEF TypeOK, PendingType, Replay, Asked
<1>2. token \in {None, pending[c].token}
  OBVIOUS
<1>3. turn' = [turn EXCEPT ![t] = r]
  BY DEF Replay
<1> HIDE DEF token
<1>4. r \in TurnType
  BY <1>1, AskingTyped
<1>5. /\ r.pc = "asking" /\ r.conv = c /\ r.word = word /\ r.text = pending[c].text
      /\ r.route = word /\ r.token = token
  OBVIOUS
<1> HIDE DEF r
<1>6. /\ turn' \in [Turns -> TurnType]
      /\ turn'[t] = r
      /\ \A o \in Turns : o # t => turn'[o] = turn[o]
  BY <1>3, <1>4, TurnReplaced DEF TypeOK
<1>7. pending' \in [Convs -> PendingType] /\ \A d \in Convs \ Keyed : pending'[d] = NoPending
  BY DEF TypeOK, Replay, NoPending, PendingType
<1>8. TypeOK'
  BY <1>1, <1>5, <1>6, <1>7, CostAssumption DEF TypeOK, Replay
<1>9. QED
  BY <1>2, <1>5, <1>6, <1>8

LEMMA EndsTyped ==
    ASSUME TypeOK, NEW t \in Turns, NEW c \in Convs,
           Unclear(t, c) \/ Cancel(t, c) \/ TokenMissing(t, c)
    PROVE  TypeOK'
<1>1. /\ turn' \in [Turns -> TurnType]
      /\ turn'[t].pc = "done"
      /\ \A o \in Turns : o # t => turn'[o] = turn[o]
  BY EndedFrame DEF TypeOK, Unclear, Cancel, TokenMissing
<1>2. pending' \in [Convs -> PendingType] /\ \A d \in Convs \ Keyed : pending'[d] = NoPending
  BY DEF TypeOK, Unclear, Cancel, TokenMissing, NoPending, PendingType
<1>3. told' \in [Turns -> {"none", "asked", "cancelled", "expired", "incomplete", "answered"}]
  BY DEF TypeOK, Unclear, Cancel, TokenMissing, Tell
<1>4. QED
  BY <1>1, <1>2, <1>3 DEF TypeOK, Unclear, Cancel, TokenMissing

LEMMA ServeTyped ==
    ASSUME TypeOK, NEW t \in Turns, NEW model, turn[t].pc = "asking", Serve(t, model),
           approvals' \in [Turns -> TokenType]
    PROVE  TypeOK'
<1>1. /\ turn' \in [Turns -> TurnType]
      /\ turn'[t].text = turn[t].text
      /\ \A o \in Turns : o # t => turn'[o] = turn[o]
  BY GotoFrame DEF TypeOK, Serve
<1>2. turn[t].text \in Turns
  BY DEF TypeOK, TurnType
<1>3. [by |-> t, text |-> turn[t].text, at |-> now, gated |-> Engaged] \in PaidType
  BY <1>2 DEF TypeOK, PaidType, Engaged, ConfigType
<1>4. paid' \subseteq PaidType
  BY <1>3 DEF TypeOK, Serve
<1>5. QED
  BY <1>1, <1>2, <1>4, CostAssumption DEF TypeOK, Serve

LEMMA RefuseTyped ==
    ASSUME TypeOK, NEW t \in Turns, turn[t].pc = "asking", Refuse(t),
           approvals' \in [Turns -> TokenType]
    PROVE  TypeOK'
<1>1. /\ turn' \in [Turns -> TurnType]
      /\ turn'[t].text = turn[t].text
      /\ \A o \in Turns : o # t => turn'[o] = turn[o]
  BY GotoFrame DEF TypeOK, Refuse
<1>2. QED
  BY <1>1 DEF TypeOK, Refuse

LEMMA GatewayTyped ==
    ASSUME TypeOK, NEW t \in Turns, Gateway(t)
    PROVE  TypeOK'
<1>1. Consumed(t) \in [Turns -> TokenType] /\ approvals \in [Turns -> TokenType]
  BY ConsumedTyped DEF TypeOK
<1>2. CASE GatePasses(t)
  BY <1>1, <1>2, ServeTyped DEF GatePasses
<1>3. CASE GateAsks(t)
  BY <1>3, MintTyped, RefuseTyped DEF GateAsks
<1>4. CASE GateBlind(t)
  <2>1. turn[t].pc = "asking" /\ approvals' \in [Turns -> TokenType]
    BY <1>1, <1>4 DEF GateBlind
  <2>2. Refuse(t) \/ Serve(t, config.model)
    BY <1>4 DEF GateBlind
  <2>3. QED
    BY <2>1, <2>2, RefuseTyped, ServeTyped
<1>5. QED
  BY <1>2, <1>3, <1>4 DEF Gateway

LEMMA ReplyTyped ==
    ASSUME TypeOK, NEW t \in Turns, Reply(t)
    PROVE  TypeOK'
<1>1. /\ turn' \in [Turns -> TurnType]
      /\ turn'[t].pc = "done"
      /\ \A o \in Turns : o # t => turn'[o] = turn[o]
  BY GotoFrame DEF TypeOK, Reply, Answered, Prompt, Incomplete
<1>2. [text |-> t, token |-> IF approvals[t].live THEN t ELSE None] \in PendingType
  BY DEF PendingType
<1>3. pending' \in [Convs -> PendingType] /\ \A d \in Convs \ Keyed : pending'[d] = NoPending
  BY <1>2, CostAssumption DEF TypeOK, Reply, Answered, Prompt, Incomplete
<1>4. told' \in [Turns -> {"none", "asked", "cancelled", "expired", "incomplete", "answered"}]
  BY DEF TypeOK, Reply, Answered, Prompt, Incomplete, Tell
<1>5. QED
  BY <1>1, <1>3, <1>4 DEF TypeOK, Reply, Answered, Prompt, Incomplete

LEMMA RestartTyped ==
    ASSUME TypeOK, Restart
    PROVE  /\ TypeOK'
           /\ \A t \in Turns : /\ turn'[t].pc \notin {"asking", "served", "refused"}
                               /\ Idle(t) \/ turn[t].pc = "done" => turn'[t] = turn[t]
                               /\ turn'[t].pc \in {"new", "ignored"} => turn'[t] = turn[t]
                               /\ turn'[t].conv = turn[t].conv
                               /\ turn'[t].word = turn[t].word
                               /\ turn[t].pc = "served" => turn'[t].pc = "lost"
                               /\ turn[t].pc = "lost" => turn'[t].pc = "lost"
                               /\ approvals'[t].ts = approvals[t].ts
<1>1. \A t \in Turns : /\ [turn[t] EXCEPT !.pc = "lost"] \in TurnType
                       /\ [turn[t] EXCEPT !.pc = "lost"].pc = "lost"
                       /\ [turn[t] EXCEPT !.pc = "lost"].conv = turn[t].conv
                       /\ [turn[t] EXCEPT !.pc = "lost"].word = turn[t].word
  BY DEF TypeOK, TurnType
<1>2. \A t \in Turns :
          turn'[t] = IF turn[t].pc \in {"asking", "served", "refused"}
                     THEN [turn[t] EXCEPT !.pc = "lost"] ELSE turn[t]
  BY DEF Restart
<1>3. turn' \in [Turns -> TurnType]
  <2>1. turn' = [t \in Turns |-> IF turn[t].pc \in {"asking", "served", "refused"}
                                 THEN [turn[t] EXCEPT !.pc = "lost"] ELSE turn[t]]
    BY DEF Restart
  <2>2. \A t \in Turns : turn[t] \in TurnType
    BY DEF TypeOK
  <2>3. QED
    BY <1>1, <2>1, <2>2
<1>4. \A t \in Turns : /\ [approvals[t] EXCEPT !.live = FALSE] \in TokenType
                       /\ [approvals[t] EXCEPT !.live = FALSE].ts = approvals[t].ts
  BY DEF TypeOK, TokenType
<1>5. approvals' = [t \in Turns |-> [approvals[t] EXCEPT !.live = FALSE]]
  BY DEF Restart
<1>6. approvals' \in [Turns -> TokenType] /\ \A t \in Turns : approvals'[t].ts = approvals[t].ts
  BY <1>4, <1>5
<1>7. pending' \in [Convs -> PendingType] /\ \A d \in Convs \ Keyed : pending'[d] = NoPending
  BY CostAssumption DEF Restart, NoPending, PendingType
<1>8. \A t \in Turns : turn'[t].pc \notin {"asking", "served", "refused"}
  BY <1>1, <1>2
<1>9. TypeOK'
  BY <1>3, <1>6, <1>7, <1>8 DEF TypeOK, Restart
<1>10. QED
  BY <1>1, <1>2, <1>6, <1>8, <1>9 DEF Idle

LEMMA NextTyped == TypeOK /\ [Next]_vars => TypeOK'
<1> SUFFICES ASSUME TypeOK, [Next]_vars PROVE TypeOK'
  OBVIOUS
<1>1. CASE UNCHANGED vars
  BY <1>1 DEF vars, TypeOK
<1>2. CASE Tick \/ Reload
  BY <1>2 DEF Tick, Reload, TypeOK
<1>3. CASE Restart
  BY <1>3, RestartTyped
<1>4. ASSUME NEW t \in Turns, Ignore(t) PROVE TypeOK'
  BY <1>4, GotoFrame DEF Ignore, TypeOK
<1>5. ASSUME NEW t \in Turns, NEW c \in Convs, 
             \/ \E word \in {"request", "spend"} : AskFresh(t, c, word)
             \/ Unclear(t, c) \/ Cancel(t, c) \/ TokenMissing(t, c)
             \/ \E word \in {"spend", "local"} : Replay(t, c, word)
      PROVE TypeOK'
  BY <1>5, AskFreshTyped, ReplayTyped, EndsTyped
<1>6. ASSUME NEW t \in Turns, Gateway(t) \/ Reply(t) PROVE TypeOK'
  BY <1>6, GatewayTyped, ReplyTyped
<1>7. QED
  BY <1>1, <1>2, <1>3, <1>4, <1>5, <1>6 DEF Next, Dispatch

\* Every step of the channels and of the gateway keeps the types of the state.
THEOREM TypeCorrect == Spec => []TypeOK
<1>1. QED
  BY InitTyped, NextTyped, PTL DEF Spec
-----------------------------------------------------------------------------
(* The inductive invariant: every action keeps each of its parts. *)

LEMMA InitInv == Init => IInv
<1> SUFFICES ASSUME Init PROVE IInv
  OBVIOUS
<1>1. \A t \in Turns : turn[t].pc = "new" /\ turn[t].route = "none" /\ told[t] = "none"
  BY DEF Init, NewTurn
<1>2. \A c \in Convs : ~Asked(c)
  BY DEF Init, NoPending, Asked
<1>3. paid = {}
  BY DEF Init
<1>4. QED
  BY InitTyped, <1>1, <1>2, <1>3
  DEF IInv, IdleTurns, FreshTurns, PendingApprovals, ReplayTurns, PaidTurns, SpendsApproved,
      HonestMessages, Idle, Waiting, Active, Unpaid

LEMMA IgnoreInv ==
    ASSUME IInv, TypeOK', NEW t \in Turns, Ignore(t)
    PROVE  IInv'
<1>1. /\ turn[t].pc = "new" /\ turn'[t].pc = "ignored"
      /\ turn'[t].conv = turn[t].conv /\ turn'[t].word = turn[t].word
      /\ turn'[t].route = turn[t].route
      /\ \A o \in Turns : o # t => turn'[o] = turn[o]
  BY GotoFrame DEF Ignore, IInv, TypeOK
<1>2. UNCHANGED <<pending, approvals, told, paid>>
  BY DEF Ignore
<1> USE <1>1, <1>2 DEF IInv, Idle, Waiting, Active, Unpaid
<1>3. IdleTurns'
  BY DEF IdleTurns
<1>4. FreshTurns'
  BY DEF FreshTurns
<1>5. PendingApprovals'
  BY DEF PendingApprovals, AskedIn, NobodyElse, Asked
<1>6. ReplayTurns'
  BY DEF ReplayTurns, AskedIn, NobodyElse
<1>7. PaidTurns'
  BY DEF PaidTurns, TypeOK, PaidType
<1>8. SpendsApproved' /\ HonestMessages'
  BY DEF SpendsApproved, HonestMessages, TypeOK, PaidType
<1>9. QED
  BY <1>3, <1>4, <1>5, <1>6, <1>7, <1>8

LEMMA AskFreshInv ==
    ASSUME IInv, TypeOK', NEW t \in Turns, NEW c \in Convs,
           NEW word \in {"request", "spend"}, AskFresh(t, c, word)
    PROVE  IInv'
<1>1. /\ turn[t].pc = "new"
      /\ turn'[t].pc = "asking" /\ turn'[t].text = t /\ turn'[t].route = "none"
      /\ \A o \in Turns : o # t => turn'[o] = turn[o]
  BY AskFreshTyped DEF AskFresh, IInv
<1>2. UNCHANGED <<pending, approvals, told, paid>>
  BY DEF AskFresh
<1> USE <1>1, <1>2 DEF IInv, Idle, Waiting, Active, Unpaid
<1>3. told[t] = "none" /\ Unpaid(t)
  BY DEF IdleTurns
<1>4. IdleTurns'
  BY DEF IdleTurns
<1>5. FreshTurns'
  BY <1>3 DEF FreshTurns
<1>6. PendingApprovals'
  BY DEF PendingApprovals, AskedIn, NobodyElse, Asked
<1>7. ReplayTurns'
  BY DEF ReplayTurns, AskedIn, NobodyElse
<1>8. PaidTurns'
  BY DEF PaidTurns, TypeOK, PaidType
<1>9. SpendsApproved' /\ HonestMessages'
  BY <1>3 DEF SpendsApproved, HonestMessages, PaidTurns, TypeOK, PaidType
<1>10. QED
  BY <1>4, <1>5, <1>6, <1>7, <1>8, <1>9

LEMMA UnclearInv ==
    ASSUME IInv, TypeOK', NEW t \in Turns, NEW c \in Convs, Unclear(t, c)
    PROVE  IInv'
<1>1. /\ turn[t].pc = "new" /\ turn'[t].pc = "done" /\ turn'[t].route = "none"
      /\ \A o \in Turns : o # t => turn'[o] = turn[o]
  BY EndedFrame DEF Unclear, IInv, TypeOK
<1>2. UNCHANGED <<pending, approvals, told, paid>>
  BY DEF Unclear
<1> USE <1>1, <1>2 DEF IInv, Idle, Waiting, Active, Unpaid
<1>3. Unpaid(t)
  BY DEF IdleTurns
<1>4. IdleTurns'
  BY DEF IdleTurns
<1>5. FreshTurns'
  BY DEF FreshTurns
<1>6. PendingApprovals'
  BY DEF PendingApprovals, AskedIn, NobodyElse, Asked
<1>7. ReplayTurns'
  BY DEF ReplayTurns, AskedIn, NobodyElse
<1>8. PaidTurns'
  BY DEF PaidTurns, TypeOK, PaidType
<1>9. SpendsApproved' /\ HonestMessages'
  BY <1>3 DEF SpendsApproved, HonestMessages, PaidTurns, TypeOK, PaidType
<1>10. QED
  BY <1>4, <1>5, <1>6, <1>7, <1>8, <1>9

\* A request is told that it ends unpaid: nobody else is at work for it.
LEMMA DroppedInv ==
    ASSUME IInv, TypeOK', NEW t \in Turns, NEW c \in Convs, Cancel(t, c) \/ TokenMissing(t, c)
    PROVE  IInv'
<1> DEFINE r == pending[c].text
<1>1. /\ turn[t].pc = "new" /\ turn'[t].pc = "done" /\ turn'[t].route = "none"
      /\ \A o \in Turns : o # t => turn'[o] = turn[o]
  BY EndedFrame DEF Cancel, TokenMissing, IInv, TypeOK
<1>2. /\ Asked(c) /\ ~Asked(c)'
      /\ \A d \in Convs : d # c => pending'[d] = pending[d]
  BY DEF Cancel, TokenMissing, Asked, NoPending, IInv, TypeOK
<1>3. UNCHANGED <<approvals, paid>>
  BY DEF Cancel, TokenMissing
<1>4. /\ AskedIn(r, c) /\ Unpaid(r) /\ NobodyElse(None, r)
      /\ r \in Turns /\ turn[r].pc = "done" /\ r # t
  BY <1>1, <1>2 DEF IInv, PendingApprovals, AskedIn
<1>5. /\ told'[r] \in {"cancelled", "expired"}
      /\ \A o \in Turns : o # r => told'[o] = told[o]
  BY <1>4 DEF Cancel, TokenMissing, Tell, IInv, TypeOK
<1>6. \A d \in Convs : Asked(d) /\ d # c => pending[d].text # r
  BY <1>4 DEF IInv, PendingApprovals, AskedIn
<1>7. \A o \in Turns : Active(o) /\ turn[o].route # "none" => turn[o].text # r
  BY <1>4, CostAssumption DEF NobodyElse
<1> HIDE DEF r
<1> USE <1>1, <1>3, <1>4, <1>5 DEF IInv, Idle, Waiting, Active, Unpaid
<1>8. Unpaid(t)
  BY DEF IdleTurns
<1>9. IdleTurns'
  BY DEF IdleTurns
<1>10. FreshTurns'
  BY DEF FreshTurns
<1>11. PendingApprovals'
  BY <1>2, <1>6 DEF PendingApprovals, AskedIn, NobodyElse, Asked
<1>12. ReplayTurns'
  BY <1>7 DEF ReplayTurns, AskedIn, NobodyElse
<1>13. PaidTurns'
  BY DEF PaidTurns, TypeOK, PaidType
<1>14. SpendsApproved' /\ HonestMessages'
  BY <1>8 DEF SpendsApproved, HonestMessages, PaidTurns, TypeOK, PaidType
<1>15. QED
  BY <1>9, <1>10, <1>11, <1>12, <1>13, <1>14

LEMMA ReplayInv ==
    ASSUME IInv, TypeOK', NEW t \in Turns, NEW c \in Convs, NEW word \in {"spend", "local"},
           Replay(t, c, word)
    PROVE  IInv'
<1> DEFINE r == pending[c].text
<1>1. /\ turn[t].pc = "new"
      /\ turn'[t].pc = "asking" /\ turn'[t].conv = c /\ turn'[t].word = word
      /\ turn'[t].text = r /\ turn'[t].route = word
      /\ turn'[t].token \in {None, pending[c].token}
      /\ \A o \in Turns : o # t => turn'[o] = turn[o]
  BY ReplayTyped DEF Replay, IInv
<1>2. /\ Asked(c) /\ ~Asked(c)'
      /\ \A d \in Convs : d # c => pending'[d] = pending[d]
  BY DEF Replay, Asked, NoPending, IInv, TypeOK
<1>3. UNCHANGED <<approvals, told, paid>>
  BY DEF Replay
<1>4. /\ AskedIn(r, c) /\ Unpaid(r) /\ NobodyElse(None, r) /\ pending[c].token \in {None, r}
      /\ r \in Turns /\ turn[r].pc = "done" /\ r # t
  BY <1>1, <1>2 DEF IInv, PendingApprovals, AskedIn
<1>5. \A d \in Convs : Asked(d) /\ d # c => pending[d].text # r
  BY <1>4 DEF IInv, PendingApprovals, AskedIn
<1>6. \A o \in Turns : Active(o) /\ turn[o].route # "none" => turn[o].text # r
  BY <1>4, CostAssumption DEF NobodyElse
<1> HIDE DEF r
<1> USE <1>1, <1>3, <1>4 DEF IInv, Idle, Waiting, Active, Unpaid
<1>7. Unpaid(t)
  BY DEF IdleTurns
<1>8. IdleTurns'
  BY DEF IdleTurns
<1>9. FreshTurns'
  BY DEF FreshTurns
<1>10. PendingApprovals'
  BY <1>2, <1>5 DEF PendingApprovals, AskedIn, NobodyElse, Asked
<1>11. ReplayTurns'
  BY <1>6 DEF ReplayTurns, AskedIn, NobodyElse
<1>12. PaidTurns'
  BY DEF PaidTurns, TypeOK, PaidType
<1>13. SpendsApproved' /\ HonestMessages'
  BY <1>7 DEF SpendsApproved, HonestMessages, PaidTurns, TypeOK, PaidType
<1>14. QED
  BY <1>8, <1>9, <1>10, <1>11, <1>12, <1>13

\* The place of an asking turn changes, and nothing was paid.
LEMMA RefusedInv ==
    ASSUME IInv, TypeOK', NEW t \in Turns, turn[t].pc = "asking", Refuse(t),
           \A r \in Turns : r # t => approvals'[r].ts = approvals[r].ts
    PROVE  IInv'
<1>1. /\ turn'[t].pc = "refused"
      /\ turn'[t].conv = turn[t].conv /\ turn'[t].word = turn[t].word
      /\ turn'[t].text = turn[t].text /\ turn'[t].route = turn[t].route
      /\ turn'[t].token = turn[t].token
      /\ \A o \in Turns : o # t => turn'[o] = turn[o]
  BY GotoFrame DEF Refuse, IInv, TypeOK
<1>2. UNCHANGED <<pending, told, paid>>
  BY DEF Refuse
<1> USE <1>1, <1>2 DEF IInv, Idle, Waiting, Active, Unpaid
<1>3. IdleTurns'
  BY DEF IdleTurns
<1>4. FreshTurns'
  BY DEF FreshTurns
<1>5. PendingApprovals'
  BY DEF PendingApprovals, AskedIn, NobodyElse, Asked
<1>6. ReplayTurns'
  BY DEF ReplayTurns, AskedIn, NobodyElse
<1>7. PaidTurns'
  BY DEF PaidTurns, TypeOK, PaidType
<1>8. SpendsApproved' /\ HonestMessages'
  BY DEF SpendsApproved, HonestMessages, PaidTurns, TypeOK, PaidType
<1>9. QED
  BY <1>3, <1>4, <1>5, <1>6, <1>7, <1>8

\* Nobody but turn t is at work for the request it carries.
LEMMA OwnRequest ==
    ASSUME IInv, NEW t \in Turns, turn[t].pc \in {"asking", "served", "refused"}
    PROVE  /\ turn[t].text \in Turns
           /\ turn[t].route = "none" => turn[t].text = t
           /\ turn[t].route # "none" => AskedIn(turn[t].text, turn[t].conv)
           /\ \A o \in Turns : Idle(o) => turn[t].text # o
           /\ \A o \in Turns : Active(o) /\ o # t => turn[o].text # turn[t].text
           /\ \A c \in Convs : Asked(c) => pending[c].text # turn[t].text
<1>1. turn[t].text \in Turns /\ Active(t)
  BY DEF IInv, TypeOK, TurnType, Active, Waiting
<1>2. CASE turn[t].route = "none"
  <2>1. turn[t].text = t
    BY <1>1, <1>2 DEF IInv, FreshTurns
  <2>2. \A o \in Turns : Active(o) /\ o # t => turn[o].text # t
    BY <1>1 DEF IInv, FreshTurns, ReplayTurns, AskedIn, Active, Waiting
  <2>3. \A c \in Convs : Asked(c) => pending[c].text # t
    BY DEF IInv, PendingApprovals, AskedIn
  <2>4. QED
    BY <1>1, <1>2, <2>1, <2>2, <2>3 DEF Idle
<1>3. CASE turn[t].route # "none"
  <2>1. AskedIn(turn[t].text, turn[t].conv) /\ NobodyElse(t, turn[t].text)
    BY <1>1, <1>3 DEF IInv, ReplayTurns
  <2>2. \A o \in Turns : Active(o) /\ o # t => turn[o].text # turn[t].text
    BY <2>1 DEF IInv, FreshTurns, NobodyElse, AskedIn, Active, Waiting
  <2>3. \A c \in Convs : Asked(c) => pending[c].text # turn[t].text
    BY <1>1, <1>3, CostAssumption DEF IInv, PendingApprovals, NobodyElse
  <2>4. QED
    BY <1>1, <1>3, <2>1, <2>2, <2>3 DEF Idle, AskedIn
<1>4. QED
  BY <1>2, <1>3

\* A call that bills nobody.
LEMMA ServedFreeInv ==
    ASSUME IInv, TypeOK', NEW t \in Turns, NEW model, turn[t].pc = "asking",
           Serve(t, model), model # "byok",
           \A r \in Turns : approvals'[r].ts = approvals[r].ts
    PROVE  IInv'
<1>1. /\ turn'[t].pc = "served"
      /\ turn'[t].conv = turn[t].conv /\ turn'[t].word = turn[t].word
      /\ turn'[t].text = turn[t].text /\ turn'[t].route = turn[t].route
      /\ turn'[t].token = turn[t].token
      /\ \A o \in Turns : o # t => turn'[o] = turn[o]
  BY GotoFrame DEF Serve, IInv, TypeOK
<1>2. UNCHANGED <<pending, told, paid>>
  BY DEF Serve
<1> USE <1>1, <1>2 DEF IInv, Idle, Waiting, Active, Unpaid
<1>3. IdleTurns'
  BY DEF IdleTurns
<1>4. FreshTurns'
  BY DEF FreshTurns
<1>5. PendingApprovals'
  BY DEF PendingApprovals, AskedIn, NobodyElse, Asked
<1>6. ReplayTurns'
  BY DEF ReplayTurns, AskedIn, NobodyElse
<1>7. PaidTurns'
  BY DEF PaidTurns, TypeOK, PaidType
<1>8. SpendsApproved' /\ HonestMessages'
  BY DEF SpendsApproved, HonestMessages, PaidTurns, TypeOK, PaidType
<1>9. QED
  BY <1>3, <1>4, <1>5, <1>6, <1>7, <1>8

\* A gated paid call needs a replay with a yes, and a token young enough.
LEMMA PaidByConsent ==
    ASSUME TypeOK, NEW t \in Turns, Engaged, plan(t) \notin {"approval-required", "reroute"},
           config.model = "byok"
    PROVE  turn[t].route = "spend" /\ approvalOk(t)
<1>1. config \in ConfigType /\ config.keys
  BY CostAssumption DEF TypeOK
<1>2. decideRoute = "approval-required"
  BY <1>1 DEF decideRoute, Backed, Engaged, ConfigType
<1>3. QED
  BY <1>2 DEF plan

\* A call to a paid provider.
LEMMA ServedPaidInv ==
    ASSUME IInv, TypeOK', NEW t \in Turns, turn[t].pc = "asking", Serve(t, "byok"),
           \A r \in Turns : approvals'[r].ts = approvals[r].ts,
           Engaged => turn[t].route = "spend" /\ approvalOk(t)
    PROVE  IInv'
<1> DEFINE r == turn[t].text
           q == [by |-> t, text |-> r, at |-> now, gated |-> Engaged]
<1>1. /\ turn'[t].pc = "served"
      /\ turn'[t].conv = turn[t].conv /\ turn'[t].word = turn[t].word
      /\ turn'[t].text = r /\ turn[t].text = r /\ turn'[t].route = turn[t].route
      /\ turn'[t].token = turn[t].token
      /\ \A o \in Turns : o # t => turn'[o] = turn[o]
  BY GotoFrame DEF Serve, IInv, TypeOK
<1>2. UNCHANGED <<pending, told>>
  BY DEF Serve
<1>3. paid' = paid \cup {q} /\ q.by = t /\ q.text = r /\ q.at = now /\ q.gated = Engaged
  BY DEF Serve
<1>4. Active(t) /\ Waiting(t)
  BY DEF Active, Waiting
<1>5. /\ r \in Turns
      /\ turn[t].route = "none" => r = t
      /\ turn[t].route # "none" => AskedIn(r, turn[t].conv)
      /\ \A o \in Turns : Idle(o) => r # o
      /\ \A o \in Turns : Active(o) /\ o # t => turn[o].text # r
      /\ \A c \in Convs : Asked(c) => pending[c].text # r
  BY OwnRequest
<1>6. Unpaid(r) /\ told[r] \in {"none", "asked"}
  BY <1>4, <1>5 DEF IInv, FreshTurns, ReplayTurns, AskedIn
<1>7. Engaged => /\ turn[t].word = "spend" /\ r # t
                 /\ turn[r].pc = "done" /\ turn[r].conv = turn[t].conv /\ turn[t].conv \in Keyed
                 /\ now - approvals[r].ts <= Ttl
  <2> SUFFICES ASSUME Engaged
               PROVE  /\ turn[t].word = "spend" /\ r # t
                      /\ turn[r].pc = "done" /\ turn[r].conv = turn[t].conv
                      /\ turn[t].conv \in Keyed
                      /\ now - approvals[r].ts <= Ttl
    OBVIOUS
  <2>1. turn[t].route = "spend" /\ approvalOk(t)
    OBVIOUS
  <2>2. turn[t].word = "spend" /\ turn[t].token = r
    BY <1>4, <2>1 DEF IInv, ReplayTurns, approvalOk
  <2>3. AskedIn(r, turn[t].conv)
    BY <1>5, <2>1
  <2>4. QED
    BY <2>1, <2>2, <2>3 DEF approvalOk, AskedIn
<1> HIDE DEF r, q
<1> USE <1>1, <1>2, <1>3 DEF IInv, Unpaid
<1>8. IdleTurns'
  BY <1>5 DEF IdleTurns, Idle
<1>9. FreshTurns'
  BY <1>5 DEF FreshTurns, Active, Waiting
<1>10. PendingApprovals'
  BY <1>5 DEF PendingApprovals, AskedIn, NobodyElse, Asked, Active, Waiting
<1>11. ReplayTurns'
  BY <1>5 DEF ReplayTurns, AskedIn, NobodyElse, Active, Waiting
<1>12. PaidTurns'
  BY <1>7 DEF PaidTurns, TypeOK, PaidType
<1>13. SpendsApproved'
  <2>1. \A p \in paid : p.by \in Turns /\ p.text \in Turns
    BY DEF TypeOK, PaidType
  <2>2. \A p \in paid : p.by # t
    BY DEF PaidTurns
  <2>3. \A p \in paid : p.text # r
    BY <1>6
  <2>4. ASSUME NEW p \in paid, p.gated
        PROVE  /\ turn'[p.by].word = "spend" /\ p.by # p.text
               /\ turn'[p.by].conv = turn'[p.text].conv /\ turn'[p.by].conv \in Keyed
               /\ p.at - approvals'[p.text].ts <= Ttl
               /\ \A o \in paid' : o.text = p.text => o = p
    BY <2>1, <2>2, <2>3, <2>4 DEF SpendsApproved
  <2>5. ASSUME q.gated
        PROVE  /\ turn'[q.by].word = "spend" /\ q.by # q.text
               /\ turn'[q.by].conv = turn'[q.text].conv /\ turn'[q.by].conv \in Keyed
               /\ q.at - approvals'[q.text].ts <= Ttl
               /\ \A o \in paid' : o.text = q.text => o = q
    BY <1>5, <1>7, <2>3, <2>5
  <2>6. QED
    BY <2>4, <2>5 DEF SpendsApproved
<1>14. HonestMessages'
  BY <1>6 DEF HonestMessages
<1>15. QED
  BY <1>8, <1>9, <1>10, <1>11, <1>12, <1>13, <1>14

LEMMA GatewayInv ==
    ASSUME IInv, TypeOK', NEW t \in Turns, Gateway(t)
    PROVE  IInv'
<1>1. TypeOK /\ turn[t].pc = "asking"
  BY DEF IInv, Gateway, GatePasses, GateAsks, GateBlind
<1>2. \A r \in Turns : Consumed(t)[r].ts = approvals[r].ts
  BY <1>1, ConsumedTyped
<1>3. CASE GatePasses(t)
  <2> DEFINE model == IF Engaged /\ plan(t) = "reroute" THEN "local" ELSE config.model
  <2>1. Serve(t, model) /\ \A r \in Turns : approvals'[r].ts = approvals[r].ts
    BY <1>2, <1>3 DEF GatePasses
  <2>2. model = "byok" /\ Engaged => turn[t].route = "spend" /\ approvalOk(t)
    BY <1>1, <1>3, PaidByConsent DEF GatePasses
  <2> HIDE DEF model
  <2>3. CASE model = "byok"
    BY <1>1, <2>1, <2>2, <2>3, ServedPaidInv
  <2>4. CASE model # "byok"
    BY <1>1, <2>1, <2>4, ServedFreeInv
  <2>5. QED
    BY <2>3, <2>4
<1>4. CASE GateAsks(t)
  BY <1>1, <1>4, MintTyped, RefusedInv DEF GateAsks
<1>5. CASE GateBlind(t)
  <2>1. \A r \in Turns : approvals'[r].ts = approvals[r].ts
    BY <1>2, <1>5 DEF GateBlind
  <2>2. CASE config.model = "byok"
    BY <1>1, <1>5, <2>1, <2>2, RefusedInv DEF GateBlind
  <2>3. CASE config.model # "byok"
    BY <1>1, <1>5, <2>1, <2>3, ServedFreeInv DEF GateBlind
  <2>4. QED
    BY <2>2, <2>3
<1>6. QED
  BY <1>3, <1>4, <1>5 DEF Gateway

\* The reply of a turn that has been served, or could not be completed.
LEMMA ToldInv ==
    ASSUME IInv, TypeOK', NEW t \in Turns, Answered(t) \/ Incomplete(t)
    PROVE  IInv'
<1> DEFINE r == turn[t].text
<1>1. /\ turn[t].pc \in {"served", "refused"}
      /\ turn[t].pc = "refused" => turn[t].route # "none"
  BY DEF Answered, Incomplete
<1>2. /\ turn'[t].pc = "done"
      /\ turn'[t].conv = turn[t].conv /\ turn'[t].word = turn[t].word
      /\ \A o \in Turns : o # t => turn'[o] = turn[o]
  BY GotoFrame DEF Answered, Incomplete, IInv, TypeOK
<1>3. UNCHANGED <<pending, approvals, paid>>
  BY DEF Answered, Incomplete
<1>4. /\ r \in Turns
      /\ \A o \in Turns : Idle(o) => r # o
      /\ \A o \in Turns : Active(o) /\ o # t => turn[o].text # r
      /\ \A c \in Convs : Asked(c) => pending[c].text # r
  BY <1>1, OwnRequest
<1>5. told'[r] \in {"answered", "incomplete"} /\ \A o \in Turns : o # r => told'[o] = told[o]
  BY <1>4 DEF Answered, Incomplete, Tell, IInv, TypeOK
<1>6. told'[r] = "incomplete" => Unpaid(r)
  <2>1. CASE Answered(t)
    BY <1>4, <2>1 DEF Answered, Tell, IInv, TypeOK
  <2>2. CASE Incomplete(t)
    BY <2>2 DEF Incomplete, IInv, ReplayTurns, Active, Waiting
  <2>3. QED
    BY <2>1, <2>2
<1> HIDE DEF r
<1> USE <1>1, <1>2, <1>3, <1>4, <1>5 DEF IInv, Unpaid
<1>7. IdleTurns'
  BY DEF IdleTurns, Idle
<1>8. FreshTurns'
  BY DEF FreshTurns, Active, Waiting
<1>9. PendingApprovals'
  BY DEF PendingApprovals, AskedIn, NobodyElse, Asked, Active, Waiting
<1>10. ReplayTurns'
  BY DEF ReplayTurns, AskedIn, NobodyElse, Active, Waiting
<1>11. PaidTurns'
  BY DEF PaidTurns, TypeOK, PaidType
<1>12. SpendsApproved'
  BY DEF SpendsApproved, TypeOK, PaidType
<1>13. HonestMessages'
  BY <1>6 DEF HonestMessages, TypeOK, PaidType
<1>14. QED
  BY <1>7, <1>8, <1>9, <1>10, <1>11, <1>12, <1>13

\* The user is asked about a fresh request.
LEMMA PromptInv ==
    ASSUME IInv, TypeOK', NEW t \in Turns, Prompt(t)
    PROVE  IInv'
<1> DEFINE c == turn[t].conv
<1>1. turn[t].pc = "refused" /\ turn[t].route = "none"
  BY DEF Prompt
<1>2. /\ turn'[t].pc = "done" /\ turn'[t].conv = c /\ turn'[t].word = turn[t].word
      /\ \A o \in Turns : o # t => turn'[o] = turn[o]
  BY GotoFrame DEF Prompt, IInv, TypeOK
<1>3. UNCHANGED <<approvals, paid>>
  BY DEF Prompt
<1>4. Unpaid(t)
  BY <1>1 DEF IInv, FreshTurns, Active, Waiting
<1>5. \A o \in Turns : Active(o) /\ o # t => turn[o].text # t
  BY <1>1, OwnRequest DEF IInv, FreshTurns, Active, Waiting
<1>6. told'[t] = "asked" /\ \A o \in Turns : o # t => told'[o] = told[o]
  BY DEF Prompt, Tell, IInv, TypeOK
<1>7. \A d \in Convs : \/ pending'[d] = pending[d]
                       \/ /\ d = c /\ c \in Keyed
                          /\ pending'[d].text = t /\ pending'[d].token \in {None, t}
  BY DEF Prompt, IInv, TypeOK
<1>8. \A p \in paid : p.by # t
  BY <1>1 DEF IInv, PaidTurns
<1> HIDE DEF c
<1> USE <1>1, <1>2, <1>3, <1>4, <1>5, <1>6 DEF IInv, Unpaid
<1>9. IdleTurns'
  BY DEF IdleTurns, Idle
<1>10. FreshTurns'
  BY DEF FreshTurns, Active, Waiting
<1>11. PendingApprovals'
  <2> SUFFICES ASSUME NEW d \in Convs, Asked(d)'
               PROVE  /\ AskedIn(pending[d].text, d)'
                      /\ pending'[d].token \in {None, pending'[d].text}
                      /\ Unpaid(pending[d].text)'
                      /\ NobodyElse(None, pending[d].text)'
    BY DEF PendingApprovals
  <2>1. CASE pending'[d] = pending[d]
    BY <2>1 DEF PendingApprovals, AskedIn, NobodyElse, Asked, Active, Waiting
  <2>2. CASE d = c /\ c \in Keyed /\ pending'[d].text = t /\ pending'[d].token \in {None, t}
    BY <2>2 DEF AskedIn, NobodyElse, Active, Waiting
  <2>3. QED
    BY <1>7, <2>1, <2>2
<1>12. ReplayTurns'
  BY DEF ReplayTurns, AskedIn, NobodyElse, Active, Waiting
<1>13. PaidTurns'
  BY <1>8 DEF PaidTurns, TypeOK, PaidType
<1>14. SpendsApproved' /\ HonestMessages'
  BY <1>8 DEF SpendsApproved, HonestMessages, TypeOK, PaidType
<1>15. QED
  BY <1>9, <1>10, <1>11, <1>12, <1>13, <1>14

LEMMA RestartInv ==
    ASSUME IInv, TypeOK', Restart
    PROVE  IInv'
<1>1. \A t \in Turns : /\ turn'[t].pc \notin {"asking", "served", "refused"}
                       /\ Idle(t) \/ turn[t].pc = "done" => turn'[t] = turn[t]
                       /\ turn'[t].pc \in {"new", "ignored"} => turn'[t] = turn[t]
                       /\ turn'[t].conv = turn[t].conv
                       /\ turn'[t].word = turn[t].word
                       /\ turn[t].pc = "served" => turn'[t].pc = "lost"
                       /\ turn[t].pc = "lost" => turn'[t].pc = "lost"
                       /\ approvals'[t].ts = approvals[t].ts
  BY RestartTyped DEF IInv
<1>2. UNCHANGED <<told, paid>> /\ \A c \in Convs : ~Asked(c)'
  BY DEF Restart, Asked, NoPending
<1> USE <1>1, <1>2 DEF IInv, Unpaid
<1>3. IdleTurns'
  BY DEF IdleTurns, Idle
<1>4. FreshTurns' /\ ReplayTurns'
  BY DEF FreshTurns, ReplayTurns, Active, Waiting
<1>5. PendingApprovals'
  BY DEF PendingApprovals
<1>6. PaidTurns'
  BY DEF PaidTurns, TypeOK, PaidType
<1>7. SpendsApproved' /\ HonestMessages'
  BY DEF SpendsApproved, HonestMessages, TypeOK, PaidType
<1>8. QED
  BY <1>3, <1>4, <1>5, <1>6, <1>7

\* The clock, a new configuration, or a step that changes nothing.
LEMMA QuietInv ==
    ASSUME IInv, TypeOK', UNCHANGED <<turn, pending, approvals, told, paid>>
    PROVE  IInv'
BY DEF IInv, IdleTurns, FreshTurns, PendingApprovals, ReplayTurns, PaidTurns, SpendsApproved,
       HonestMessages, Idle, Waiting, Active, Unpaid, AskedIn, NobodyElse, Asked

LEMMA NextInv == IInv /\ [Next]_vars => IInv'
<1> SUFFICES ASSUME IInv, [Next]_vars PROVE IInv'
  OBVIOUS
<1>1. TypeOK'
  BY NextTyped DEF IInv
<1>2. CASE UNCHANGED vars \/ Tick \/ Reload
  BY <1>1, <1>2, QuietInv DEF vars, Tick, Reload
<1>3. CASE Restart
  BY <1>1, <1>3, RestartInv
<1>4. ASSUME NEW t \in Turns, Ignore(t) PROVE IInv'
  BY <1>1, <1>4, IgnoreInv
<1>5. ASSUME NEW t \in Turns, NEW c \in Convs,
             \/ \E word \in {"request", "spend"} : AskFresh(t, c, word)
             \/ Unclear(t, c) \/ Cancel(t, c) \/ TokenMissing(t, c)
             \/ \E word \in {"spend", "local"} : Replay(t, c, word)
      PROVE  IInv'
  BY <1>1, <1>5, AskFreshInv, UnclearInv, DroppedInv, ReplayInv
<1>6. ASSUME NEW t \in Turns, Gateway(t) PROVE IInv'
  BY <1>1, <1>6, GatewayInv
<1>7. ASSUME NEW t \in Turns, Reply(t) PROVE IInv'
  BY <1>1, <1>7, ToldInv, PromptInv DEF Reply
<1>8. QED
  BY <1>2, <1>3, <1>4, <1>5, <1>6, <1>7 DEF Next, Dispatch

\* However the turns of all conversations interleave, and wherever the
\* process restarts: a paid call in 'ask' mode answers a fresh yes, given in
\* the conversation that asked, and a request is paid for once.
THEOREM SpendsApprovedCorrect == Spec => []SpendsApproved
<1>1. IInv => SpendsApproved
  BY DEF IInv
<1>2. QED
  BY InitInv, NextInv, <1>1, PTL DEF Spec

\* No request is paid for that the user was told was cancelled, expired or
\* not completed.
THEOREM HonestMessagesCorrect == Spec => []HonestMessages
<1>1. IInv => HonestMessages
  BY DEF IInv
<1>2. QED
  BY InitInv, NextInv, <1>1, PTL DEF Spec
=============================================================================
