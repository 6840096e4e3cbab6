---------------------------- MODULE CostApproval ----------------------------
(***************************************************************************)
(* The cost approval of paid models: the gate of the gateway               *)
(* (packages/api-shim/src/compliance-gateway.js, compliance-router.js and  *)
(* the head of /v1/chat/completions in server.js) and the turn that every  *)
(* chat channel runs (omni-gateway/approval-flow.js, called by the slack,  *)
(* discord, matrix and signal adapters).  All of them live in one process. *)
(*                                                                         *)
(* Each message of the user is one turn.  A turn is synchronous up to its  *)
(* HTTP request, the gate is synchronous, and the reply comes back later,  *)
(* so the turns of all conversations interleave.  A turn's id also stands  *)
(* for the text of its message and for the token its request is given; the *)
(* message is a reply word ("spend", "local", "cancel") or a "request",    *)
(* which interpretReply does not recognise.                                *)
(***************************************************************************)
EXTENDS Integers, FiniteSets

CONSTANTS
    Turns,        (* messages, each dispatched once                         *)
    Convs,        (* conversations of the user                              *)
    Keyed,        (* those for which convKey is not empty                   *)
    Configs,      (* configurations the daemon may start with               *)
    None,         (* no token, no text                                      *)
    Ttl,          (* APPROVAL_TTL_MS                                        *)
    MaxTime,      (* bound on the clock                                     *)
    MaxRestarts   (* bound on the restarts of the process                   *)

(***************************************************************************)
(* model is what resolveRoute and buildBackends make of the channels'      *)
(* model: "byok" (a provider with its key in the environment), "vaulted"   *)
(* (only a key handle in the vault), "keyless" or "local".  keys: some     *)
(* provider is a backend.  local: the local model is enabled.              *)
(***************************************************************************)
ConfigType == [configured : BOOLEAN, costApproval : {"ask", "auto-local", "always-spend"},
               local : BOOLEAN, keys : BOOLEAN,
               model : {"byok", "vaulted", "keyless", "local"}]

ASSUME CostAssumption ==
    /\ Keyed \subseteq Convs
    /\ Configs \subseteq ConfigType
    /\ \A c \in Configs : c.model \in {"byok", "vaulted"} => c.keys
    /\ None \notin Turns /\ None \notin Convs
    /\ Ttl \in Nat /\ MaxTime \in Nat /\ MaxRestarts \in Nat

VARIABLES
    config,     (* getConfig, getRouting, getModelSources and the keys      *)
    turn,       (* the turns                                                *)
    pending,    (* the pending Map of the adapters                          *)
    approvals,  (* pendingApprovals, the gateway's Map of tokens            *)
    told,       (* history: the last word the user had on each request      *)
    paid,       (* history: the calls that went to a paid provider          *)
    restarts,
    now

vars == <<config, turn, pending, approvals, told, paid, restarts, now>>

NoPending == [text |-> None, token |-> None]
NewTurn == [pc |-> "new", conv |-> None, word |-> "none", text |-> None,
            route |-> "none", token |-> None]
NoToken == [live |-> FALSE, ts |-> 0]

Init ==
    /\ config \in Configs
    /\ turn = [t \in Turns |-> NewTurn]
    /\ pending = [c \in Convs |-> NoPending]
    /\ approvals = [t \in Turns |-> NoToken]
    /\ told = [t \in Turns |-> "none"]
    /\ paid = {}
    /\ restarts = 0
    /\ now = 0

Goto(t, pc) == turn' = [turn EXCEPT ![t].pc = pc]
Tell(text, word) == told' = [told EXCEPT ![text] = word]
-----------------------------------------------------------------------------
(* dispatchAgentTurn, up to its request. *)

Asked(c) == pending[c].text # None

\* A message that is not for the agent, or holds a secret, is not dispatched.
Ignore(t) ==
    /\ turn[t].pc = "new"
    /\ Goto(t, "ignored")
    /\ UNCHANGED <<config, pending, approvals, told, paid, restarts, now>>

\* (B) a fresh request, perhaps of a lone "yes"; the other reply words are
\* requests like any other here.
AskFresh(t, c, word) ==
    /\ turn[t].pc = "new"
    /\ ~Asked(c)
    /\ turn' = [turn EXCEPT ![t] = [pc |-> "asking", conv |-> c, word |-> word, text |-> t,
                                    route |-> "none", token |-> None]]
    /\ UNCHANGED <<config, pending, approvals, told, paid, restarts, now>>

Ended(t, c, word) ==
    turn' = [turn EXCEPT ![t] = [NewTurn EXCEPT !.pc = "done", !.conv = c, !.word = word]]

\* (A) an answer that says neither yes nor no: the question stays.
Unclear(t, c) ==
    /\ turn[t].pc = "new"
    /\ Asked(c)
    /\ Ended(t, c, "request")
    /\ UNCHANGED <<config, pending, approvals, told, paid, restarts, now>>

\* Mutant of Cancel: the pending approval is kept.
CancelKept(t, c) ==
    /\ turn[t].pc = "new"
    /\ Asked(c)
    /\ Ended(t, c, "cancel")
    /\ Tell(pending[c].text, "cancelled")
    /\ UNCHANGED <<config, pending, approvals, paid, restarts, now>>

Cancel(t, c) ==
    /\ turn[t].pc = "new"
    /\ Asked(c)
    /\ Ended(t, c, "cancel")
    /\ Tell(pending[c].text, "cancelled")
    /\ pending' = [pending EXCEPT ![c] = NoPending]
    /\ UNCHANGED <<config, approvals, paid, restarts, now>>

\* A yes to a question that came without a token.
TokenMissing(t, c) ==
    /\ turn[t].pc = "new"
    /\ Asked(c) /\ pending[c].token = None
    /\ Ended(t, c, "spend")
    /\ Tell(pending[c].text, "expired")
    /\ pending' = [pending EXCEPT ![c] = NoPending]
    /\ UNCHANGED <<config, approvals, paid, restarts, now>>

\* "approve" or "local": the request asked about is replayed with the
\* headers of the choice; a yes carries the token, a reroute needs none.
Replay(t, c, word) ==
    /\ turn[t].pc = "new"
    /\ Asked(c) /\ (word = "spend" => pending[c].token # None)
    /\ turn' = [turn EXCEPT ![t] = [pc |-> "asking", conv |-> c, word |-> word,
                                    text |-> pending[c].text, route |-> word,
                                    token |-> IF word = "spend" THEN pending[c].token ELSE None]]
    /\ pending' = [pending EXCEPT ![c] = NoPending]
    /\ UNCHANGED <<config, approvals, told, paid, restarts, now>>
-----------------------------------------------------------------------------
(* The gate and the route, in the gateway. *)

\* The channels' model belongs to a provider that buildBackends lists.
Backed == config.model \in {"byok", "vaulted"}

decideRoute ==
    CASE ~config.local /\ ~config.keys -> "denied"
      [] config.local /\ (~Backed \/ config.costApproval = "auto-local") -> "local"
      [] OTHER -> IF config.costApproval = "ask" THEN "approval-required" ELSE "paid"

\* Only a wizard-configured daemon in 'ask' mode uses the gate.
Engaged == config.configured /\ config.costApproval = "ask"

\* Mutant of approvalOk: the age of the token is not looked at.
approvalOkStale(t) == turn[t].token # None /\ approvals[turn[t].token].live

\* consumeApprovalToken: known, not used, not too old; gone once presented.
approvalOk(t) ==
    /\ turn[t].token # None
    /\ approvals[turn[t].token].live
    /\ now - approvals[turn[t].token].ts <= Ttl

Consumed(t) ==
    IF turn[t].token = None THEN approvals
    ELSE [approvals EXCEPT ![turn[t].token].live = FALSE]

\* planComplianceRoute: the decision, unless the human has already made it.
plan(t) ==
    CASE decideRoute # "approval-required" -> decideRoute
      [] turn[t].route = "local" /\ config.local -> "reroute"
      [] turn[t].route = "spend" /\ approvalOk(t) -> "paid"
      [] OTHER -> "approval-required"

\* The request goes on with this model: "byok" is a paid call, whatever comes
\* of it; the others are answered here, or refused for want of a key.
Serve(t, model) ==
    /\ Goto(t, "served")
    /\ paid' = IF model = "byok"
               THEN paid \cup {[by |-> t, text |-> turn[t].text, at |-> now, gated |-> Engaged]}
               ELSE paid
    /\ UNCHANGED <<config, pending, told, restarts, now>>

Refuse(t) ==
    /\ Goto(t, "refused")
    /\ UNCHANGED <<config, pending, told, paid, restarts, now>>

\* complianceApprovalGate lets the request through, perhaps to the local model.
GatePasses(t) ==
    /\ turn[t].pc = "asking"
    /\ Engaged => plan(t) # "approval-required"
    /\ approvals' = IF Engaged THEN Consumed(t) ELSE approvals
    /\ Serve(t, IF Engaged /\ plan(t) = "reroute" THEN "local" ELSE config.model)

\* 402 with a fresh token.
GateAsks(t) ==
    /\ turn[t].pc = "asking"
    /\ Engaged /\ plan(t) = "approval-required"
    /\ approvals' = [Consumed(t) EXCEPT ![t] = [live |-> TRUE, ts |-> now]]
    /\ Refuse(t)

\* The gate cannot be evaluated: a call that would spend is refused, and no
\* token comes with it.
GateBlind(t) ==
    /\ turn[t].pc = "asking"
    /\ approvals' \in {approvals, Consumed(t)}
    /\ IF config.model = "byok" THEN Refuse(t) ELSE Serve(t, config.model)
-----------------------------------------------------------------------------
(* The rest of the turn. *)

\* The answer reaches the user.
Answered(t) ==
    /\ turn[t].pc = "served"
    /\ Goto(t, "done")
    /\ Tell(turn[t].text, "answered")
    /\ UNCHANGED <<config, pending, approvals, paid, restarts, now>>

\* Mutant of Prompt: queued under an empty key too.
PromptUnkeyed(t) ==
    /\ turn[t].pc = "refused" /\ turn[t].route = "none"
    /\ Goto(t, "done")
    /\ Tell(t, "asked")
    /\ pending' = [pending EXCEPT ![turn[t].conv] =
                      [text |-> t, token |-> IF approvals[t].live THEN t ELSE None]]
    /\ UNCHANGED <<config, approvals, paid, restarts, now>>

\* A fresh request met the 402: the approval is queued, over any other of the
\* conversation, and the user is asked.
Prompt(t) ==
    /\ turn[t].pc = "refused" /\ turn[t].route = "none"
    /\ Goto(t, "done")
    /\ Tell(t, "asked")
    /\ pending' = IF turn[t].conv \in Keyed
                  THEN [pending EXCEPT ![turn[t].conv] =
                           [text |-> t, token |-> IF approvals[t].live THEN t ELSE None]]
                  ELSE pending
    /\ UNCHANGED <<config, approvals, paid, restarts, now>>

\* A replay met the 402 again: the user has to send the request again.
Incomplete(t) ==
    /\ turn[t].pc = "refused" /\ turn[t].route # "none"
    /\ Goto(t, "done")
    /\ Tell(turn[t].text, "incomplete")
    /\ UNCHANGED <<config, pending, approvals, paid, restarts, now>>

\* The process restarts: both Maps are gone, and the turns with it; a changed
\* configuration is read.
Restart ==
    /\ restarts < MaxRestarts
    /\ restarts' = restarts + 1
    /\ config' \in Configs
    /\ pending' = [c \in Convs |-> NoPending]
    /\ approvals' = [t \in Turns |-> [approvals[t] EXCEPT !.live = FALSE]]
    /\ turn' = [t \in Turns |-> IF turn[t].pc \in {"asking", "served", "refused"}
                                THEN [turn[t] EXCEPT !.pc = "lost"] ELSE turn[t]]
    /\ UNCHANGED <<told, paid, now>>

\* Another process has written the configuration, and a setter of the chat met
\* its revision: the cached one is dropped and the new one read.  The model
\* and the keys in the environment stay.
Reload ==
    /\ config' \in {c \in Configs : \A m \in {"byok", "local"} : (c.model = m) = (config.model = m)}
    /\ UNCHANGED <<turn, pending, approvals, told, paid, restarts, now>>

Tick ==
    /\ now < MaxTime
    /\ now' = now + 1
    /\ UNCHANGED <<config, turn, pending, approvals, told, paid, restarts>>

Dispatch(t) ==
    \/ Ignore(t)
    \/ \E c \in Convs : \/ \E word \in {"request", "spend"} : AskFresh(t, c, word)
                        \/ Unclear(t, c) \/ Cancel(t, c) \/ TokenMissing(t, c)
                        \/ \E word \in {"spend", "local"} : Replay(t, c, word)
Gateway(t) == GatePasses(t) \/ GateAsks(t) \/ GateBlind(t)
Reply(t) == Answered(t) \/ Prompt(t) \/ Incomplete(t)

Next == Tick \/ Reload \/ Restart \/ \E t \in Turns : Dispatch(t) \/ Gateway(t) \/ Reply(t)

Spec == Init /\ [][Next]_vars
-----------------------------------------------------------------------------
TurnType == [pc : {"new", "ignored", "asking", "served", "refused", "done", "lost"},
             conv : Convs \cup {None},
             word : {"none", "request", "spend", "local", "cancel"},
             text : Turns \cup {None},
             route : {"none", "spend", "local"},
             token : Turns \cup {None}]
PendingType == [text : Turns \cup {None}, token : Turns \cup {None}]
TokenType == [live : BOOLEAN, ts : Nat]
PaidType == [by : Turns, text : Turns, at : Nat, gated : BOOLEAN]

TypeOK ==
    /\ config \in Configs
    /\ turn \in [Turns -> TurnType]
    /\ \A t \in Turns : turn[t].pc \in {"asking", "served", "refused"} => turn[t].text # None
    /\ pending \in [Convs -> PendingType]
    /\ \A c \in Convs \ Keyed : pending[c] = NoPending
    /\ approvals \in [Turns -> TokenType]
    /\ told \in [Turns -> {"none", "asked", "cancelled", "expired", "incomplete", "answered"}]
    /\ paid \subseteq PaidType
    /\ restarts \in Nat
    /\ now \in Nat

(***************************************************************************)
(* "a proceed-spend retry must present a token minted by a prior 402 ...   *)
(* Bound to the model + short TTL; consumed on use" (compliance-gateway.js *)
(* :27), "A 402 raised in one channel must NOT be consumable by the same   *)
(* user's next message in a DIFFERENT channel" (approval-flow.js:94), and  *)
(* spend is "FAIL-CLOSED" (:120).  End to end: in 'ask' mode a paid call   *)
(* answers a yes of the user, given in the conversation of the request it  *)
(* is made for, while the token of that request was fresh; and one request *)
(* is paid for once.                                                       *)
(***************************************************************************)
SpendsApproved ==
    \A p \in paid : p.gated =>
        /\ turn[p.by].word = "spend"
        /\ p.by # p.text
        /\ turn[p.by].conv = turn[p.text].conv /\ turn[p.by].conv \in Keyed
        /\ p.at - approvals[p.text].ts <= Ttl
        /\ \A q \in paid : q.text = p.text => q = p

\* What the user is told is true: after "cancelled. Nothing was sent to a
\* paid model", "That approval expired" or "Could not complete that", the
\* request was not paid for, and never is.
HonestMessages ==
    \A p \in paid : told[p.text] \notin {"cancelled", "expired", "incomplete"}
=============================================================================
