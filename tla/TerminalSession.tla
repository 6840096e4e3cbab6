-------------------------- MODULE TerminalSession --------------------------
(***************************************************************************)
(* The PTY sessions of the gateway: the session manager                    *)
(* (packages/api-shim/src/terminal/session-manager.js) under the REST and  *)
(* WebSocket transport that calls it (terminal-sessions.js).               *)
(*                                                                         *)
(* Every callback of the program is one action: it runs to its end before  *)
(* the event loop takes the next one.  What interleaves is the PTY         *)
(* (output, exit), the REST calls, the WebSockets (attach, ack, error,     *)
(* close), the reaper's timer and the clock.  Output is counted in bytes,  *)
(* its text is left out.                                                   *)
(***************************************************************************)
EXTENDS Integers, Sequences, FiniteSets, FiniteSetsExt, Functions

CONSTANTS
    Sessions,     (* session ids, each created at most once                 *)
    Conns,        (* connection ids, each attached at most once             *)
    Tokens,       (* attach tokens, each minted at most once                *)
    MaxPerOwner,  (* cap on live sessions of the one identity, OWNER        *)
    RingBytes,    (* bound of the replay ring                               *)
    HighWater,    (* unacked bytes beyond which the PTY is paused           *)
    AckEvery,     (* a client gives credit for no fewer bytes than this     *)
    Chunks,       (* sizes a chunk of PTY output can have                   *)
    TokenTtl, IdleMs, GraceMs, MaxTime

ASSUME TerminalAssumption ==
    /\ MaxPerOwner \in Nat \ {0}
    /\ RingBytes \in Nat \ {0}
    /\ HighWater \in Nat
    /\ AckEvery \in 1 .. HighWater + 1
    /\ Chunks \subseteq Nat \ {0} /\ Chunks # {} /\ IsFiniteSet(Chunks)
    /\ {TokenTtl, IdleMs, GraceMs, MaxTime} \subseteq Nat

VARIABLES
    sess,     (* the sessions Map, one record per session                   *)
    conn,     (* the clients Map of each session, and the WebSocket of each *)
    token,    (* the tokens Map                                             *)
    now,      (* Date.now()                                                 *)
    receipts  (* the lifecycle events handed to the receipt recorder        *)

vars == <<sess, conn, token, now, receipts>>

(***************************************************************************)
(* A session is "none" until created, "live" until the PTY exits, "ended"  *)
(* until the reaper forgets it, then "gone".  hup: the PTY was sent SIGHUP.*)
(***************************************************************************)
NewSession == [state |-> "none", paused |-> FALSE, ring |-> <<>>, hup |-> FALSE,
               activity |-> 0, exitedAt |-> 0]

(***************************************************************************)
(* attached: the connection is in s.clients.  unacked is the manager's     *)
(* meter; held is what the client really received and has not acked.       *)
(* wire is the WebSocket: "open", "closing" (no longer OPEN, its 'close'   *)
(* event still to come) or "closed".  by is the token it came with; late:  *)
(* that token was past its time.                                           *)
(***************************************************************************)
NewConn == [session |-> "none", by |-> "none", late |-> FALSE, attached |-> FALSE,
            unacked |-> 0, held |-> 0, wire |-> "none"]

NewToken == [state |-> "none", session |-> "none", expires |-> 0]

Live(s) == sess[s].state = "live"
Clients(s) == {c \in Conns : conn[c].session = s /\ conn[c].attached}
Laggard(s) == \E c \in Clients(s) : conn[c].unacked > HighWater
Bytes(chunks) == SumFunction(chunks)

Init ==
    /\ sess = [s \in Sessions |-> NewSession]
    /\ conn = [c \in Conns |-> NewConn]
    /\ token = [t \in Tokens |-> NewToken]
    /\ now = 0
    /\ receipts = [s \in Sessions |-> <<>>]

Emit(s, event) == receipts' = [receipts EXCEPT ![s] = Append(@, event)]

mintToken(t, s) ==
    /\ token[t].state = "none"
    /\ token' = [token EXCEPT ![t] = [state |-> "minted", session |-> s,
                                      expires |-> now + TokenTtl]]

\* Mutant of Redeemable: only the reaper looks at the time of a token.
RedeemableLate(t, s) == token[t].state = "minted" /\ token[t].session = s

\* redeemToken: known, not spent, for this session, not expired; then deleted.
Redeemable(t, s) ==
    /\ token[t].state = "minted"
    /\ token[t].session = s
    /\ now <= token[t].expires

\* POST /term/sessions
Create(s, t) ==
    /\ sess[s].state = "none"
    /\ Cardinality({x \in Sessions : Live(x)}) < MaxPerOwner
    /\ sess' = [sess EXCEPT ![s] = [NewSession EXCEPT !.state = "live", !.activity = now]]
    /\ mintToken(t, s)
    /\ Emit(s, <<"start">>)
    /\ UNCHANGED <<conn, now>>

\* POST /term/sessions/:id/attach-token
ReissueToken(s, t) ==
    /\ Live(s)
    /\ mintToken(t, s)
    /\ UNCHANGED <<sess, conn, now, receipts>>

\* A chunk larger than the ring is cut to its last RingBytes bytes; a cut
\* inside a UTF-8 character leaves up to three stray bytes of it, and each is
\* decoded to a replacement of three bytes.
StoredSizes(n) ==
    IF n <= RingBytes THEN {n}
    ELSE {RingBytes + 2 * k : k \in {stray \in 0 .. 3 : stray <= RingBytes}}

\* Mutant of Evict: the newest chunk never leaves the ring.
EvictKeepsLast(chunks) ==
    LET from(i) == SubSeq(chunks, i, Len(chunks))
    IN  from(Min({i \in 1 .. Len(chunks) : Bytes(from(i)) <= RingBytes} \cup {Len(chunks)}))

\* Oldest chunks leave the ring until it is within its bound.
Evict(chunks) ==
    LET from(i) == SubSeq(chunks, i, Len(chunks))
    IN  from(Min({i \in 1 .. Len(chunks) + 1 : Bytes(from(i)) <= RingBytes}))

\* Mutant of Delivered: = for +=, only the last chunk is metered.
DeliveredLast(s, n) ==
    [c \in Conns |->
        IF c \in Clients(s)
        THEN [conn[c] EXCEPT !.unacked = n,
                             !.held = IF conn[c].wire = "open" THEN @ + n ELSE @]
        ELSE conn[c]]

\* Deliver n bytes of output to every client: a WebSocket that is no longer
\* OPEN drops them, but they count as unacked all the same.
Delivered(s, n) ==
    [c \in Conns |->
        IF c \in Clients(s)
        THEN [conn[c] EXCEPT !.unacked = @ + n,
                             !.held = IF conn[c].wire = "open" THEN @ + n ELSE @]
        ELSE conn[c]]

\* pty.onData.  A paused PTY delivers nothing.
PtyData(s, n) ==
    /\ Live(s) /\ ~sess[s].paused
    /\ conn' = Delivered(s, n)
    /\ \E k \in StoredSizes(n) :
          sess' = [sess EXCEPT
                      ![s].ring = Evict(Append(@, k)),
                      ![s].activity = now,
                      ![s].paused = \E c \in Clients(s) : conn'[c].unacked > HighWater]
    /\ UNCHANGED <<token, now, receipts>>

\* A client leaves s.clients, and its meter with it.
Dropped(c) == [conn[c] EXCEPT !.attached = FALSE, !.unacked = 0, !.held = 0]

\* pty.onExit: the end receipt, then every client is closed and forgotten,
\* and the replay memory is dropped.
PtyExit(s) ==
    /\ Live(s)
    /\ sess' = [sess EXCEPT ![s].state = "ended", ![s].exitedAt = now, ![s].ring = <<>>]
    /\ conn' = [c \in Conns |->
                   IF c \in Clients(s)
                   THEN [Dropped(c) EXCEPT !.wire = "closing"]
                   ELSE conn[c]]
    /\ Emit(s, <<"end">>)
    /\ UNCHANGED <<token, now>>

\* GET /term/attach, upgraded: attach redeems the token and replays the ring.
Attach(c, s, t) ==
    /\ conn[c].wire = "none"
    /\ Live(s)
    /\ Redeemable(t, s)
    /\ token' = [token EXCEPT ![t].state = "spent", ![t].expires = 0]
    /\ conn' = [conn EXCEPT ![c] = [session |-> s, by |-> t, attached |-> TRUE,
                                    late |-> ~(now <= token[t].expires),
                                    unacked |-> 0, held |-> Bytes(sess[s].ring),
                                    wire |-> "open"]]
    /\ sess' = [sess EXCEPT ![s].activity = now]
    /\ Emit(s, <<"attach", c>>)
    /\ UNCHANGED now

\* After an ack or a detach the PTY resumes unless someone is too far behind.
StillPaused(s) ==
    sess[s].paused /\ \E c \in Conns : /\ conn'[c].session = s /\ conn'[c].attached
                                       /\ conn'[c].unacked > HighWater

\* Mutant of Ack: the meter is not kept from going below zero.
AckUnclamped(c) ==
    LET s == conn[c].session IN
    /\ conn[c].wire = "open"
    /\ \E n \in AckEvery .. conn[c].held :
          conn' = [conn EXCEPT ![c].unacked = @ - n, ![c].held = @ - n]
    /\ sess' = [sess EXCEPT ![s].paused = StillPaused(s)]
    /\ UNCHANGED <<token, now, receipts>>

\* Mutant of Ack: the PTY is not resumed.
AckNoResume(c) ==
    /\ conn[c].wire = "open"
    /\ \E n \in AckEvery .. conn[c].held :
          conn' = [conn EXCEPT ![c].unacked = IF @ > n THEN @ - n ELSE 0, ![c].held = @ - n]
    /\ UNCHANGED <<sess, token, now, receipts>>

\* {t:'ack', bytes}: credit for some of what the client holds.  The manager
\* takes any number; this client follows the protocol and acks what it has read.
Ack(c) ==
    LET s == conn[c].session IN
    /\ conn[c].wire = "open"
    /\ \E n \in AckEvery .. conn[c].held :
          conn' = [conn EXCEPT ![c].unacked = IF @ > n THEN @ - n ELSE 0, ![c].held = @ - n]
    /\ sess' = [sess EXCEPT ![s].paused = StillPaused(s)]
    /\ UNCHANGED <<token, now, receipts>>

\* {t:'input'}: keystrokes.
Input(c) ==
    /\ conn[c].wire = "open"
    /\ sess' = [sess EXCEPT ![conn[c].session].activity = now]
    /\ UNCHANGED <<conn, token, now, receipts>>

\* Mutant of Detach: a detached laggard keeps the PTY paused.
DetachFrozen(c, wire) ==
    LET s == conn[c].session IN
    /\ conn' = [conn EXCEPT ![c] = [Dropped(c) EXCEPT !.wire = wire]]
    /\ IF conn[c].attached THEN Emit(s, <<"detach", c>>) ELSE UNCHANGED receipts
    /\ UNCHANGED <<sess, token, now>>

\* Mutant of Detach: not idempotent, every 'error' and 'close' is a receipt.
DetachTwice(c, wire) ==
    LET s == conn[c].session IN
    /\ conn' = [conn EXCEPT ![c] = [Dropped(c) EXCEPT !.wire = wire]]
    /\ Emit(s, <<"detach", c>>)
    /\ sess' = [sess EXCEPT ![s].paused = StillPaused(s)]
    /\ UNCHANGED <<token, now>>

\* detach: a no-op unless the connection is still in s.clients.
Detach(c, wire) ==
    LET s == conn[c].session IN
    /\ conn' = [conn EXCEPT ![c] = [Dropped(c) EXCEPT !.wire = wire]]
    /\ IF conn[c].attached
       THEN /\ Emit(s, <<"detach", c>>)
            /\ sess' = [sess EXCEPT ![s].paused = StillPaused(s)]
       ELSE UNCHANGED <<sess, receipts>>
    /\ UNCHANGED <<token, now>>

\* The transport dies; the manager learns of it by 'error' or 'close', later.
WireLost(c) ==
    /\ conn[c].wire = "open"
    /\ conn' = [conn EXCEPT ![c].wire = "closing"]
    /\ UNCHANGED <<sess, token, now, receipts>>

WireError(c) == conn[c].wire \in {"open", "closing"} /\ Detach(c, "closing")
WireClose(c) == conn[c].wire = "closing" /\ Detach(c, "closed")

\* DELETE /term/sessions/:id asks the PTY to end; on an ended one it does nothing.
Kill(s) ==
    /\ Live(s)
    /\ sess' = [sess EXCEPT ![s].hup = TRUE]
    /\ UNCHANGED <<conn, token, now, receipts>>

\* reapIdle: hang up the idle, forget the ended, collect dead tokens.
Idle(s) == Live(s) /\ Clients(s) = {} /\ now - sess[s].activity > IdleMs
Forgettable(s) == sess[s].state = "ended" /\ now - sess[s].exitedAt > GraceMs
ReapIdle ==
    /\ sess' = [s \in Sessions |->
                   IF Idle(s) THEN [sess[s] EXCEPT !.hup = TRUE]
                   ELSE IF Forgettable(s) THEN [NewSession EXCEPT !.state = "gone"]
                   ELSE sess[s]]
    /\ token' = [t \in Tokens |->
                   IF token[t].state = "minted" /\ now > token[t].expires
                   THEN [token[t] EXCEPT !.state = "spent", !.expires = 0]
                   ELSE token[t]]
    /\ UNCHANGED <<conn, now, receipts>>

Tick == now < MaxTime /\ now' = now + 1 /\ UNCHANGED <<sess, conn, token, receipts>>

Next ==
    \/ \E s \in Sessions, t \in Tokens : Create(s, t) \/ ReissueToken(s, t)
    \/ \E s \in Sessions, n \in Chunks : PtyData(s, n)
    \/ \E s \in Sessions : PtyExit(s) \/ Kill(s)
    \/ \E c \in Conns, s \in Sessions, t \in Tokens : Attach(c, s, t)
    \/ \E c \in Conns : Ack(c) \/ Input(c) \/ WireLost(c) \/ WireError(c) \/ WireClose(c)
    \/ ReapIdle
    \/ Tick

Spec == Init /\ [][Next]_vars

\* A client acks what it holds, and the WebSocket layer reports a dead
\* transport.  Nothing is assumed of the PTY, the owner or the reaper.
Fairness == \A c \in Conns : WF_vars(Ack(c)) /\ WF_vars(WireClose(c))
FairSpec == Spec /\ Fairness
-----------------------------------------------------------------------------
TypeOK ==
    /\ \A s \in Sessions :
          /\ sess[s].state \in {"none", "live", "ended", "gone"}
          /\ sess[s].paused \in BOOLEAN
          /\ sess[s].ring \in Seq(Nat)
          /\ sess[s].hup \in BOOLEAN
          /\ {sess[s].activity, sess[s].exitedAt} \subseteq 0 .. now
    /\ \A c \in Conns :
          /\ conn[c].session \in Sessions \cup {"none"}
          /\ conn[c].attached \in BOOLEAN
          /\ {conn[c].unacked, conn[c].held} \subseteq Nat
          /\ conn[c].wire \in {"none", "open", "closing", "closed"}
    /\ \A t \in Tokens : token[t].state \in {"none", "minted", "spent"}
    /\ now \in 0 .. MaxTime

(***************************************************************************)
(* Flow control: a live PTY is paused exactly when some attached client is *)
(* past the high-water mark.  Paused with no such client, the terminal is  *)
(* frozen for good ("a detached laggard must not keep the PTY paused       *)
(* forever", session-manager.js:202); the other way round nothing limits   *)
(* what piles up in the sockets.  Output, acks, detaches and attaches of   *)
(* all the clients of the session meet here.                               *)
(***************************************************************************)
FlowControl == \A s \in Sessions : Live(s) => (sess[s].paused <=> Laggard(s))

(***************************************************************************)
(* The meter against what the client really holds: the replay sent on      *)
(* attach is never metered but is acked with the rest, so the manager may  *)
(* believe in less than there is, by the size of the ring and no more; it  *)
(* never believes in more, which would pause a PTY nobody lags behind.     *)
(***************************************************************************)
MeterWithinReplay ==
    \A c \in Conns : conn[c].wire = "open" =>
        /\ conn[c].unacked <= conn[c].held
        /\ conn[c].held <= conn[c].unacked + RingBytes

\* Memory of the manager: the ring stays within its bound whatever the size
\* of a chunk, a dead session holds none, and no client is ever more than one
\* chunk past the high-water mark.
MemoryBound ==
    /\ \A s \in Sessions : /\ Bytes(sess[s].ring) <= RingBytes
                           /\ ~Live(s) => sess[s].ring = <<>>
    /\ \A c \in Conns : conn[c].attached => conn[c].unacked <= HighWater + Max(Chunks)

\* An attach token opens one connection, to the session it was minted for and
\* within its time, whether or not the reaper has collected it since.
TokenSingleUse ==
    /\ \A c, d \in Conns : conn[c].by = conn[d].by /\ conn[c].by # "none" => c = d
    /\ \A c \in Conns : conn[c].by # "none" =>
          /\ ~conn[c].late
          /\ token[conn[c].by].state = "spent"
          /\ token[conn[c].by].session = conn[c].session

(***************************************************************************)
(* The lifecycle receipts of a session tell its story: start first, an end *)
(* last and once, every connection attached once and detached at most      *)
(* once after that; and while the session lives, the attached connections  *)
(* that no detach receipt closes are exactly the clients it has.           *)
(***************************************************************************)
At(s, event) == {i \in DOMAIN receipts[s] : receipts[s][i] = event}
ReceiptsTellTheStory ==
    \A s \in Sessions :
        /\ At(s, <<"start">>) = (IF sess[s].state = "none" THEN {} ELSE {1})
        /\ At(s, <<"end">>) = (IF sess[s].state \in {"ended", "gone"}
                               THEN {Len(receipts[s])} ELSE {})
        /\ \A c \in Conns :
              LET on == At(s, <<"attach", c>>)  off == At(s, <<"detach", c>>) IN
              /\ Cardinality(on) <= 1 /\ Cardinality(off) <= Cardinality(on)
              /\ \A i \in on, j \in off : i < j
              /\ Live(s) => (c \in Clients(s) <=> on # {} /\ off = {})

\* A paused PTY runs again, or its session ends: clients that ack as often as
\* the protocol says, or die, never freeze the terminal.
FlowResumes == \A s \in Sessions : sess[s].paused /\ Live(s) ~> ~sess[s].paused \/ ~Live(s)
=============================================================================
