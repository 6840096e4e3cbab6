----------------------- MODULE TerminalSessionProofs -----------------------
(***************************************************************************)
(* Proofs about TerminalSession, for any number of sessions, connections   *)
(* and tokens, any sizes of output, of credit and of the replay ring, and  *)
(* any high-water mark.  Three layers, each inductive with the ones before *)
(* it: who is joined to what, with flow control and tokens (IInv); how     *)
(* much is held where (Sized); what the receipts say (Story).              *)
(***************************************************************************)
EXTENDS TerminalSession, SequenceTheorems, FiniteSetTheorems, TLAPS

-----------------------------------------------------------------------------
(* The first layer.  What the replay ring holds and what a client really   *)
(* received are left open: flow control and tokens do not depend on them.  *)

SessionFields == {"state", "paused", "ring", "hup", "activity", "exitedAt"}
ConnFields == {"session", "by", "late", "attached", "unacked", "held", "wire"}
TokenFields == {"state", "session", "expires"}

Typed ==
    /\ DOMAIN sess = Sessions
    /\ \A s \in Sessions : DOMAIN sess[s] = SessionFields /\ sess[s].paused \in BOOLEAN
    /\ DOMAIN conn = Conns
    /\ \A c \in Conns : /\ DOMAIN conn[c] = ConnFields
                        /\ conn[c].unacked \in Int /\ conn[c].attached \in BOOLEAN
    /\ DOMAIN token = Tokens
    /\ \A t \in Tokens : DOMAIN token[t] = TokenFields

(***************************************************************************)
(* A client belongs to a session that was created; a WebSocket that was    *)
(* never opened is nobody's client, one that is open is somebody's.        *)
(***************************************************************************)
Joined ==
    \A c \in Conns :
        /\ conn[c].attached => /\ conn[c].session \in Sessions
                               /\ sess[conn[c].session].state # "none"
        /\ conn[c].wire = "none" => ~conn[c].attached
        /\ conn[c].wire = "open" => conn[c].attached

Opened == \A c \in Conns : conn[c].by # "none" => conn[c].by \in Tokens

IInv == Typed /\ Joined /\ Opened /\ FlowControl /\ TokenSingleUse

-----------------------------------------------------------------------------
LEMMA InitIInv == Init => IInv
<1> SUFFICES ASSUME Init PROVE IInv
  OBVIOUS
<1>1. Typed
  <2>1. DOMAIN NewSession = SessionFields /\ NewSession.paused = FALSE
    BY DEF NewSession, SessionFields
  <2>2. /\ DOMAIN NewConn = ConnFields
        /\ NewConn.unacked = 0 /\ NewConn.attached = FALSE
    BY DEF NewConn, ConnFields
  <2>3. DOMAIN NewToken = TokenFields
    BY DEF NewToken, TokenFields
  <2>4. DOMAIN conn = Conns /\ \A c \in Conns : conn[c] = NewConn
    BY DEF Init
  <2>5. \A c \in Conns : conn[c].unacked \in Int
    BY <2>2, <2>4
  <2> QED
    BY <2>1, <2>2, <2>3, <2>4, <2>5 DEF Typed, Init
<1>2. \A c \in Conns : ~conn[c].attached /\ conn[c].by = "none" /\ conn[c].wire = "none"
  BY DEF Init, NewConn
<1>3. \A s \in Sessions : ~Live(s)
  BY DEF Init, NewSession, Live
<1> QED
  BY <1>1, <1>2, <1>3 DEF IInv, Joined, Opened, FlowControl, TokenSingleUse

\* A step that leaves the connections and what flow control reads of the
\* sessions alone keeps flow control.
LEMMA SameFlow ==
    ASSUME FlowControl, conn' = conn,
           \A s \in Sessions : Live(s)' => Live(s) /\ sess'[s].paused = sess[s].paused
    PROVE  FlowControl'
  BY DEF FlowControl, Laggard, Clients

\* A step that leaves the connections alone and mints or collects tokens that
\* are not spent keeps the discipline of tokens.
LEMMA SameTokens ==
    ASSUME Opened, TokenSingleUse, conn' = conn,
           \A t \in Tokens : token[t].state = "spent" =>
                 token'[t].state = "spent" /\ token'[t].session = token[t].session
    PROVE  Opened' /\ TokenSingleUse'
  BY DEF Opened, TokenSingleUse

LEMMA MintTokens ==
    ASSUME Typed, NEW t \in Tokens, NEW s, mintToken(t, s)
    PROVE  /\ DOMAIN token' = Tokens
           /\ \A u \in Tokens : DOMAIN token'[u] = TokenFields
           /\ \A u \in Tokens : token[u].state = "spent" => token'[u] = token[u]
  BY DEF Typed, mintToken, TokenFields

LEMMA CreateStep ==
    ASSUME IInv, NEW s \in Sessions, NEW t \in Tokens, Create(s, t)
    PROVE  IInv'
<1> USE DEF IInv
<1>1. /\ DOMAIN sess' = Sessions
      /\ \A x \in Sessions : DOMAIN sess'[x] = SessionFields /\ sess'[x].paused \in BOOLEAN
      /\ \A x \in Sessions : x # s => sess'[x] = sess[x]
      /\ sess'[s].state = "live" /\ sess'[s].paused = FALSE
  BY DEF Create, Typed, NewSession, SessionFields
<1>2. mintToken(t, s) /\ conn' = conn /\ sess[s].state = "none"
  BY DEF Create
<1>3. Typed'
  BY <1>1, <1>2, MintTokens DEF Typed
<1>4. Joined'
  BY <1>1, <1>2 DEF Joined
<1>5. ~Laggard(s)'
  BY <1>2 DEF Laggard, Clients, Joined
<1>6. FlowControl'
  BY <1>1, <1>2, <1>5 DEF FlowControl, Live, Laggard, Clients
<1>7. Opened' /\ TokenSingleUse'
  BY <1>2, MintTokens, SameTokens
<1> QED
  BY <1>3, <1>4, <1>6, <1>7

LEMMA ReissueTokenStep ==
    ASSUME IInv, NEW s \in Sessions, NEW t \in Tokens, ReissueToken(s, t)
    PROVE  IInv'
<1> USE DEF IInv
<1>1. mintToken(t, s) /\ conn' = conn /\ sess' = sess
  BY DEF ReissueToken
<1>2. Typed'
  BY <1>1, MintTokens DEF Typed
<1>3. Joined' /\ FlowControl'
  BY <1>1, SameFlow DEF Joined, Live
<1>4. Opened' /\ TokenSingleUse'
  BY <1>1, MintTokens, SameTokens
<1> QED
  BY <1>2, <1>3, <1>4

\* Output: what reaches a client is its meter, what it holds, nothing else.
LEMMA PtyDataStep ==
    ASSUME IInv, NEW s \in Sessions, NEW n \in Chunks, PtyData(s, n)
    PROVE  IInv'
<1> USE DEF IInv
<1>1. n \in Int
  BY TerminalAssumption
<1>2. PICK k \in StoredSizes(n) :
         sess' = [sess EXCEPT
                     ![s].ring = Evict(Append(@, k)),
                     ![s].activity = now,
                     ![s].paused = \E c \in Clients(s) : conn'[c].unacked > HighWater]
  BY DEF PtyData
<1>3. /\ DOMAIN sess' = Sessions
      /\ \A x \in Sessions : DOMAIN sess'[x] = SessionFields /\ sess'[x].state = sess[x].state
      /\ \A x \in Sessions : x # s => sess'[x] = sess[x]
      /\ sess'[s].paused <=> \E c \in Clients(s) : conn'[c].unacked > HighWater
      /\ sess'[s].paused \in BOOLEAN
  BY <1>2 DEF Typed, SessionFields
<1>4. /\ DOMAIN conn' = Conns
      /\ \A c \in Conns : /\ DOMAIN conn'[c] = ConnFields
                          /\ conn'[c].unacked \in Int
                          /\ conn'[c].attached = conn[c].attached
                          /\ conn'[c].session = conn[c].session
                          /\ conn'[c].by = conn[c].by /\ conn'[c].late = conn[c].late
                          /\ conn'[c].wire = conn[c].wire
                          /\ conn[c].session # s => conn'[c] = conn[c]
  <2>1. conn' = [c \in Conns |->
                   IF c \in Clients(s)
                   THEN [conn[c] EXCEPT !.unacked = @ + n,
                                        !.held = IF conn[c].wire = "open" THEN @ + n ELSE @]
                   ELSE conn[c]]
    BY DEF PtyData, Delivered
  <2>2. \A c \in Conns : c \notin Clients(s) => conn'[c] = conn[c]
    BY <2>1
  <2>3. \A c \in Clients(s) : /\ DOMAIN conn'[c] = ConnFields
                              /\ conn'[c].unacked = conn[c].unacked + n
                              /\ conn'[c].attached = conn[c].attached
                              /\ conn'[c].session = conn[c].session
                              /\ conn'[c].by = conn[c].by /\ conn'[c].late = conn[c].late
                              /\ conn'[c].wire = conn[c].wire
    <3> SUFFICES ASSUME NEW c \in Clients(s)
                 PROVE  /\ DOMAIN conn'[c] = ConnFields
                        /\ conn'[c].unacked = conn[c].unacked + n
                        /\ conn'[c].attached = conn[c].attached
                        /\ conn'[c].session = conn[c].session
                        /\ conn'[c].by = conn[c].by /\ conn'[c].late = conn[c].late
                        /\ conn'[c].wire = conn[c].wire
      OBVIOUS
    <3> DEFINE h == IF conn[c].wire = "open" THEN conn[c].held + n ELSE conn[c].held
    <3>1. conn'[c] = [conn[c] EXCEPT !.unacked = @ + n, !.held = h]
      BY <2>1 DEF Clients
    <3> HIDE DEF h
    <3>2. DOMAIN conn[c] = ConnFields
      BY DEF Typed, Clients
    <3> QED
      BY <3>1, <3>2 DEF ConnFields
  <2>4. DOMAIN conn' = Conns
    BY <2>1
  <2>5. \A c \in Clients(s) : conn'[c].unacked \in Int
    BY <2>3, <1>1 DEF Typed, Clients
  <2>6. \A c \in Conns : conn[c].session # s => c \notin Clients(s)
    BY DEF Clients
  <2> QED
    BY <2>2, <2>3, <2>4, <2>5, <2>6 DEF Typed
<1>5. token' = token
  BY DEF PtyData
<1>6. Typed'
  <2>1. \A x \in Sessions : sess'[x].paused \in BOOLEAN
    BY <1>3 DEF Typed
  <2>2. \A d \in Conns : conn'[d].attached \in BOOLEAN
    BY <1>4 DEF Typed
  <2> QED
    BY <1>3, <1>4, <1>5, <2>1, <2>2 DEF Typed
<1>7. Joined'
  BY <1>3, <1>4 DEF Joined
<1>8. FlowControl'
  BY <1>3, <1>4 DEF FlowControl, Live, Laggard, Clients
<1>9. Opened' /\ TokenSingleUse'
  BY <1>4, <1>5 DEF Opened, TokenSingleUse
<1> QED
  BY <1>6, <1>7, <1>8, <1>9

LEMMA PtyExitStep ==
    ASSUME IInv, NEW s \in Sessions, PtyExit(s)
    PROVE  IInv'
<1> USE DEF IInv
<1>1. /\ DOMAIN sess' = Sessions
      /\ \A x \in Sessions : DOMAIN sess'[x] = SessionFields /\ sess'[x].paused = sess[x].paused
      /\ \A x \in Sessions : x # s => sess'[x] = sess[x]
      /\ sess'[s].state = "ended"
  BY DEF PtyExit, Typed, SessionFields
<1>2. /\ DOMAIN conn' = Conns
      /\ \A c \in Conns : /\ DOMAIN conn'[c] = ConnFields
                          /\ conn'[c].unacked \in Int /\ conn'[c].attached \in BOOLEAN
                          /\ conn'[c].session = conn[c].session
                          /\ conn'[c].by = conn[c].by /\ conn'[c].late = conn[c].late
      /\ \A c \in Conns : \/ conn'[c] = conn[c] /\ c \notin Clients(s)
                          \/ ~conn'[c].attached /\ conn'[c].wire = "closing" /\ c \in Clients(s)
  <2>1. conn' = [c \in Conns |->
                   IF c \in Clients(s)
                   THEN [Dropped(c) EXCEPT !.wire = "closing"]
                   ELSE conn[c]]
    BY DEF PtyExit
  <2>2. DOMAIN conn' = Conns /\ \A c \in Conns : c \notin Clients(s) => conn'[c] = conn[c]
    BY <2>1
  <2>3. \A c \in Conns : c \in Clients(s) =>
           /\ DOMAIN conn'[c] = ConnFields
           /\ conn'[c].unacked = 0 /\ conn'[c].attached = FALSE
           /\ conn'[c].session = conn[c].session
           /\ conn'[c].by = conn[c].by /\ conn'[c].late = conn[c].late
           /\ conn'[c].wire = "closing"
    BY <2>1 DEF Dropped, Typed, ConnFields
  <2>4. \A c \in Conns : conn'[c].unacked \in Int
    BY <2>2, <2>3 DEF Typed
  <2> QED
    BY <2>2, <2>3, <2>4 DEF Typed
<1>3. token' = token
  BY DEF PtyExit
<1>4. Typed'
  BY <1>1, <1>2, <1>3 DEF Typed
<1>5. Joined'
  BY <1>1, <1>2 DEF Joined
<1>6. FlowControl'
  BY <1>1, <1>2 DEF FlowControl, Live, Laggard, Clients
<1>7. Opened' /\ TokenSingleUse'
  BY <1>2, <1>3 DEF Opened, TokenSingleUse
<1> QED
  BY <1>4, <1>5, <1>6, <1>7

LEMMA AttachStep ==
    ASSUME IInv, NEW c \in Conns, NEW s \in Sessions, NEW t \in Tokens, Attach(c, s, t)
    PROVE  IInv'
<1> USE DEF IInv
<1>1. /\ DOMAIN sess' = Sessions
      /\ \A x \in Sessions : /\ DOMAIN sess'[x] = SessionFields
                             /\ sess'[x].state = sess[x].state
                             /\ sess'[x].paused = sess[x].paused
  BY DEF Attach, Typed, SessionFields
<1>2. /\ DOMAIN conn' = Conns
      /\ \A d \in Conns : d # c => conn'[d] = conn[d]
      /\ DOMAIN conn'[c] = ConnFields
      /\ conn'[c].unacked = 0 /\ conn'[c].attached = TRUE /\ conn'[c].session = s
      /\ conn'[c].by = t /\ conn'[c].wire = "open" /\ ~conn'[c].late
  <2>1. PICK late : late = ~(now <= token[t].expires)
    OBVIOUS
  <2>2. ~late
    BY <2>1 DEF Attach, Redeemable
  <2>3. conn' = [conn EXCEPT ![c] = [session |-> s, by |-> t, attached |-> TRUE, late |-> late,
                                     unacked |-> 0, held |-> Bytes(sess[s].ring),
                                     wire |-> "open"]]
    BY <2>1, Zenon DEF Attach
  <2> QED
    BY <2>2, <2>3 DEF Typed, ConnFields
<1>3. /\ DOMAIN token' = Tokens
      /\ \A u \in Tokens : u # t => token'[u] = token[u]
      /\ DOMAIN token'[t] = TokenFields
      /\ token'[t].state = "spent" /\ token'[t].session = s
  BY DEF Attach, Redeemable, Typed, TokenFields
<1>4. /\ ~conn[c].attached /\ sess[s].state = "live"
      /\ \A d \in Conns : conn[d].by # "none" => conn[d].by # t
  BY DEF Attach, Redeemable, Live, Joined, TokenSingleUse
<1>5. Typed'
  <2>1. \A x \in Sessions : sess'[x].paused \in BOOLEAN
    BY <1>1 DEF Typed
  <2>2. \A d \in Conns : DOMAIN conn'[d] = ConnFields
    BY <1>2 DEF Typed
  <2>3. \A d \in Conns : conn'[d].unacked \in Int
    BY <1>2 DEF Typed
  <2>4. \A d \in Conns : conn'[d].attached \in BOOLEAN
    BY <1>2 DEF Typed
  <2>5. \A u \in Tokens : DOMAIN token'[u] = TokenFields
    BY <1>3 DEF Typed
  <2> QED
    BY <1>1, <1>2, <1>3, <2>1, <2>2, <2>3, <2>4, <2>5 DEF Typed
<1>6. Joined'
  BY <1>1, <1>2, <1>4 DEF Joined
<1>7. ~(conn'[c].unacked > HighWater)
  BY <1>2, TerminalAssumption
<1>8. FlowControl'
  BY <1>1, <1>2, <1>4, <1>7 DEF FlowControl, Live, Laggard, Clients
<1>9. Opened' /\ TokenSingleUse'
  BY <1>2, <1>3, <1>4 DEF Opened, TokenSingleUse
<1> QED
  BY <1>5, <1>6, <1>8, <1>9

-----------------------------------------------------------------------------
(* Credit and departures.                                                   *)

(***************************************************************************)
(* One client of s comes nearer or leaves, and the PTY of s is resumed if  *)
(* nobody is past the mark any more.                                       *)
(***************************************************************************)
LEMMA ResumeFlow ==
    ASSUME Typed, FlowControl, NEW s \in Sessions, NEW c \in Conns, conn[c].session = s,
           sess' = [sess EXCEPT ![s].paused = StillPaused(s)],
           \A d \in Conns : d # c => conn'[d] = conn[d],
           conn'[c].session = s,
           conn'[c].attached /\ conn'[c].unacked > HighWater
              => conn[c].attached /\ conn[c].unacked > HighWater
    PROVE  /\ FlowControl'
           /\ DOMAIN sess' = Sessions
           /\ \A x \in Sessions : /\ DOMAIN sess'[x] = SessionFields
                                  /\ sess'[x].paused \in BOOLEAN
                                  /\ sess'[x].state = sess[x].state
<1>1. StillPaused(s) \in BOOLEAN
  BY DEF StillPaused
<1>2. /\ DOMAIN sess' = Sessions
      /\ \A x \in Sessions : DOMAIN sess'[x] = SessionFields /\ sess'[x].state = sess[x].state
      /\ \A x \in Sessions : x # s => sess'[x] = sess[x]
      /\ sess'[s].paused = StillPaused(s)
  BY DEF Typed, SessionFields
<1>3. \A x \in Sessions : x # s => (Laggard(x)' <=> Laggard(x))
  BY DEF Laggard, Clients
<1>4. Laggard(s)' => Laggard(s)
  BY DEF Laggard, Clients
<1>5. StillPaused(s) <=> sess[s].paused /\ Laggard(s)'
  BY DEF StillPaused, Laggard, Clients
<1>6. FlowControl'
  BY <1>1, <1>2, <1>3, <1>4, <1>5 DEF FlowControl, Live
<1> QED
  BY <1>1, <1>2, <1>6 DEF Typed

LEMMA AckStep ==
    ASSUME IInv, NEW c \in Conns, Ack(c)
    PROVE  IInv'
<1> USE DEF IInv
<1> DEFINE s == conn[c].session
<1>1. s \in Sessions /\ conn[c].attached /\ token' = token
      /\ sess' = [sess EXCEPT ![s].paused = StillPaused(s)]
  BY DEF Ack, Joined
<1>2. PICK n \in AckEvery .. conn[c].held :
         conn' = [conn EXCEPT ![c].unacked = IF @ > n THEN @ - n ELSE 0, ![c].held = @ - n]
  BY DEF Ack
<1>3. n \in Int /\ n >= 1 /\ HighWater \in Nat
  BY <1>2, TerminalAssumption
<1>4. /\ DOMAIN conn' = Conns
      /\ \A d \in Conns : d # c => conn'[d] = conn[d]
      /\ DOMAIN conn'[c] = ConnFields
      /\ conn'[c].session = s /\ conn'[c].by = conn[c].by /\ conn'[c].late = conn[c].late
      /\ conn'[c].attached = conn[c].attached /\ conn'[c].wire = conn[c].wire
      /\ conn'[c].unacked = IF conn[c].unacked > n THEN conn[c].unacked - n ELSE 0
  BY <1>2 DEF Typed, ConnFields
<1>5. /\ conn'[c].unacked \in Int
      /\ conn'[c].unacked > HighWater => conn[c].unacked > HighWater
  BY <1>3, <1>4 DEF Typed
<1> HIDE DEF s
<1>6. /\ FlowControl'
      /\ DOMAIN sess' = Sessions
      /\ \A x \in Sessions : /\ DOMAIN sess'[x] = SessionFields
                             /\ sess'[x].paused \in BOOLEAN
                             /\ sess'[x].state = sess[x].state
  BY <1>1, <1>4, <1>5, ResumeFlow DEF s
<1>7. Typed'
  BY <1>1, <1>4, <1>5, <1>6 DEF Typed
<1>8. Joined'
  BY <1>4, <1>6 DEF Joined, s
<1>9. Opened' /\ TokenSingleUse'
  BY <1>1, <1>4 DEF Opened, TokenSingleUse, s
<1> QED
  BY <1>6, <1>7, <1>8, <1>9

LEMMA DetachStep ==
    ASSUME IInv, NEW c \in Conns, NEW wire, wire # "none", wire # "open", Detach(c, wire)
    PROVE  IInv'
<1> USE DEF IInv
<1> DEFINE s == conn[c].session
<1>1. /\ DOMAIN conn' = Conns
      /\ \A d \in Conns : d # c => conn'[d] = conn[d]
      /\ DOMAIN conn'[c] = ConnFields
      /\ conn'[c].session = s /\ conn'[c].by = conn[c].by /\ conn'[c].late = conn[c].late
      /\ conn'[c].attached = FALSE /\ conn'[c].wire = wire /\ conn'[c].unacked = 0
  BY DEF Detach, Dropped, Typed, ConnFields
<1>2. token' = token
  BY DEF Detach
<1>3. /\ FlowControl'
      /\ DOMAIN sess' = Sessions
      /\ \A x \in Sessions : DOMAIN sess'[x] = SessionFields
      /\ \A x \in Sessions : sess'[x].paused \in BOOLEAN
      /\ \A x \in Sessions : sess'[x].state = sess[x].state
  <2>1. CASE conn[c].attached
    <3>1. s \in Sessions /\ sess' = [sess EXCEPT ![s].paused = StillPaused(s)]
      BY <2>1 DEF Detach, Joined
    <3> QED
      BY <1>1, <3>1, ResumeFlow
  <2>2. CASE ~conn[c].attached
    <3>1. sess' = sess
      BY <2>2 DEF Detach
    <3>2. FlowControl'
      BY <1>1, <2>2, <3>1 DEF FlowControl, Live, Laggard, Clients
    <3> QED
      BY <3>1, <3>2 DEF Typed
  <2> QED
    BY <2>1, <2>2
<1>4. Typed'
  <2>1. \A d \in Conns : DOMAIN conn'[d] = ConnFields
    BY <1>1 DEF Typed
  <2>2. \A d \in Conns : conn'[d].unacked \in Int
    BY <1>1 DEF Typed
  <2>3. \A d \in Conns : conn'[d].attached \in BOOLEAN
    BY <1>1 DEF Typed
  <2> QED
    BY <1>1, <1>2, <1>3, <2>1, <2>2, <2>3 DEF Typed
<1>5. Joined'
  BY <1>1, <1>3 DEF Joined
<1>6. Opened' /\ TokenSingleUse'
  BY <1>1, <1>2 DEF Opened, TokenSingleUse
<1> QED
  BY <1>3, <1>4, <1>5, <1>6

-----------------------------------------------------------------------------
(* What touches neither the meters nor the pauses.                          *)

LEMMA WireLostStep ==
    ASSUME IInv, NEW c \in Conns, WireLost(c)
    PROVE  IInv'
<1> USE DEF IInv
<1>1. /\ DOMAIN conn' = Conns
      /\ \A d \in Conns : d # c => conn'[d] = conn[d]
      /\ DOMAIN conn'[c] = ConnFields
      /\ conn'[c].session = conn[c].session /\ conn'[c].by = conn[c].by /\ conn'[c].late = conn[c].late
      /\ conn'[c].attached = conn[c].attached /\ conn'[c].wire = "closing"
      /\ conn'[c].unacked = conn[c].unacked
  BY DEF WireLost, Typed, ConnFields
<1>2. token' = token /\ sess' = sess
  BY DEF WireLost
<1>3. Typed'
  BY <1>1, <1>2 DEF Typed
<1>4. Joined'
  BY <1>1, <1>2 DEF Joined
<1>5. FlowControl'
  BY <1>1, <1>2 DEF FlowControl, Live, Laggard, Clients
<1>6. Opened' /\ TokenSingleUse'
  BY <1>1, <1>2 DEF Opened, TokenSingleUse
<1> QED
  BY <1>3, <1>4, <1>5, <1>6

\* A step of the sessions alone that keeps the pause of every one of them,
\* and brings none to life.
LEMMA SessionsStep ==
    ASSUME IInv, conn' = conn, DOMAIN sess' = Sessions,
           \A s \in Sessions : /\ DOMAIN sess'[s] = SessionFields
                               /\ sess'[s].paused \in BOOLEAN
                               /\ sess[s].state # "none" => sess'[s].state # "none"
                               /\ Live(s)' => Live(s) /\ sess'[s].paused = sess[s].paused,
           DOMAIN token' = Tokens,
           \A t \in Tokens : /\ DOMAIN token'[t] = TokenFields
                             /\ token[t].state = "spent" => token'[t] = token[t]
    PROVE  IInv'
<1> USE DEF IInv
<1>1. Typed'
  BY DEF Typed
<1>2. Joined'
  BY DEF Joined
<1>3. FlowControl'
  BY SameFlow
<1>4. Opened' /\ TokenSingleUse'
  BY SameTokens
<1> QED
  BY <1>1, <1>2, <1>3, <1>4

LEMMA InputStep ==
    ASSUME IInv, NEW c \in Conns, Input(c)
    PROVE  IInv'
<1>1. conn[c].session \in Sessions
  BY DEF Input, IInv, Joined
<1>2. sess' = [sess EXCEPT ![conn[c].session].activity = now] /\ conn' = conn /\ token' = token
  BY DEF Input
<1>3. /\ DOMAIN sess' = Sessions
      /\ \A s \in Sessions : /\ DOMAIN sess'[s] = SessionFields
                             /\ sess'[s].paused = sess[s].paused
                             /\ sess'[s].state = sess[s].state
  BY <1>1, <1>2 DEF IInv, Typed, SessionFields
<1> QED
  BY <1>2, <1>3, SessionsStep DEF Live, IInv, Typed

LEMMA KillStep ==
    ASSUME IInv, NEW k \in Sessions, Kill(k)
    PROVE  IInv'
<1>1. conn' = conn /\ token' = token
  BY DEF Kill
<1>2. /\ DOMAIN sess' = Sessions
      /\ \A s \in Sessions : /\ DOMAIN sess'[s] = SessionFields
                             /\ sess'[s].paused = sess[s].paused
                             /\ sess'[s].state = sess[s].state
  BY DEF Kill, IInv, Typed, SessionFields
<1> QED
  BY <1>1, <1>2, SessionsStep DEF Live, IInv, Typed

LEMMA ReapIdleStep ==
    ASSUME IInv, ReapIdle
    PROVE  IInv'
<1>1. conn' = conn
  BY DEF ReapIdle
<1>2. /\ DOMAIN sess' = Sessions
      /\ \A s \in Sessions :
            \/ /\ DOMAIN sess'[s] = SessionFields
               /\ sess'[s].paused = sess[s].paused
               /\ sess'[s].state = sess[s].state
            \/ /\ DOMAIN sess'[s] = SessionFields
               /\ sess'[s].paused = FALSE
               /\ sess'[s].state = "gone"
  BY DEF ReapIdle, NewSession, IInv, Typed, SessionFields
<1>3. /\ DOMAIN token' = Tokens
      /\ \A t \in Tokens : /\ DOMAIN token'[t] = TokenFields
                           /\ token[t].state = "spent" => token'[t] = token[t]
  BY DEF ReapIdle, IInv, Typed, TokenFields
<1>4. \A s \in Sessions : sess'[s].paused \in BOOLEAN
  BY <1>2 DEF IInv, Typed
<1>5. \A s \in Sessions : Live(s)' => Live(s) /\ sess'[s].paused = sess[s].paused
  BY <1>2 DEF Live
<1>6. \A s \in Sessions : sess[s].state # "none" => sess'[s].state # "none"
  BY <1>2
<1> QED
  BY <1>1, <1>2, <1>3, <1>4, <1>5, <1>6, SessionsStep

-----------------------------------------------------------------------------
LEMMA NextIInv == IInv /\ [Next]_vars => IInv'
<1> SUFFICES ASSUME IInv, [Next]_vars PROVE IInv'
  OBVIOUS
<1>1. CASE \E s \in Sessions, t \in Tokens : Create(s, t) \/ ReissueToken(s, t)
  BY <1>1, CreateStep, ReissueTokenStep
<1>2. CASE \E s \in Sessions, n \in Chunks : PtyData(s, n)
  BY <1>2, PtyDataStep
<1>3. CASE \E s \in Sessions : PtyExit(s) \/ Kill(s)
  BY <1>3, PtyExitStep, KillStep
<1>4. CASE \E c \in Conns, s \in Sessions, t \in Tokens : Attach(c, s, t)
  BY <1>4, AttachStep
<1>5. CASE \E c \in Conns : Ack(c) \/ Input(c) \/ WireLost(c)
  BY <1>5, AckStep, InputStep, WireLostStep
<1>6. CASE \E c \in Conns : WireError(c) \/ WireClose(c)
  BY <1>6, DetachStep DEF WireError, WireClose
<1>7. CASE ReapIdle
  BY <1>7, ReapIdleStep
<1>8. CASE Tick \/ UNCHANGED vars
  <2>1. UNCHANGED <<sess, conn, token>>
    BY <1>8 DEF Tick, vars
  <2> QED
    BY <2>1 DEF IInv, Typed, Joined, Opened, FlowControl, Live, Laggard, Clients, TokenSingleUse
<1> QED
  BY <1>1, <1>2, <1>3, <1>4, <1>5, <1>6, <1>7, <1>8 DEF Next

THEOREM Invariance == Spec => []IInv
  BY InitIInv, NextIInv, PTL DEF Spec

(***************************************************************************)
(* A live terminal is paused exactly when one of its clients is past the   *)
(* high-water mark: nobody who left, died or caught up keeps it frozen,    *)
(* and nobody who lags is flooded, whatever the clients acknowledge.       *)
(***************************************************************************)
THEOREM FlowControlCorrect == Spec => []FlowControl
<1>1. IInv => FlowControl
  BY DEF IInv
<1> QED
  BY <1>1, Invariance, PTL

\* An attach token opens one connection, to the session it was minted for,
\* however attaches, mints, expiry and the reaper interleave.
THEOREM TokenSingleUseCorrect == Spec => []TokenSingleUse
<1>1. IInv => TokenSingleUse
  BY DEF IInv
<1> QED
  BY <1>1, Invariance, PTL

-----------------------------------------------------------------------------
(* Sums over sequences, and what the ring keeps.  The induction is on the   *)
(* finite subsets of a domain, ordered by inclusion.                        *)

LEMMA SmallestSubset ==
    ASSUME NEW S, IsFiniteSet(S), NEW T, T \subseteq SUBSET S, T # {}
    PROVE  \E x \in T : \A y \in T : y \subseteq x => y = x
<1> DEFINE R == StrictSubsetOrdering(S)
           F == FiniteSubsetsOf(S)
<1>1. IsWellFoundedOn(R, F) /\ T \subseteq F
  BY FS_FiniteSubsetsOfFinite, FS_StrictSubsetOrderingWellFounded
<1>2. \A y, x \in SUBSET S : y \subseteq x /\ y # x => <<y, x>> \in R
  BY DEF StrictSubsetOrdering
<1> HIDE DEF R, F
<1>3. PICK x \in T : \A y \in T : ~(<<y, x>> \in R)
  BY <1>1, WFMin
<1> QED
  BY <1>2, <1>3

LEMMA LeastNatural ==
    ASSUME NEW T, T \subseteq Nat, T # {}
    PROVE  \E x \in T : \A y \in T : x <= y
<1> DEFINE R == OpToRel(<, Nat)
<1>1. IsWellFoundedOn(R, Nat)
  BY NatLessThanWellFounded
<1>2. \A y, x \in Nat : y < x => <<y, x>> \in R
  BY DEF OpToRel
<1> HIDE DEF R
<1>3. PICK x \in T : \A y \in T : ~(<<y, x>> \in R)
  BY <1>1, WFMin
<1>4. \A y \in T : y \in Nat /\ x \in Nat /\ ~(y < x)
  BY <1>2, <1>3
<1>5. \A y \in T : x <= y
  BY <1>4
<1> QED
  BY <1>5

\* The iterator of SumFunction, which the community modules define as a
\* recursive function on the subsets of the domain.
Chosen(s) == CHOOSE x \in s : TRUE
Adds(it, f) ==
    it = [s \in SUBSET DOMAIN f |-> IF s = {} THEN 0 ELSE f[Chosen(s)] + it[s \ {Chosen(s)}]]

LEMMA SumIs == ASSUME NEW f PROVE SumFunction(f) = (CHOOSE it : Adds(it, f))[DOMAIN f]
  BY Zenon DEF SumFunction, SumFunctionOnSet, FoldFunctionOnSet, MapThenFoldSet, Adds, Chosen

LEMMA SumExists ==
    ASSUME NEW f, IsFiniteSet(DOMAIN f), \A x \in DOMAIN f : f[x] \in Nat
    PROVE  \E it : Adds(it, f)
<1> DEFINE D == DOMAIN f
           Step(it, s) == IF s = {} THEN 0 ELSE f[Chosen(s)] + it[s \ {Chosen(s)}]
           Good(it, n) == \A s \in SUBSET D : Cardinality(s) <= n => it[s] = Step(it, s)
           Bad == {n \in Nat : ~ \E it \in [SUBSET D -> Nat] : Good(it, n)}
<1>1. \A s \in SUBSET D : IsFiniteSet(s) /\ Cardinality(s) \in Nat
  BY FS_Subset, FS_CardinalityType
<1>2. \A s \in SUBSET D : s # {} =>
         /\ Chosen(s) \in D /\ s \ {Chosen(s)} \in SUBSET D
         /\ Cardinality(s \ {Chosen(s)}) = Cardinality(s) - 1
  BY <1>1, FS_RemoveElement DEF Chosen
<1>3. \A s \in SUBSET D : Cardinality(s) = 0 <=> s = {}
  BY <1>1, FS_EmptySet
<1>4. Bad = {}
  <2> SUFFICES ASSUME Bad # {} PROVE FALSE
    OBVIOUS
  <2>1. PICK n \in Bad : \A m \in Bad : n <= m
    BY LeastNatural
  <2>2. n # 0
    <3>1. [s \in SUBSET D |-> 0] \in [SUBSET D -> Nat] /\ Good([s \in SUBSET D |-> 0], 0)
      BY <1>1, <1>3
    <3> QED
      BY <3>1
  <2>3. n - 1 \in Nat /\ n - 1 \notin Bad
    <3>1. n \in Nat /\ n - 1 \in Nat
      BY <2>1, <2>2
    <3>2. n - 1 \in Bad => n <= n - 1
      BY <2>1
    <3> HIDE DEF Bad
    <3> QED
      BY <3>1, <3>2
  <2>4. PICK it \in [SUBSET D -> Nat] : Good(it, n - 1)
    BY <2>3
  <2> DEFINE next == [s \in SUBSET D |-> IF Cardinality(s) <= n - 1 THEN it[s] ELSE Step(it, s)]
  <2>5. next \in [SUBSET D -> Nat]
    BY <1>2
  <2>6. Good(next, n)
    <3> SUFFICES ASSUME NEW s \in SUBSET D, Cardinality(s) <= n
                 PROVE  next[s] = Step(next, s)
      OBVIOUS
    <3>1. next[s] = Step(it, s)
      BY <2>4
    <3>2. s # {} => next[s \ {Chosen(s)}] = it[s \ {Chosen(s)}]
      BY <1>1, <1>2, <2>1
    <3> QED
      BY <3>1, <3>2
  <2> QED
    BY <2>1, <2>5, <2>6
<1>5. Cardinality(D) \in Nat /\ \A s \in SUBSET D : Cardinality(s) <= Cardinality(D)
  BY FS_CardinalityType, FS_Subset
<1>6. PICK it \in [SUBSET D -> Nat] : Good(it, Cardinality(D))
  BY <1>4, <1>5
<1>7. \A s \in SUBSET D : it[s] = Step(it, s)
  BY <1>5, <1>6
<1>8. it = [s \in SUBSET D |-> Step(it, s)]
  BY <1>7
<1> QED
  BY <1>8 DEF Adds

LEMMA SumIsNatural ==
    ASSUME NEW f, IsFiniteSet(DOMAIN f), \A x \in DOMAIN f : f[x] \in Nat
    PROVE  SumFunction(f) \in Nat /\ (DOMAIN f = {} => SumFunction(f) = 0)
<1> DEFINE D == DOMAIN f
           it == CHOOSE i : Adds(i, f)
           Bad == {s \in SUBSET D : it[s] \notin Nat}
<1>1. Adds(it, f)
  BY SumExists
<1> HIDE DEF it
<1>2. \A s \in SUBSET D : it[s] = IF s = {} THEN 0 ELSE f[Chosen(s)] + it[s \ {Chosen(s)}]
  BY <1>1 DEF Adds
<1>3. Bad = {}
  <2> SUFFICES ASSUME Bad # {} PROVE FALSE
    OBVIOUS
  <2>1. PICK s \in Bad : \A r \in Bad : r \subseteq s => r = s
    <3>1. IsFiniteSet(D) /\ Bad \subseteq SUBSET D
      OBVIOUS
    <3> HIDE DEF Bad, D
    <3> QED
      BY <3>1, SmallestSubset
  <2>2. s # {}
    <3>1. {} \in SUBSET D
      OBVIOUS
    <3>2. it[{}] = 0
      BY <1>2, <3>1
    <3> QED
      BY <3>2
  <2>3. Chosen(s) \in s
    BY <2>2 DEF Chosen
  <2>4. it[s \ {Chosen(s)}] \in Nat
    BY <2>1, <2>3
  <2>5. it[s] = f[Chosen(s)] + it[s \ {Chosen(s)}]
    BY <1>2, <2>2
  <2> QED
    BY <2>3, <2>4, <2>5
<1>4. it[D] \in Nat /\ (D = {} => it[D] = 0)
  BY <1>2, <1>3
<1> QED
  BY <1>4, SumIs DEF it

LEMMA BytesAre ==
    ASSUME NEW chunks \in Seq(Nat)
    PROVE  Bytes(chunks) \in Nat /\ (chunks = <<>> => Bytes(chunks) = 0)
<1>1. /\ Len(chunks) \in Nat /\ DOMAIN chunks = 1 .. Len(chunks)
      /\ \A i \in DOMAIN chunks : chunks[i] \in Nat
  BY LenProperties, ElementOfSeq
<1>2. IsFiniteSet(DOMAIN chunks)
  BY <1>1, FS_Interval
<1> QED
  BY <1>1, <1>2, SumIsNatural DEF Bytes

LEMMA EmptyRing == <<>> \in Seq(Nat) /\ Bytes(<<>>) = 0
<1>1. <<>> \in Seq(Nat)
  OBVIOUS
<1> QED
  BY <1>1, BytesAre

\* Eviction ends within the bound, at the latest with an empty ring.
LEMMA EvictWithinBound ==
    ASSUME NEW chunks \in Seq(Nat)
    PROVE  Evict(chunks) \in Seq(Nat) /\ Bytes(Evict(chunks)) <= RingBytes
<1> DEFINE n == Len(chunks)
           from(i) == SubSeq(chunks, i, n)
           fits == {i \in 1 .. n + 1 : Bytes(from(i)) <= RingBytes}
<1>1. n \in Nat /\ \A i \in 1 .. n : chunks[i] \in Nat
  BY LenProperties, ElementOfSeq
<1>2. \A i \in 1 .. n + 1 : from(i) \in Seq(Nat)
  BY <1>1, SubSeqProperties
<1>3. from(n + 1) = <<>> /\ <<>> \in Seq(Nat)
  BY <1>1, SubSeqEmpty
<1>4. Bytes(from(n + 1)) = 0
  BY <1>3, BytesAre
<1>5. fits \subseteq Nat /\ fits # {}
  <2>1. n + 1 \in 1 .. n + 1 /\ Bytes(from(n + 1)) <= RingBytes
    BY <1>1, <1>4, TerminalAssumption
  <2>2. n + 1 \in fits
    BY <2>1
  <2> QED
    BY <1>1, <2>2
<1>6. Min(fits) \in fits
  BY <1>5, LeastNatural DEF Min
<1>7. Evict(chunks) = from(Min(fits))
  BY DEF Evict
<1> QED
  BY <1>2, <1>6, <1>7

\* A finite set of sizes has a largest.
LEMMA LargestChunk == Max(Chunks) \in Nat /\ \A n \in Chunks : n <= Max(Chunks)
<1> DEFINE Tops(s) == {x \in s : \A y \in s : x >= y}
           Bad == {s \in SUBSET Chunks : s # {} /\ Tops(s) = {}}
<1>1. Chunks \subseteq Nat /\ Chunks # {} /\ IsFiniteSet(Chunks)
  BY TerminalAssumption
<1>2. Bad = {}
  <2> SUFFICES ASSUME Bad # {} PROVE FALSE
    OBVIOUS
  <2>1. PICK s \in Bad : \A r \in Bad : r \subseteq s => r = s
    <3>1. Bad \subseteq SUBSET Chunks /\ Bad # {}
      OBVIOUS
    <3>2. IsFiniteSet(Chunks)
      BY <1>1
    <3> HIDE DEF Bad
    <3> QED
      BY <3>1, <3>2, SmallestSubset
  <2>2. PICK x \in s : TRUE
    BY <2>1
  <2>3. s \ {x} = {} \/ Tops(s \ {x}) # {}
    <3>1. s \ {x} \in SUBSET Chunks /\ s \ {x} # s /\ s \ {x} \subseteq s
      BY <2>1, <2>2
    <3> QED
      BY <2>1, <3>1
  <2>4. CASE s \ {x} = {}
    <3>1. x \in Tops(s)
      BY <1>1, <2>1, <2>2, <2>4
    <3> QED
      BY <2>1, <3>1
  <2>5. CASE Tops(s \ {x}) # {}
    <3>1. PICK y \in s : \A z \in s \ {x} : y >= z
      BY <2>5
    <3>2. x \in Nat /\ y \in Nat /\ \A z \in s : z \in Nat
      BY <1>1, <2>1, <2>2, <3>1
    <3>3. CASE x >= y
      <4>1. \A z \in s : x >= z
        BY <3>1, <3>2, <3>3
      <4> QED
        BY <2>1, <2>2, <4>1
    <3>4. CASE y >= x
      <4>1. \A z \in s : y >= z
        BY <3>1, <3>2, <3>4
      <4> QED
        BY <2>1, <3>1, <4>1
    <3> QED
      BY <3>2, <3>3, <3>4
  <2> QED
    BY <2>3, <2>4, <2>5
<1>3. PICK x \in Chunks : \A y \in Chunks : x >= y
  BY <1>1, <1>2
<1>4. Max(Chunks) \in Chunks /\ \A y \in Chunks : Max(Chunks) >= y
  BY <1>3 DEF Max
<1> QED
  BY <1>1, <1>4

-----------------------------------------------------------------------------
(* Sizes: the replay ring of each session, the meter of each client, and    *)
(* what the client holds.  They rest on the invariant above: output reaches *)
(* a client only while nobody is past the mark.                             *)

States == {"none", "live", "ended", "gone"}
Wires == {"none", "open", "closing", "closed"}

SessionOK(r, t) ==
    /\ r.state \in States /\ r.paused \in BOOLEAN /\ r.hup \in BOOLEAN
    /\ r.ring \in Seq(Nat)
    /\ r.activity \in 0 .. t /\ r.exitedAt \in 0 .. t
    /\ Bytes(r.ring) <= RingBytes
    /\ r.state # "live" => r.ring = <<>>

ConnOK(r) ==
    /\ r.session \in Sessions \cup {"none"} /\ r.attached \in BOOLEAN /\ r.wire \in Wires
    /\ r.unacked \in Nat /\ r.held \in Nat
    /\ r.wire = "open" => r.unacked <= r.held /\ r.held <= r.unacked + RingBytes
    /\ r.attached => r.unacked <= HighWater + Max(Chunks)

Sized ==
    /\ \A s \in Sessions : SessionOK(sess[s], now)
    /\ \A c \in Conns : ConnOK(conn[c])
    /\ \A t \in Tokens : token[t].state \in {"none", "minted", "spent"}
    /\ now \in 0 .. MaxTime

LEMMA TimesAre == MaxTime \in Nat /\ HighWater \in Nat /\ RingBytes \in Nat /\ AckEvery \in Nat \ {0}
  BY TerminalAssumption

LEMMA NewSessionOK == ASSUME NEW t \in Nat PROVE SessionOK(NewSession, t)
  BY EmptyRing, TimesAre DEF SessionOK, NewSession, States

LEMMA InitSized == Init => Sized
<1> SUFFICES ASSUME Init PROVE Sized
  OBVIOUS
<1>1. ConnOK(NewConn)
  BY TimesAre, LargestChunk DEF ConnOK, NewConn, Wires
<1>2. NewToken.state = "none"
  BY DEF NewToken
<1> QED
  BY <1>1, <1>2, NewSessionOK, TimesAre DEF Init, Sized

LEMMA SessionsSized ==
    ASSUME IInv, Sized, Next
    PROVE  \A x \in Sessions : SessionOK(sess'[x], now')
<1> USE DEF Sized
<1>0. now \in Nat /\ now' \in Nat /\ now <= now'
      /\ DOMAIN sess = Sessions /\ \A x \in Sessions : DOMAIN sess[x] = SessionFields
  <2>1. now' = now \/ now' = now + 1
    BY DEF Next, Create, ReissueToken, PtyData, PtyExit, Kill, Attach, Ack, Input, WireLost,
           WireError, WireClose, Detach, ReapIdle, Tick
  <2> QED
    BY <2>1, TimesAre DEF IInv, Typed
<1>1. ASSUME NEW s \in Sessions, NEW t \in Tokens, Create(s, t)
      PROVE  \A x \in Sessions : SessionOK(sess'[x], now')
  <2>1. /\ sess' = [sess EXCEPT ![s] = [NewSession EXCEPT !.state = "live", !.activity = now]]
        /\ now' = now
    BY <1>1 DEF Create
  <2>2. SessionOK([NewSession EXCEPT !.state = "live", !.activity = now], now)
    BY <1>0, NewSessionOK DEF SessionOK, NewSession, States
  <2> QED
    BY <1>0, <2>1, <2>2
<1>2. ASSUME NEW s \in Sessions, NEW n \in Chunks, PtyData(s, n)
      PROVE  \A x \in Sessions : SessionOK(sess'[x], now')
  <2>1. PICK k \in StoredSizes(n) :
           sess' = [sess EXCEPT
                       ![s].ring = Evict(Append(@, k)),
                       ![s].activity = now,
                       ![s].paused = \E c \in Clients(s) : conn'[c].unacked > HighWater]
    BY <1>2 DEF PtyData
  <2>2. k \in Nat
    BY TerminalAssumption DEF StoredSizes
  <2>3. Append(sess[s].ring, k) \in Seq(Nat)
    BY <2>2, AppendProperties DEF SessionOK
  <2> DEFINE ring == Evict(Append(sess[s].ring, k))
             lag == \E c \in Clients(s) : conn'[c].unacked > HighWater
  <2>4. ring \in Seq(Nat) /\ Bytes(ring) <= RingBytes /\ lag \in BOOLEAN
    BY <2>3, EvictWithinBound
  <2>5. sess[s].state = "live" /\ now' = now
    BY <1>2 DEF PtyData, Live
  <2>6. sess' = [sess EXCEPT ![s].ring = ring, ![s].activity = now, ![s].paused = lag]
    BY <2>1
  <2> HIDE DEF ring, lag
  <2>7. /\ sess'[s].ring = ring /\ sess'[s].activity = now /\ sess'[s].paused = lag
        /\ sess'[s].state = "live" /\ sess'[s].hup = sess[s].hup
        /\ sess'[s].exitedAt = sess[s].exitedAt
    BY <1>0, <2>5, <2>6 DEF SessionFields
  <2>8. SessionOK(sess'[s], now)
    BY <1>0, <2>4, <2>7 DEF SessionOK, States
  <2> QED
    BY <1>0, <2>5, <2>6, <2>8
<1>3. ASSUME NEW s \in Sessions, PtyExit(s)
      PROVE  \A x \in Sessions : SessionOK(sess'[x], now')
  <2>1. /\ sess' = [sess EXCEPT ![s].state = "ended", ![s].exitedAt = now, ![s].ring = <<>>]
        /\ now' = now
    BY <1>3 DEF PtyExit
  <2>2. /\ sess'[s].ring = <<>> /\ sess'[s].activity = sess[s].activity
        /\ sess'[s].paused = sess[s].paused /\ sess'[s].state = "ended"
        /\ sess'[s].hup = sess[s].hup /\ sess'[s].exitedAt = now
    BY <1>0, <2>1 DEF SessionFields
  <2>3. SessionOK(sess'[s], now)
    BY <1>0, <2>2, EmptyRing, TimesAre DEF SessionOK, States
  <2> QED
    BY <1>0, <2>1, <2>3
\* Steps that change the marks of a session, not its ring.
<1>4. ASSUME now' = now,
             \A x \in Sessions :
                /\ sess'[x].state = sess[x].state /\ sess'[x].ring = sess[x].ring
                /\ sess'[x].paused \in BOOLEAN /\ sess'[x].hup \in BOOLEAN
                /\ sess'[x].activity \in {sess[x].activity, now}
                /\ sess'[x].exitedAt = sess[x].exitedAt
      PROVE  \A x \in Sessions : SessionOK(sess'[x], now')
  BY <1>0, <1>4 DEF SessionOK
<1>5. ASSUME NEW c \in Conns, NEW s \in Sessions, NEW t \in Tokens, Attach(c, s, t)
      PROVE  \A x \in Sessions : SessionOK(sess'[x], now')
  <2>1. sess' = [sess EXCEPT ![s].activity = now] /\ now' = now
    BY <1>5 DEF Attach
  <2> QED
    BY <1>0, <1>4, <2>1 DEF SessionFields, SessionOK
<1>6. ASSUME NEW c \in Conns, Input(c)
      PROVE  \A x \in Sessions : SessionOK(sess'[x], now')
  <2>1. sess' = [sess EXCEPT ![conn[c].session].activity = now] /\ now' = now
        /\ conn[c].session \in Sessions
    BY <1>6 DEF Input, IInv, Joined
  <2> QED
    BY <1>0, <1>4, <2>1 DEF SessionFields, SessionOK
<1>7. ASSUME NEW s \in Sessions, sess' = [sess EXCEPT ![s].paused = StillPaused(s)], now' = now
      PROVE  \A x \in Sessions : SessionOK(sess'[x], now')
  <2>1. StillPaused(s) \in BOOLEAN
    BY DEF StillPaused
  <2> QED
    BY <1>0, <1>4, <1>7, <2>1 DEF SessionFields, SessionOK
<1>8. ASSUME NEW c \in Conns, Ack(c)
      PROVE  \A x \in Sessions : SessionOK(sess'[x], now')
  <2>1. conn[c].session \in Sessions
    BY <1>8 DEF Ack, IInv, Joined
  <2> QED
    BY <1>7, <1>8, <2>1 DEF Ack
<1>9. ASSUME NEW c \in Conns, NEW wire, Detach(c, wire)
      PROVE  \A x \in Sessions : SessionOK(sess'[x], now')
  <2>1. CASE conn[c].attached
    <3>1. conn[c].session \in Sessions
      BY <2>1 DEF IInv, Joined
    <3> QED
      BY <1>7, <1>9, <2>1, <3>1 DEF Detach
  <2>2. CASE ~conn[c].attached
    BY <1>9, <2>2 DEF Detach
  <2> QED
    BY <2>1, <2>2
<1>10. ASSUME NEW s \in Sessions, Kill(s)
       PROVE  \A x \in Sessions : SessionOK(sess'[x], now')
  <2>1. sess' = [sess EXCEPT ![s].hup = TRUE] /\ now' = now
    BY <1>10 DEF Kill
  <2> QED
    BY <1>0, <1>4, <2>1 DEF SessionFields, SessionOK
<1>11. ASSUME ReapIdle
       PROVE  \A x \in Sessions : SessionOK(sess'[x], now')
  <2> SUFFICES ASSUME NEW x \in Sessions PROVE SessionOK(sess'[x], now)
    BY <1>11 DEF ReapIdle
  <2>1. \/ sess'[x] = [sess[x] EXCEPT !.hup = TRUE]
        \/ sess'[x] = [NewSession EXCEPT !.state = "gone"]
        \/ sess'[x] = sess[x]
    BY <1>11 DEF ReapIdle
  <2>2. SessionOK([NewSession EXCEPT !.state = "gone"], now)
    BY <1>0, NewSessionOK DEF SessionOK, NewSession, States
  <2>3. SessionOK([sess[x] EXCEPT !.hup = TRUE], now)
    BY <1>0 DEF SessionOK, SessionFields
  <2> QED
    BY <2>1, <2>2, <2>3
<1>12. CASE sess' = sess
  BY <1>0, <1>12 DEF SessionOK
<1> QED
  BY <1>1, <1>2, <1>3, <1>5, <1>6, <1>8, <1>9, <1>10, <1>11, <1>12
  DEF Next, ReissueToken, WireLost, WireError, WireClose, Tick

LEMMA ConnsSized ==
    ASSUME IInv, Sized, Next
    PROVE  \A d \in Conns : ConnOK(conn'[d])
<1> USE DEF Sized
<1>0. DOMAIN conn = Conns /\ \A d \in Conns : DOMAIN conn[d] = ConnFields
  BY DEF IInv, Typed
<1>1. ASSUME NEW s \in Sessions, NEW n \in Chunks, PtyData(s, n)
      PROVE  \A d \in Conns : ConnOK(conn'[d])
  <2> SUFFICES ASSUME NEW d \in Conns PROVE ConnOK(conn'[d])
    OBVIOUS
  <2>1. CASE d \in Clients(s)
    <3> DEFINE h == IF conn[d].wire = "open" THEN conn[d].held + n ELSE conn[d].held
    <3>1. conn'[d] = [conn[d] EXCEPT !.unacked = @ + n, !.held = h]
      BY <1>1, <2>1 DEF PtyData, Delivered
    <3>2. h = IF conn[d].wire = "open" THEN conn[d].held + n ELSE conn[d].held
      OBVIOUS
    <3> HIDE DEF h
    <3>3. /\ conn'[d].unacked = conn[d].unacked + n /\ conn'[d].held = h
          /\ conn'[d].session = conn[d].session /\ conn'[d].attached = conn[d].attached
          /\ conn'[d].wire = conn[d].wire
      BY <1>0, <3>1 DEF ConnFields
    <3>4. n \in Nat /\ n <= Max(Chunks) /\ Max(Chunks) \in Nat
      BY LargestChunk, TerminalAssumption
    <3>5. ~Laggard(s)
      BY <1>1 DEF PtyData, IInv, FlowControl
    <3>6. conn[d].unacked <= HighWater
      BY <2>1, <3>5, TimesAre DEF Laggard, ConnOK
    <3> QED
      BY <3>2, <3>3, <3>4, <3>6, TimesAre DEF ConnOK
  <2>2. CASE d \notin Clients(s)
    <3>1. conn'[d] = conn[d]
      BY <1>1, <2>2 DEF PtyData, Delivered
    <3> QED
      BY <3>1
  <2> QED
    BY <2>1, <2>2
\* A client that left holds nothing and owes nothing.
<1>2. ASSUME NEW d \in Conns, NEW wire \in Wires,
             conn'[d] = [Dropped(d) EXCEPT !.wire = wire]
      PROVE  ConnOK(conn'[d])
  <2>1. /\ conn'[d].unacked = 0 /\ conn'[d].held = 0 /\ conn'[d].attached = FALSE
        /\ conn'[d].session = conn[d].session /\ conn'[d].wire = wire
    BY <1>0, <1>2 DEF Dropped, ConnFields
  <2>2. conn'[d].session \in Sessions \cup {"none"}
    BY <2>1 DEF ConnOK
  <2>3. 0 <= HighWater + Max(Chunks) /\ 0 <= 0 + RingBytes /\ 0 \in Nat
    BY TimesAre, LargestChunk
  <2>4. conn'[d].wire \in Wires
    BY <2>1
  <2>5. conn'[d].attached \in BOOLEAN /\ ~conn'[d].attached
    BY <2>1
  <2>6. conn'[d].unacked \in Nat /\ conn'[d].held \in Nat
    BY <2>1
  <2>7. conn'[d].unacked <= conn'[d].held /\ conn'[d].held <= conn'[d].unacked + RingBytes
    BY <2>1, <2>3
  <2> QED
    BY <2>2, <2>4, <2>5, <2>6, <2>7 DEF ConnOK
<1>3. ASSUME NEW s \in Sessions, PtyExit(s)
      PROVE  \A d \in Conns : ConnOK(conn'[d])
  <2> SUFFICES ASSUME NEW d \in Conns PROVE ConnOK(conn'[d])
    OBVIOUS
  <2>1. conn'[d] = [Dropped(d) EXCEPT !.wire = "closing"] \/ conn'[d] = conn[d]
    BY <1>3 DEF PtyExit
  <2> QED
    BY <1>2, <2>1 DEF Wires
<1>4. ASSUME NEW c \in Conns, NEW s \in Sessions, NEW t \in Tokens, Attach(c, s, t)
      PROVE  \A d \in Conns : ConnOK(conn'[d])
  <2>1. conn' = [conn EXCEPT ![c] = [session |-> s, by |-> t, attached |-> TRUE,
                                     late |-> ~(now <= token[t].expires),
                                     unacked |-> 0, held |-> Bytes(sess[s].ring),
                                     wire |-> "open"]]
    BY <1>4 DEF Attach
  <2>2. Bytes(sess[s].ring) \in Nat /\ Bytes(sess[s].ring) <= RingBytes
    BY BytesAre DEF SessionOK
  <2>3. /\ conn'[c].session = s /\ conn'[c].attached = TRUE /\ conn'[c].unacked = 0
        /\ conn'[c].held = Bytes(sess[s].ring) /\ conn'[c].wire = "open"
    BY <1>0, <2>1
  <2>4. /\ 0 <= HighWater + Max(Chunks) /\ 0 <= Bytes(sess[s].ring) /\ 0 \in Nat
        /\ Bytes(sess[s].ring) <= 0 + RingBytes
    BY <2>2, TimesAre, LargestChunk
  <2>5. ConnOK(conn'[c])
    BY <2>2, <2>3, <2>4 DEF ConnOK, Wires
  <2> QED
    BY <1>0, <2>1, <2>5
<1>5. ASSUME NEW c \in Conns, Ack(c)
      PROVE  \A d \in Conns : ConnOK(conn'[d])
  <2>1. PICK n \in AckEvery .. conn[c].held :
           conn' = [conn EXCEPT ![c].unacked = IF @ > n THEN @ - n ELSE 0, ![c].held = @ - n]
    BY <1>5 DEF Ack
  <2> DEFINE u == IF conn[c].unacked > n THEN conn[c].unacked - n ELSE 0
  <2>2. conn' = [conn EXCEPT ![c].unacked = u, ![c].held = conn[c].held - n]
    BY <2>1
  <2>3. u = IF conn[c].unacked > n THEN conn[c].unacked - n ELSE 0
    OBVIOUS
  <2> HIDE DEF u
  <2>4. /\ conn'[c].unacked = u /\ conn'[c].held = conn[c].held - n
        /\ conn'[c].session = conn[c].session /\ conn'[c].attached = conn[c].attached
        /\ conn'[c].wire = conn[c].wire
    BY <1>0, <2>2 DEF ConnFields
  <2>5. n \in Nat /\ n <= conn[c].held
    BY TimesAre DEF ConnOK
  <2>6. ConnOK(conn'[c])
    BY <2>3, <2>4, <2>5, TimesAre, LargestChunk DEF ConnOK
  <2> QED
    BY <1>0, <2>2, <2>6
<1>6. ASSUME NEW c \in Conns, WireLost(c)
      PROVE  \A d \in Conns : ConnOK(conn'[d])
  <2>1. conn' = [conn EXCEPT ![c].wire = "closing"]
    BY <1>6 DEF WireLost
  <2>2. /\ conn'[c].unacked = conn[c].unacked /\ conn'[c].held = conn[c].held
        /\ conn'[c].session = conn[c].session /\ conn'[c].attached = conn[c].attached
        /\ conn'[c].wire = "closing"
    BY <1>0, <2>1 DEF ConnFields
  <2>3. ConnOK(conn'[c])
    BY <2>2 DEF ConnOK, Wires
  <2> QED
    BY <1>0, <2>1, <2>3
<1>7. ASSUME NEW c \in Conns, WireError(c) \/ WireClose(c)
      PROVE  \A d \in Conns : ConnOK(conn'[d])
  <2>1. PICK wire \in Wires : Detach(c, wire)
    BY <1>7 DEF WireError, WireClose, Wires
  <2>2. conn' = [conn EXCEPT ![c] = [Dropped(c) EXCEPT !.wire = wire]]
    BY <2>1 DEF Detach
  <2>3. conn'[c] = [Dropped(c) EXCEPT !.wire = wire]
    BY <1>0, <2>2
  <2>4. ConnOK(conn'[c])
    BY <1>2, <2>3
  <2> QED
    BY <1>0, <2>2, <2>4
<1>8. CASE conn' = conn
  BY <1>8
<1> QED
  BY <1>1, <1>3, <1>4, <1>5, <1>6, <1>7, <1>8
  DEF Next, Create, ReissueToken, Kill, Input, ReapIdle, Tick

LEMMA TokensSized ==
    ASSUME IInv, Sized, Next
    PROVE  /\ \A t \in Tokens : token'[t].state \in {"none", "minted", "spent"}
           /\ now' \in 0 .. MaxTime
<1> USE DEF Sized
<1>0. DOMAIN token = Tokens /\ \A t \in Tokens : DOMAIN token[t] = TokenFields
  BY DEF IInv, Typed
<1>1. now' \in 0 .. MaxTime
  <2>1. now' = now \/ (now < MaxTime /\ now' = now + 1)
    BY DEF Next, Create, ReissueToken, PtyData, PtyExit, Kill, Attach, Ack, Input, WireLost,
           WireError, WireClose, Detach, ReapIdle, Tick
  <2> QED
    BY <2>1, TimesAre
<1>2. ASSUME NEW t \in Tokens, NEW s, mintToken(t, s)
      PROVE  \A u \in Tokens : token'[u].state \in {"none", "minted", "spent"}
  BY <1>0, <1>2 DEF mintToken
<1>3. ASSUME NEW c \in Conns, NEW s \in Sessions, NEW t \in Tokens, Attach(c, s, t)
      PROVE  \A u \in Tokens : token'[u].state \in {"none", "minted", "spent"}
  BY <1>0, <1>3 DEF Attach, TokenFields
<1>4. ASSUME ReapIdle
      PROVE  \A u \in Tokens : token'[u].state \in {"none", "minted", "spent"}
  BY <1>0, <1>4 DEF ReapIdle, TokenFields
<1>5. CASE token' = token
  BY <1>1, <1>5
<1> QED
  BY <1>1, <1>2, <1>3, <1>4, <1>5
  DEF Next, Create, ReissueToken, PtyData, PtyExit, Kill, Ack, Input, WireLost,
      WireError, WireClose, Detach, Tick

LEMMA NextSized == IInv /\ Sized /\ [Next]_vars => Sized'
<1>1. ASSUME IInv, Sized, Next PROVE Sized'
  BY <1>1, SessionsSized, ConnsSized, TokensSized DEF Sized
<1>2. ASSUME Sized, UNCHANGED vars PROVE Sized'
  BY <1>2 DEF Sized, vars
<1> QED
  BY <1>1, <1>2

LEMMA SizedInvariance == Spec => []Sized
  BY InitSized, NextSized, Invariance, PTL DEF Spec

\* The records of the manager keep the shapes and ranges its code gives them.
THEOREM TypeCorrect == Spec => []TypeOK
<1>1. Sized => TypeOK
  BY DEF Sized, SessionOK, ConnOK, TypeOK, States, Wires
<1> QED
  BY <1>1, SizedInvariance, PTL

(***************************************************************************)
(* The memory the manager spends is bounded by its options: each ring by   *)
(* RingBytes, however large a chunk is and however it decodes once cut,    *)
(* each client's backlog by the mark and one chunk, a dead session's by    *)
(* nothing at all.                                                         *)
(***************************************************************************)
THEOREM MemoryBoundCorrect == Spec => []MemoryBound
<1>1. Sized => MemoryBound
  BY DEF Sized, SessionOK, ConnOK, MemoryBound, Live
<1> QED
  BY <1>1, SizedInvariance, PTL

(***************************************************************************)
(* The meter never believes a client holds more than it does, and falls    *)
(* short of what it holds by the unmetered replay at most: the clamp at    *)
(* zero in onAck forgives no more credit than attach left out.             *)
(***************************************************************************)
THEOREM MeterWithinReplayCorrect == Spec => []MeterWithinReplay
<1>1. Sized => MeterWithinReplay
  BY DEF Sized, ConnOK, MeterWithinReplay
<1> QED
  BY <1>1, SizedInvariance, PTL

-----------------------------------------------------------------------------
(* The receipts of a session, told with the places at which they stand.     *)

Events == {<<"start">>, <<"end">>} \cup {<<"attach", c>> : c \in Conns}
                                  \cup {<<"detach", c>> : c \in Conns}

StoryOf(s) ==
    /\ receipts[s] \in Seq(Events)
    /\ sess[s].state = "none" => receipts[s] = <<>>
    /\ At(s, <<"start">>) = (IF sess[s].state = "none" THEN {} ELSE {1})
    /\ At(s, <<"end">>) = (IF sess[s].state \in {"ended", "gone"}
                           THEN {Len(receipts[s])} ELSE {})

On(s, c) == At(s, <<"attach", c>>)
Off(s, c) == At(s, <<"detach", c>>)
PartOf(s, c) ==
    /\ \A i, j \in On(s, c) : i = j
    /\ \A i, j \in Off(s, c) : i = j
    /\ Off(s, c) # {} => On(s, c) # {}
    /\ \A i \in On(s, c), j \in Off(s, c) : i < j
    /\ Live(s) => (c \in Clients(s) <=> On(s, c) # {} /\ Off(s, c) = {})
    /\ conn[c].wire = "none" => On(s, c) = {} /\ Off(s, c) = {}

Joining == \A c \in Conns : conn[c].attached => Live(conn[c].session)

Story ==
    /\ DOMAIN receipts = Sessions
    /\ \A s \in Sessions : StoryOf(s)
    /\ \A s \in Sessions, c \in Conns : PartOf(s, c)
    /\ Joining

LEMMA EventsDiffer ==
    ASSUME NEW c, NEW d
    PROVE  /\ <<"start">> # <<"end">>
           /\ <<"start">> # <<"attach", c>> /\ <<"start">> # <<"detach", c>>
           /\ <<"end">> # <<"attach", c>> /\ <<"end">> # <<"detach", c>>
           /\ <<"attach", c>> # <<"detach", d>>
           /\ <<"attach", c>> = <<"attach", d>> => c = d
           /\ <<"detach", c>> = <<"detach", d>> => c = d
  OBVIOUS

LEMMA PlacesAre ==
    ASSUME NEW s, receipts[s] \in Seq(Events), NEW e
    PROVE  Len(receipts[s]) \in Nat /\ At(s, e) \subseteq 1 .. Len(receipts[s])
  BY LenProperties DEF At

\* A receipt goes behind all the others of its session.
LEMMA EmitPlaces ==
    ASSUME DOMAIN receipts = Sessions, NEW s \in Sessions, NEW e \in Events,
           receipts[s] \in Seq(Events), Emit(s, e)
    PROVE  /\ DOMAIN receipts' = Sessions
           /\ \A x \in Sessions : x # s => receipts'[x] = receipts[x]
           /\ receipts'[s] \in Seq(Events)
           /\ Len(receipts'[s]) = Len(receipts[s]) + 1 /\ Len(receipts[s]) \in Nat
           /\ At(s, e)' = At(s, e) \cup {Len(receipts[s]) + 1}
           /\ \A f : f # e => At(s, f)' = At(s, f)
<1>1. /\ DOMAIN receipts' = Sessions
      /\ \A x \in Sessions : x # s => receipts'[x] = receipts[x]
      /\ receipts'[s] = Append(receipts[s], e)
  BY DEF Emit
<1> DEFINE n == Len(receipts[s])
<1>2. /\ n \in Nat /\ DOMAIN receipts[s] = 1 .. n
  BY LenProperties
<1>3. /\ receipts'[s] \in Seq(Events)
      /\ Len(receipts'[s]) = n + 1
      /\ \A i \in 1 .. n : receipts'[s][i] = receipts[s][i]
      /\ receipts'[s][n + 1] = e
  BY <1>1, AppendProperties
<1>4. DOMAIN receipts'[s] = 1 .. n + 1
  BY <1>3, LenProperties
<1>5. \A f : At(s, f)' = {i \in 1 .. n + 1 : receipts'[s][i] = f}
  BY <1>4 DEF At
<1>6. \A f : At(s, f) = {i \in 1 .. n : receipts[s][i] = f}
  BY <1>2 DEF At
<1> HIDE DEF n
<1>7. 1 .. n + 1 = (1 .. n) \cup {n + 1}
  BY <1>2
<1>8. At(s, e)' = At(s, e) \cup {n + 1}
  <2>1. \A i \in 1 .. n + 1 :
           receipts'[s][i] = e <=> i \in {j \in 1 .. n : receipts[s][j] = e} \cup {n + 1}
    BY <1>3, <1>7
  <2>2. At(s, e)' = {i \in 1 .. n + 1 : receipts'[s][i] = e}
    BY <1>5
  <2>3. At(s, e) = {i \in 1 .. n : receipts[s][i] = e}
    BY <1>6
  <2> QED
    BY <1>7, <2>1, <2>2, <2>3
<1>9. \A f : f # e => At(s, f)' = At(s, f)
  <2> SUFFICES ASSUME NEW f, f # e PROVE At(s, f)' = At(s, f)
    OBVIOUS
  <2>1. \A i \in 1 .. n + 1 :
           receipts'[s][i] = f <=> i \in {j \in 1 .. n : receipts[s][j] = f}
    BY <1>2, <1>3, <1>7
  <2>2. At(s, f)' = {i \in 1 .. n + 1 : receipts'[s][i] = f}
    BY <1>5
  <2>3. At(s, f) = {i \in 1 .. n : receipts[s][i] = f}
    BY <1>6
  <2> QED
    BY <1>7, <2>1, <2>2, <2>3
<1> QED
  BY <1>1, <1>2, <1>3, <1>8, <1>9 DEF n

LEMMA InitStory == Init => Story
<1> SUFFICES ASSUME Init PROVE Story
  OBVIOUS
<1>1. /\ \A s \in Sessions : sess[s].state = "none" /\ receipts[s] = <<>>
      /\ \A c \in Conns : ~conn[c].attached
      /\ DOMAIN receipts = Sessions
  BY DEF Init, NewSession, NewConn
<1>2. \A s \in Sessions : \A e : At(s, e) = {}
  BY <1>1 DEF At
<1>3. <<>> \in Seq(Events)
  OBVIOUS
<1> QED
  BY <1>1, <1>2, <1>3 DEF Story, StoryOf, PartOf, Live, On, Off, Joining

\* A step that issues no receipt, takes no client in or out and neither makes
\* nor ends a session leaves the story as it is.
LEMMA SameStory ==
    ASSUME Story, receipts' = receipts,
           \A c \in Conns : /\ conn'[c].session = conn[c].session
                            /\ conn'[c].attached = conn[c].attached
                            /\ conn'[c].wire = "none" => conn[c].wire = "none",
           \A s \in Sessions : \/ sess'[s].state = sess[s].state
                               \/ sess[s].state = "ended" /\ sess'[s].state = "gone",
           \A c \in Conns : conn[c].attached => conn[c].session \in Sessions
    PROVE  Story'
<1>1. \A s : \A e : At(s, e)' = At(s, e)
  BY DEF At
<1>2. \A s \in Sessions : StoryOf(s)'
  BY <1>1 DEF Story, StoryOf
<1>3. \A s \in Sessions : (Live(s)' <=> Live(s)) /\ Clients(s)' = Clients(s)
  BY DEF Live, Clients
<1>4. \A s \in Sessions, c \in Conns : PartOf(s, c)'
  <2>1. \A s \in Sessions, c \in Conns : On(s, c)' = On(s, c) /\ Off(s, c)' = Off(s, c)
    BY <1>1 DEF On, Off
  <2> QED
    BY <1>3, <2>1 DEF Story, PartOf
<1>5. Joining'
  BY <1>3 DEF Story, Joining, Live
<1> QED
  BY <1>2, <1>4, <1>5 DEF Story

LEMMA CreateStory ==
    ASSUME IInv, Story, NEW s \in Sessions, NEW t \in Tokens, Create(s, t)
    PROVE  Story'
<1>1. /\ \A x \in Sessions : x # s => sess'[x] = sess[x]
      /\ sess[s].state = "none" /\ sess'[s].state = "live"
      /\ conn' = conn /\ Emit(s, <<"start">>)
  BY DEF Create, IInv, Typed, NewSession
<1>2. receipts[s] = <<>> /\ Len(receipts[s]) = 0 /\ receipts[s] \in Seq(Events)
      /\ \A e : At(s, e) = {}
  BY <1>1 DEF Story, StoryOf, At
<1>3. /\ DOMAIN receipts' = Sessions
      /\ \A x \in Sessions : x # s => receipts'[x] = receipts[x]
      /\ receipts'[s] \in Seq(Events)
      /\ At(s, <<"start">>)' = {1}
      /\ \A f : f # <<"start">> => At(s, f)' = {}
  <2>1. <<"start">> \in Events
    BY DEF Events
  <2> HIDE DEF Events
  <2>2. /\ DOMAIN receipts' = Sessions
        /\ \A x \in Sessions : x # s => receipts'[x] = receipts[x]
        /\ receipts'[s] \in Seq(Events)
        /\ At(s, <<"start">>)' = At(s, <<"start">>) \cup {Len(receipts[s]) + 1}
        /\ \A f : f # <<"start">> => At(s, f)' = At(s, f)
    BY <1>1, <1>2, <2>1, EmitPlaces DEF Story
  <2>3. At(s, <<"start">>)' = {1}
    BY <1>2, <2>2
  <2> QED
    BY <1>2, <2>2, <2>3
<1>4. \A x \in Sessions : x # s => \A e : At(x, e)' = At(x, e)
  BY <1>3 DEF At
<1>5. \A x \in Sessions : StoryOf(x)'
  <2>1. StoryOf(s)'
    BY <1>1, <1>3, EventsDiffer DEF StoryOf
  <2>2. \A x \in Sessions : x # s => StoryOf(x)'
    <3> SUFFICES ASSUME NEW x \in Sessions, x # s PROVE StoryOf(x)'
      OBVIOUS
    <3>1. StoryOf(x) /\ sess'[x] = sess[x] /\ receipts'[x] = receipts[x]
      BY <1>1, <1>3 DEF Story
    <3>2. At(x, <<"start">>)' = At(x, <<"start">>) /\ At(x, <<"end">>)' = At(x, <<"end">>)
      BY <1>4
    <3> QED
      BY <3>1, <3>2 DEF StoryOf
  <2> QED
    BY <2>1, <2>2
<1>6. Clients(s)' = {} /\ \A x \in Sessions : Clients(x)' = Clients(x)
  BY <1>1 DEF Clients, IInv, Joined
<1>7. \A c \in Conns : PartOf(s, c)'
  BY <1>3, <1>6, EventsDiffer DEF PartOf, On, Off
<1>8. \A x \in Sessions, c \in Conns : x # s => PartOf(x, c)'
  <2>1. \A x \in Sessions, c \in Conns : x # s =>
           On(x, c)' = On(x, c) /\ Off(x, c)' = Off(x, c)
    BY <1>4 DEF On, Off
  <2> QED
    BY <1>1, <1>6, <2>1 DEF Story, PartOf, Live
<1>9. Joining'
  BY <1>1 DEF Story, Joining, Live, IInv, Joined
<1> QED
  BY <1>3, <1>5, <1>7, <1>8, <1>9 DEF Story

LEMMA PtyExitStory ==
    ASSUME IInv, Sized, Story, NEW s \in Sessions, PtyExit(s)
    PROVE  Story'
<1>1. /\ \A x \in Sessions : x # s => sess'[x] = sess[x]
      /\ sess[s].state = "live" /\ sess'[s].state = "ended"
      /\ Emit(s, <<"end">>)
  BY DEF PtyExit, Live, IInv, Typed, SessionFields
<1>2. \A c \in Conns :
         /\ conn'[c].session = conn[c].session
         /\ conn'[c].attached <=> conn[c].attached /\ c \notin Clients(s)
         /\ conn'[c].wire = "none" => conn[c].wire = "none"
  <2> SUFFICES ASSUME NEW c \in Conns
               PROVE  /\ conn'[c].session = conn[c].session
                      /\ conn'[c].attached <=> conn[c].attached /\ c \notin Clients(s)
                      /\ conn'[c].wire = "none" => conn[c].wire = "none"
    OBVIOUS
  <2>1. CASE c \in Clients(s)
    <3>1. conn'[c] = [Dropped(c) EXCEPT !.wire = "closing"]
      BY <2>1 DEF PtyExit
    <3> QED
      BY <2>1, <3>1 DEF Dropped, IInv, Typed, ConnFields
  <2>2. CASE c \notin Clients(s)
    <3>1. conn'[c] = conn[c]
      BY <2>2 DEF PtyExit
    <3> QED
      BY <2>2, <3>1
  <2> QED
    BY <2>1, <2>2
<1>3. /\ receipts[s] \in Seq(Events) /\ DOMAIN receipts = Sessions /\ <<"end">> \in Events
      /\ At(s, <<"start">>) = {1} /\ At(s, <<"end">>) = {}
  BY <1>1 DEF Story, StoryOf, Events
<1>4. /\ DOMAIN receipts' = Sessions
      /\ \A x \in Sessions : x # s => receipts'[x] = receipts[x]
      /\ receipts'[s] \in Seq(Events)
      /\ Len(receipts'[s]) = Len(receipts[s]) + 1
      /\ At(s, <<"end">>)' = At(s, <<"end">>) \cup {Len(receipts[s]) + 1}
      /\ \A f : f # <<"end">> => At(s, f)' = At(s, f)
  BY <1>1, <1>3, EmitPlaces
<1>5. \A x \in Sessions : x # s => \A e : At(x, e)' = At(x, e)
  BY <1>4 DEF At
<1>6. StoryOf(s)'
  <2>1. At(s, <<"end">>)' = {Len(receipts'[s])}
    BY <1>3, <1>4
  <2>2. At(s, <<"start">>)' = {1}
    BY <1>3, <1>4, EventsDiffer
  <2> QED
    BY <1>1, <1>4, <2>1, <2>2 DEF StoryOf
<1>7. \A x \in Sessions : x # s => StoryOf(x)'
  <2> SUFFICES ASSUME NEW x \in Sessions, x # s PROVE StoryOf(x)'
    OBVIOUS
  <2>1. StoryOf(x) /\ sess'[x] = sess[x] /\ receipts'[x] = receipts[x]
    BY <1>1, <1>4 DEF Story
  <2>2. At(x, <<"start">>)' = At(x, <<"start">>) /\ At(x, <<"end">>)' = At(x, <<"end">>)
    BY <1>5
  <2> QED
    BY <2>1, <2>2 DEF StoryOf
<1>8. \A x \in Sessions, c \in Conns : On(x, c)' = On(x, c) /\ Off(x, c)' = Off(x, c)
  BY <1>4, <1>5, EventsDiffer DEF On, Off
<1>9. \A x \in Sessions : x # s => Clients(x)' = Clients(x) /\ (Live(x)' <=> Live(x))
  BY <1>1, <1>2 DEF Clients, Live
<1>10. ~Live(s)'
  BY <1>1 DEF Live
<1>11. \A x \in Sessions, c \in Conns : PartOf(x, c)'
  BY <1>2, <1>8, <1>9, <1>10 DEF Story, PartOf
<1>12. Joining'
  BY <1>1, <1>2, <1>9 DEF Story, Joining, Clients, IInv, Joined
<1> QED
  BY <1>4, <1>6, <1>7, <1>11, <1>12 DEF Story

LEMMA AttachStory ==
    ASSUME IInv, Story, NEW c \in Conns, NEW s \in Sessions, NEW t \in Tokens, Attach(c, s, t)
    PROVE  Story'
<1>1. /\ \A x \in Sessions : sess'[x].state = sess[x].state
      /\ sess[s].state = "live"
      /\ Emit(s, <<"attach", c>>)
  BY DEF Attach, Live, IInv, Typed, SessionFields
<1>2. /\ \A d \in Conns : d # c => conn'[d] = conn[d]
      /\ conn'[c].session = s /\ conn'[c].attached = TRUE /\ conn'[c].wire = "open"
      /\ conn[c].wire = "none" /\ ~conn[c].attached
  BY DEF Attach, IInv, Typed, Joined
<1>3. /\ receipts[s] \in Seq(Events) /\ DOMAIN receipts = Sessions
      /\ <<"attach", c>> \in Events
  BY DEF Story, StoryOf, Events
<1>4. /\ DOMAIN receipts' = Sessions
      /\ \A x \in Sessions : x # s => receipts'[x] = receipts[x]
      /\ receipts'[s] \in Seq(Events)
      /\ On(s, c)' = On(s, c) \cup {Len(receipts[s]) + 1}
      /\ \A f : f # <<"attach", c>> => At(s, f)' = At(s, f)
  BY <1>1, <1>3, EmitPlaces DEF On
<1>5. \A x \in Sessions : x # s => \A e : At(x, e)' = At(x, e)
  BY <1>4 DEF At
<1>6. StoryOf(s)'
  <2>1. At(s, <<"start">>)' = At(s, <<"start">>) /\ At(s, <<"end">>)' = At(s, <<"end">>)
    BY <1>4, EventsDiffer
  <2> QED
    BY <1>1, <1>4, <2>1 DEF Story, StoryOf
<1>7. \A x \in Sessions : x # s => StoryOf(x)'
  <2> SUFFICES ASSUME NEW x \in Sessions, x # s PROVE StoryOf(x)'
    OBVIOUS
  <2>1. StoryOf(x) /\ sess'[x].state = sess[x].state /\ receipts'[x] = receipts[x]
    BY <1>1, <1>4 DEF Story
  <2>2. At(x, <<"start">>)' = At(x, <<"start">>) /\ At(x, <<"end">>)' = At(x, <<"end">>)
    BY <1>5
  <2> QED
    BY <2>1, <2>2 DEF StoryOf
<1>8. \A x \in Sessions, d \in Conns : x # s \/ d # c =>
         On(x, d)' = On(x, d) /\ Off(x, d)' = Off(x, d)
  BY <1>4, <1>5, EventsDiffer DEF On, Off
<1>9. On(s, c) = {} /\ Off(s, c) = {} /\ Off(s, c)' = {}
  BY <1>2, <1>4, EventsDiffer DEF Story, PartOf, Off
<1>10. \A x \in Sessions : Live(x)' <=> Live(x)
  BY <1>1 DEF Live
<1>11. PartOf(s, c)'
  <2>1. c \in Clients(s)'
    BY <1>2 DEF Clients
  <2> QED
    BY <1>2, <1>4, <1>9, <2>1 DEF PartOf
<1>12. \A x \in Sessions, d \in Conns : x # s \/ d # c => PartOf(x, d)'
  <2> SUFFICES ASSUME NEW x \in Sessions, NEW d \in Conns, x # s \/ d # c PROVE PartOf(x, d)'
    OBVIOUS
  <2>1. PartOf(x, d) /\ On(x, d)' = On(x, d) /\ Off(x, d)' = Off(x, d)
    BY <1>8 DEF Story
  <2>2. d \in Clients(x)' <=> d \in Clients(x)
    BY <1>2 DEF Clients
  <2>3. conn'[d].wire = "none" => conn[d].wire = "none"
    BY <1>2
  <2> QED
    BY <1>10, <2>1, <2>2, <2>3 DEF PartOf
<1>13. Joining'
  <2>1. Live(s)
    BY <1>1 DEF Live
  <2> QED
    BY <1>2, <1>10, <2>1 DEF Story, Joining, IInv, Joined
<1> QED
  BY <1>4, <1>6, <1>7, <1>11, <1>12, <1>13 DEF Story

LEMMA DetachStory ==
    ASSUME IInv, Story, NEW c \in Conns, NEW wire, wire # "none", Detach(c, wire)
    PROVE  Story'
<1>0. PICK s : s = conn[c].session
  OBVIOUS
<1>1. /\ \A d \in Conns : d # c => conn'[d] = conn[d]
      /\ conn'[c].session = s /\ conn'[c].attached = FALSE /\ conn'[c].wire = wire
  BY <1>0 DEF Detach, Dropped, IInv, Typed, ConnFields
<1>2. \A d \in Conns : conn[d].attached => conn[d].session \in Sessions
  BY DEF IInv, Joined
<1>3. CASE ~conn[c].attached
  <2>1. receipts' = receipts /\ sess' = sess
    BY <1>3 DEF Detach
  <2>2. \A d \in Conns : /\ conn'[d].session = conn[d].session
                         /\ conn'[d].attached = conn[d].attached
                         /\ conn'[d].wire = "none" => conn[d].wire = "none"
    BY <1>0, <1>1, <1>3 DEF IInv, Typed
  <2> QED
    BY <1>2, <2>1, <2>2, SameStory
<1>4. CASE conn[c].attached
  <2>1. s \in Sessions /\ Live(s) /\ c \in Clients(s)
    BY <1>0, <1>2, <1>4 DEF Story, Joining, Clients
  <2>2. Emit(s, <<"detach", c>>) /\ sess' = [sess EXCEPT ![s].paused = StillPaused(s)]
    BY <1>0, <1>4 DEF Detach
  <2>3. \A x \in Sessions : sess'[x].state = sess[x].state
    BY <2>1, <2>2 DEF IInv, Typed, SessionFields
  <2>4. /\ receipts[s] \in Seq(Events) /\ DOMAIN receipts = Sessions
        /\ <<"detach", c>> \in Events
    BY <2>1 DEF Story, StoryOf, Events
  <2>5. /\ DOMAIN receipts' = Sessions
        /\ \A x \in Sessions : x # s => receipts'[x] = receipts[x]
        /\ receipts'[s] \in Seq(Events)
        /\ At(s, <<"detach", c>>)' = At(s, <<"detach", c>>) \cup {Len(receipts[s]) + 1}
        /\ \A f : f # <<"detach", c>> => At(s, f)' = At(s, f)
    BY <2>1, <2>2, <2>4, EmitPlaces
  <2>6. \A x \in Sessions : x # s => \A e : At(x, e)' = At(x, e)
    BY <2>5 DEF At
  <2>7. StoryOf(s)'
    <3>1. At(s, <<"start">>)' = At(s, <<"start">>) /\ At(s, <<"end">>)' = At(s, <<"end">>)
      BY <2>5, EventsDiffer
    <3>2. sess[s].state = "live"
      BY <2>1 DEF Live
    <3> QED
      BY <2>1, <2>3, <2>5, <3>1, <3>2 DEF Story, StoryOf
  <2>8. \A x \in Sessions : x # s => StoryOf(x)'
    <3> SUFFICES ASSUME NEW x \in Sessions, x # s PROVE StoryOf(x)'
      OBVIOUS
    <3>1. StoryOf(x) /\ sess'[x].state = sess[x].state /\ receipts'[x] = receipts[x]
      BY <2>3, <2>5 DEF Story
    <3>2. At(x, <<"start">>)' = At(x, <<"start">>) /\ At(x, <<"end">>)' = At(x, <<"end">>)
      BY <2>6
    <3> QED
      BY <3>1, <3>2 DEF StoryOf
  <2>9. \A x \in Sessions, d \in Conns : x # s \/ d # c =>
           On(x, d)' = On(x, d) /\ Off(x, d)' = Off(x, d)
    <3> SUFFICES ASSUME NEW x \in Sessions, NEW d \in Conns, x # s \/ d # c
                 PROVE  On(x, d)' = On(x, d) /\ Off(x, d)' = Off(x, d)
      OBVIOUS
    <3>1. CASE x # s
      BY <2>6, <3>1 DEF On, Off
    <3>2. CASE x = s /\ d # c
      <4>1. <<"attach", d>> # <<"detach", c>> /\ <<"detach", d>> # <<"detach", c>>
        BY <3>2, EventsDiffer
      <4> QED
        BY <2>5, <3>2, <4>1 DEF On, Off
    <3> QED
      BY <3>1, <3>2
  <2>10. On(s, c)' = On(s, c) /\ On(s, c) # {} /\ Off(s, c) = {}
    <3>1. On(s, c)' = On(s, c)
      BY <2>5, EventsDiffer DEF On
    <3> QED
      BY <2>1, <3>1 DEF Story, PartOf
  <2>11. \A x \in Sessions : Live(x)' <=> Live(x)
    BY <2>3 DEF Live
  <2>12. PartOf(s, c)'
    <3>1. c \notin Clients(s)'
      BY <1>1 DEF Clients
    <3>2. \A i \in On(s, c) : i < Len(receipts[s]) + 1
      <4>1. Len(receipts[s]) \in Nat /\ On(s, c) \subseteq 1 .. Len(receipts[s])
        BY <2>4, PlacesAre DEF On
      <4> QED
        BY <4>1
    <3>3. Off(s, c)' = {Len(receipts[s]) + 1}
      BY <2>5, <2>10 DEF Off
    <3>4. \A i, j \in On(s, c) : i = j
      BY <2>1 DEF Story, PartOf
    <3>5. conn'[c].wire # "none"
      BY <1>1
    <3> QED
      BY <2>10, <3>1, <3>2, <3>3, <3>4, <3>5 DEF PartOf
  <2>13. \A x \in Sessions, d \in Conns : x # s \/ d # c => PartOf(x, d)'
    <3> SUFFICES ASSUME NEW x \in Sessions, NEW d \in Conns, x # s \/ d # c
                 PROVE  PartOf(x, d)'
      OBVIOUS
    <3>1. PartOf(x, d) /\ On(x, d)' = On(x, d) /\ Off(x, d)' = Off(x, d)
      BY <2>9 DEF Story
    <3>2. d \in Clients(x)' <=> d \in Clients(x)
      BY <1>0, <1>1 DEF Clients
    <3>3. conn'[d].wire = "none" => conn[d].wire = "none"
      BY <1>1
    <3> QED
      BY <2>11, <3>1, <3>2, <3>3 DEF PartOf
  <2>14. Joining'
    BY <1>0, <1>1, <1>2, <2>11 DEF Story, Joining
  <2> QED
    <3>1. \A x \in Sessions : StoryOf(x)'
      BY <2>7, <2>8
    <3>2. \A x \in Sessions, d \in Conns : PartOf(x, d)'
      BY <2>12, <2>13
    <3> QED
      BY <2>5, <2>14, <3>1, <3>2 DEF Story
<1> QED
  BY <1>3, <1>4

LEMMA NextStory == IInv /\ Sized /\ Story /\ [Next]_vars => Story'
<1> SUFFICES ASSUME IInv, Sized, Story, [Next]_vars PROVE Story'
  OBVIOUS
<1>0. \A c \in Conns : conn[c].attached => conn[c].session \in Sessions
  BY DEF IInv, Joined
\* The steps that SameStory speaks of.
<1> DEFINE SameConns ==
             \A c \in Conns : /\ conn'[c].session = conn[c].session
                              /\ conn'[c].attached = conn[c].attached
                              /\ conn'[c].wire = "none" => conn[c].wire = "none"
           SameStates ==
             \A s \in Sessions : \/ sess'[s].state = sess[s].state
                                 \/ sess[s].state = "ended" /\ sess'[s].state = "gone"
<1>1. ASSUME receipts' = receipts, SameConns, SameStates PROVE Story'
  BY <1>0, <1>1, SameStory
<1>2. CASE \E s \in Sessions, t \in Tokens : Create(s, t)
  BY <1>2, CreateStory
<1>3. CASE \E s \in Sessions, t \in Tokens : ReissueToken(s, t)
  BY <1>1, <1>3 DEF ReissueToken
<1>4. ASSUME NEW s \in Sessions, NEW n \in Chunks, PtyData(s, n) PROVE Story'
  <2>1. SameConns
    <3> SUFFICES ASSUME NEW c \in Conns
                 PROVE  /\ conn'[c].session = conn[c].session
                        /\ conn'[c].attached = conn[c].attached
                        /\ conn'[c].wire = conn[c].wire
      OBVIOUS
    <3>1. DOMAIN conn[c] = ConnFields
      BY DEF IInv, Typed
    <3>2. CASE c \in Clients(s)
      <4> DEFINE h == IF conn[c].wire = "open" THEN conn[c].held + n ELSE conn[c].held
      <4>1. conn'[c] = [conn[c] EXCEPT !.unacked = @ + n, !.held = h]
        BY <1>4, <3>2 DEF PtyData, Delivered
      <4> HIDE DEF h
      <4> QED
        BY <3>1, <4>1 DEF ConnFields
    <3>3. CASE c \notin Clients(s)
      BY <1>4, <3>3 DEF PtyData, Delivered
    <3> QED
      BY <3>2, <3>3
  <2>2. SameStates
    BY <1>4 DEF PtyData, IInv, Typed, SessionFields
  <2> QED
    BY <1>1, <1>4, <2>1, <2>2 DEF PtyData
<1>5. CASE \E s \in Sessions : PtyExit(s)
  BY <1>5, PtyExitStory
<1>6. ASSUME NEW s \in Sessions, Kill(s) PROVE Story'
  <2>1. SameConns /\ SameStates
    BY <1>6 DEF Kill, IInv, Typed, SessionFields
  <2> QED
    BY <1>1, <1>6, <2>1 DEF Kill
<1>7. CASE \E c \in Conns, s \in Sessions, t \in Tokens : Attach(c, s, t)
  BY <1>7, AttachStory
<1>8. ASSUME NEW c \in Conns, Ack(c) PROVE Story'
  <2>1. PICK n \in AckEvery .. conn[c].held :
           conn' = [conn EXCEPT ![c].unacked = IF @ > n THEN @ - n ELSE 0, ![c].held = @ - n]
    BY <1>8 DEF Ack
  <2>2. SameConns
    BY <2>1 DEF IInv, Typed, ConnFields
  <2>3. SameStates
    BY <1>8 DEF Ack, IInv, Typed, SessionFields
  <2> QED
    BY <1>1, <1>8, <2>2, <2>3 DEF Ack
<1>9. ASSUME NEW c \in Conns, Input(c) PROVE Story'
  <2>1. SameConns /\ SameStates
    BY <1>9 DEF Input, IInv, Typed, SessionFields
  <2> QED
    BY <1>1, <1>9, <2>1 DEF Input
<1>10. ASSUME NEW c \in Conns, WireLost(c) PROVE Story'
  <2>1. SameConns /\ SameStates
    BY <1>10 DEF WireLost, IInv, Typed, ConnFields
  <2> QED
    BY <1>1, <1>10, <2>1 DEF WireLost
<1>11. CASE \E c \in Conns : WireError(c) \/ WireClose(c)
  BY <1>11, DetachStory DEF WireError, WireClose
<1>12. CASE ReapIdle
  <2>1. SameStates
    BY <1>12 DEF ReapIdle, Forgettable, NewSession, IInv, Typed, SessionFields
  <2> QED
    BY <1>1, <1>12, <2>1 DEF ReapIdle
<1>13. CASE Tick \/ UNCHANGED vars
  BY <1>1, <1>13 DEF Tick, vars
<1> QED
  BY <1>2, <1>3, <1>4, <1>5, <1>6, <1>7, <1>8, <1>9, <1>10, <1>11, <1>12, <1>13 DEF Next

LEMMA StoryInvariance == Spec => []Story
  BY InitStory, NextStory, Invariance, SizedInvariance, PTL DEF Spec

\* At most one place, in the words of the property.
LEMMA OncePlaced ==
    ASSUME NEW on, NEW off, \A i, j \in on : i = j, \A i, j \in off : i = j, off # {} => on # {}
    PROVE  Cardinality(on) <= 1 /\ Cardinality(off) <= Cardinality(on)
<1>1. ASSUME NEW S, \A i, j \in S : i = j
      PROVE  Cardinality(S) = (IF S = {} THEN 0 ELSE 1)
  <2>1. S = {} \/ \E x : S = {x}
    BY <1>1
  <2> QED
    BY <2>1, FS_EmptySet, FS_Singleton
<1> QED
  BY <1>1

LEMMA StoryIsTold == Sized /\ Story => ReceiptsTellTheStory
<1> SUFFICES ASSUME Story, NEW s \in Sessions, NEW c \in Conns
             PROVE  /\ At(s, <<"start">>) = (IF sess[s].state = "none" THEN {} ELSE {1})
                    /\ At(s, <<"end">>) = (IF sess[s].state \in {"ended", "gone"}
                                           THEN {Len(receipts[s])} ELSE {})
                    /\ Cardinality(On(s, c)) <= 1
                    /\ Cardinality(Off(s, c)) <= Cardinality(On(s, c))
                    /\ \A i \in On(s, c), j \in Off(s, c) : i < j
                    /\ Live(s) => (c \in Clients(s) <=> On(s, c) # {} /\ Off(s, c) = {})
  BY DEF ReceiptsTellTheStory, On, Off, Story, StoryOf
<1>1. StoryOf(s) /\ PartOf(s, c)
  BY DEF Story
<1>2. Cardinality(On(s, c)) <= 1 /\ Cardinality(Off(s, c)) <= Cardinality(On(s, c))
  BY <1>1, OncePlaced DEF PartOf
<1> QED
  BY <1>1, <1>2 DEF StoryOf, PartOf

(***************************************************************************)
(* The receipts of a session tell what happened to it: an idempotent       *)
(* detach behind 'error' and 'close', exits that close the clients without *)
(* a detach, and attaches refused to a dead session leave exactly one      *)
(* start, one end at the very end, and each connection's part once.        *)
(***************************************************************************)
THEOREM ReceiptsTellTheStoryCorrect == Spec => []ReceiptsTellTheStory
  BY StoryInvariance, SizedInvariance, StoryIsTold, PTL
=============================================================================
