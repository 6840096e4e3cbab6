--------------------------- MODULE TelegramBridge ---------------------------
(***************************************************************************)
(* One Telegram chat of the bridge (api-shim/src/telegram-bridge.js): how a *)
(* reply is typed into Telegram (telegram-streamer.js) and how the chat is  *)
(* remembered and forgotten (chat-history.js, memory/user-model.js).        *)
(*                                                                          *)
(* Messages of one chat are handled concurrently: each await of a handler   *)
(* is a step, and every other handler, /forget and the death of the process *)
(* may come between two of them.  A reply is the sequence of its tokens, of *)
(* which the model keeps how many have arrived and which of them the user   *)
(* can see.  Every call of the Telegram API may fail.                       *)
(*                                                                          *)
(* The user model shares its database and its row numbers with the other    *)
(* chats of the process, and the opening of it with the gateway's own local *)
(* inference (local-inference.js).  A text, of an observation or a theory,  *)
(* is the set of the messages that went into it.                            *)
(***************************************************************************)
EXTENDS Integers, Sequences, FiniteSets, SequencesExt

CONSTANTS
    Msgs,             \* the messages the user sends, each once
    MaxTokens,        \* bound: tokens of two replies in flight
    SoftChars,        \* tokens a Telegram message holds, SOFT_CHARS
    EditFailureMax,   \* failed edits in a row that end the live edits, 3
    MaxRing,          \* turns the history keeps, MAX_RING
    SynthEvery,       \* observations between two syntheses, DEFAULT_SYNTH_EVERY
    SynthRows,        \* observations a synthesis reads at most, 60
    MaxForgets,       \* bound: /forget commands
    MaxCrashes        \* bound: deaths of the process

ASSUME BoundsAssumption ==
    /\ {SoftChars, EditFailureMax, MaxRing, SynthEvery, SynthRows} \subseteq Nat \ {0}
    /\ {MaxTokens, MaxForgets, MaxCrashes} \subseteq Nat

VARIABLES
    turn,        \* the handler of each message
    cache,       \* the history in memory; <<>> is a chat that is not loaded
    file,        \* the history on disk; <<>> is no file
    db,          \* the database of the user model: nobody has asked for it
                 \* ("closed"), it is being opened for the chat ("ours") or for
                 \* local inference ("theirs"), it is "open" or there is "none"
    loading,     \* the user-model calls that wait for it to be opened
    observed,    \* rows of the observations table: the messages, oldest first
    ids,         \* the last row number given, never given again
    theory,      \* the row of the models table
    synths,      \* the bag of the theories that are being drawn
    forgets, crashes,
    forgotten,   \* ghost: the turns the /forget commands found
    leaked,      \* ghost: what the syntheses in flight at the last wipe had read
    spared       \* ghost: what the last /forget could not wipe, the "file" or
                 \* the user "model"

memoryVars == <<cache, file>>
storeVars == <<observed, ids, theory, synths, leaked>>
modelVars == <<db, loading, storeVars>>
ghostVars == <<forgotten, spared>>
bridgeVars == <<turn, memoryVars, modelVars, forgets, crashes, ghostVars>>

\* The calls of the user model: a wipe, of whose two DELETEs one may fail, a
\* turn of the user and a turn of the agent, which is only looked at.
Forget(fate) == <<"forget", fate>>
Observe(m) == <<"observe", m>>
Look == <<"look">>
Fates == {"both", "rows", "none"}

\* A theory: the messages it was drawn from and the watermark obs_at_synth.
NoTheory == [from |-> {}, upTo |-> 0]
NoTurn == [pc |-> "idle", full |-> 0, start |-> 0, fails |-> 0, shown |-> {},
           gap |-> FALSE]

BridgeInit ==
    /\ turn = [m \in Msgs |-> NoTurn]
    /\ cache = <<>> /\ file = <<>>
    /\ db = "closed" /\ loading = <<>>
    /\ observed = <<>> /\ ids = 0 /\ theory = NoTheory /\ synths = EmptyBag
    /\ forgets = 0 /\ crashes = 0
    /\ forgotten = {} /\ leaked = {} /\ spared = {}

At(m, pc) == turn[m].pc = pc
Tokens(m) == 1 .. turn[m].full
Segment(m) == turn[m].start + 1 .. turn[m].full
Becomes(m, after) == turn' = [turn EXCEPT ![m] = after]
Goto(m, pc) == Becomes(m, [turn[m] EXCEPT !.pc = pc])
\* The handler returns or dies: what it knew of the reply goes with it.
Over(pc) == [NoTurn EXCEPT !.pc = pc]

-----------------------------------------------------------------------------
(* The history and the theory of the user.                                  *)

load == IF cache # <<>> THEN cache ELSE file

Newest(n, turns) == IF Len(turns) > n THEN SubSeq(turns, Len(turns) - n + 1, Len(turns))
                    ELSE turns
Ring(turns) == Newest(MaxRing, turns)

\* Enough was said since the theory was drawn; the first turn is enough when
\* there is no theory.  The rows are the newest ones of the table or all gone.
shouldSynthesize(store) ==
    /\ store.rows # <<>>
    /\ store.theory = NoTheory \/ store.ids - store.theory.upTo >= SynthEvery

One(drawn) == SetToBag({drawn})

\* A synthesis is given the newest rows and the prior theory, to revise it.
synthesize(store) ==
    [store EXCEPT !.started =
        @ (+) One([from |-> Range(Newest(SynthRows, store.rows)) \cup store.theory.from,
                   upTo |-> store.ids])]

\* A turn of the user is a row ...
observe(store, m) == [store EXCEPT !.rows = Append(@, m), !.ids = @ + 1]

\* ... and the rows are forgotten first, then the theory, then nothing: a
\* synthesis in flight is not stopped.
forget(store, fate) ==
    [store EXCEPT !.rows = IF fate = "none" THEN @ ELSE <<>>,
                  !.theory = IF fate = "both" THEN NoTheory ELSE @,
                  !.leaked = UNION {drawn.from : drawn \in DOMAIN store.started}]

\* The database is open: a call runs to its end, and every turn, the agent's
\* too, may start a synthesis, also while another one is in flight ("at most
\* once every N user turns", chat-history.js:92, counts finished ones).
Run(store, call) ==
    IF call[1] = "forget" THEN forget(store, call[2])
    ELSE LET told == IF call[1] = "observe" THEN observe(store, call[2]) ELSE store
         IN  IF shouldSynthesize(told) THEN synthesize(told) ELSE told

Store == [rows |-> observed, ids |-> ids, theory |-> theory, started |-> synths,
          leaked |-> leaked]

UserModel(store) ==
    /\ observed' = store.rows
    /\ ids' = store.ids
    /\ theory' = store.theory
    /\ synths' = store.started
    /\ leaked' = store.leaked

\* The first call opens the database and the next ones wait behind it; while
\* local inference opens it, initUserModel returns at once, and the call finds
\* no database, as it does when there is none.
Call(call) ==
    \/ db = "open" /\ UserModel(Run(Store, call)) /\ UNCHANGED <<db, loading>>
    \/ /\ db \in {"closed", "ours"} /\ db' = "ours"
       /\ loading' = Append(loading, call)
       /\ UNCHANGED storeVars
    \/ db \in {"theirs", "none"} /\ UNCHANGED modelVars

CallNow(call) ==
    \/ db = "open" /\ UserModel(Run(Store, call)) /\ UNCHANGED <<db, loading>>
    \/ db # "open" /\ UNCHANGED modelVars

\* A request the gateway answers itself asks for the database first.
InferenceAsks ==
    /\ db = "closed" /\ db' = "theirs"
    /\ UNCHANGED <<turn, memoryVars, loading, storeVars, forgets, crashes, ghostVars>>

WipeQueued == \E call \in Range(loading) : call[1] = "forget"

\* initUserModel has opened the database, and the calls that waited run ...
ModelOpens ==
    /\ db \in {"ours", "theirs"} /\ db' = "open"
    /\ UserModel(FoldLeft(Run, Store, loading))
    /\ loading' = <<>>
    /\ UNCHANGED <<turn, memoryVars, forgets, crashes, ghostVars>>

\* ... or there is no driver or no file, and it is not tried again.
ModelFails ==
    /\ db \in {"ours", "theirs"} /\ db' = "none"
    /\ loading' = <<>>
    /\ spared' = IF WipeQueued THEN spared \cup {"model"} ELSE spared
    /\ UNCHANGED <<turn, memoryVars, storeVars, forgets, crashes, forgotten>>

\* The local model answered, or failed and the prior theory stays.
Synthesized ==
    /\ \E drawn \in DOMAIN synths :
          /\ theory' \in {drawn, theory}
          /\ synths' = synths (-) One(drawn)
    /\ UNCHANGED <<turn, memoryVars, db, loading, observed, ids, leaked, forgets, crashes,
                   ghostVars>>

\* A turn joins the ring; writing the file may fail, and is not reported.
append(role, m) ==
    /\ cache' = Ring(Append(load, <<role, m>>))
    /\ file' \in {cache', file}
    /\ Call(IF role = "user" THEN Observe(m) ELSE Look)

ClearedNow(fate) == cache' = <<>> /\ file' \in {<<>>, file} /\ CallNow(Forget(fate))

\* The cache and the file go at once, the theory when the database is open;
\* unlink and the DELETEs may fail, and that is not reported.
Cleared(fate) ==
    /\ cache' = <<>>
    /\ file' \in {<<>>, file}
    /\ Call(Forget(fate))

\* A /forget of this moment is not heard while local inference opens the
\* database, meets no database, or one that fails it.
Spares(fate) == IF db \in {"theirs", "none"} \/ fate # "both" THEN {"model"} ELSE {}

clear ==
    /\ forgets < MaxForgets
    /\ forgets' = forgets + 1
    /\ \E fate \in Fates : Cleared(fate) /\ spared' = Spares(fate) \cup
                                                (IF file' # <<>> THEN {"file"} ELSE {})
    /\ LET told == {call[2] : call \in {waiting \in Range(loading) : waiting[1] = "observe"}}
           known == Range(observed) \cup theory.from \cup told
       IN  forgotten' = forgotten \cup Range(load) \cup Range(file)
                          \cup {<<"user", m>> : m \in known}
    /\ UNCHANGED <<turn, crashes>>

\* The process dies and is started again; a rejection nobody awaits does it.
Crash ==
    /\ crashes < MaxCrashes
    /\ crashes' = crashes + 1
    /\ turn' = [m \in Msgs |-> IF turn[m].pc \in {"idle", "done"} THEN turn[m]
                               ELSE Over("done")]
    /\ cache' = <<>>
    /\ db' = "closed" /\ loading' = <<>> /\ synths' = EmptyBag
    /\ spared' = IF WipeQueued THEN spared \cup {"model"} ELSE spared
    /\ UNCHANGED <<file, observed, ids, theory, leaked, forgets, forgotten>>

-----------------------------------------------------------------------------
(* The handler of a message.                                                *)

onlyTurn == UNCHANGED <<memoryVars, modelVars, forgets, crashes, ghostVars>>

\* The listener: a key-shaped message, a command or a setting is answered at
\* once, any other is remembered after the awaited probe of the models.
Hear(m) ==
    /\ At(m, "idle")
    /\ \E pc \in {"text", "done"} : Goto(m, pc)
    /\ onlyTurn

\* A voice note is downloaded, transcoded and transcribed first: without a
\* transcript, or with a key in it, the user is told, and a download may fail.
HearVoice(m) ==
    /\ At(m, "idle")
    /\ \E pc \in {"voice", "done", "error"} : Goto(m, pc)
    /\ onlyTurn

\* The turn is remembered and the prompt built; a voice note asks the gateway.
StartReply(m) ==
    /\ \/ At(m, "text") /\ Goto(m, "placeholder")
       \/ At(m, "voice") /\ Goto(m, "spoken")
    /\ append("user", m)
    /\ UNCHANGED <<forgets, crashes, ghostVars>>

\* sendMessage of the placeholder: a message, a message without an id, an error.
Placeholder(m) ==
    /\ At(m, "placeholder")
    /\ \E pc \in {"stream", "blind", "rescue"} : Goto(m, pc)
    /\ onlyTurn

\* Only the text of the reply still counts: it will be sent as a whole.
Gathered(t, pc) == [Over(pc) EXCEPT !.full = t.full]

Arrived(m) == [turn[m] EXCEPT !.full = @ + 1]
Edited(t) == [t EXCEPT !.shown = @ \cup (t.start + 1 .. t.full), !.fails = 0]
EditFailed(t) == IF t.fails + 1 < EditFailureMax THEN [t EXCEPT !.fails = @ + 1]
                 ELSE Gathered(t, "blind")

\* A token arrives: it is kept whatever happens to the edits.  A full message
\* is finished, any other may be edited when the throttle lets it, until too
\* many edits in a row have failed.
Token(m) ==
    /\ turn[m].pc \in {"stream", "blind"} /\ turn[m].full < MaxTokens
    /\ \A x \in Msgs \ {m} : turn[m].full + turn[x].full < MaxTokens
    /\ LET t == Arrived(m)
           isFull == At(m, "stream") /\ t.full - t.start >= SoftChars
       IN  IF isFull THEN Becomes(m, [t EXCEPT !.pc = "roll"])
           ELSE \/ Becomes(m, t)
                \/ /\ At(m, "stream")
                   /\ \E after \in {Edited(t), EditFailed(t)} : Becomes(m, after)
    /\ onlyTurn

FinalisedNever(m) == {turn[m]}

\* The full message gets its final text, or the failure of both edits is
\* swallowed and what was not yet shown of it is dropped ...
Finalised(m) ==
    {[turn[m] EXCEPT !.shown = @ \cup Segment(m)],
     [turn[m] EXCEPT !.gap = @ \/ ~(Segment(m) \subseteq turn[m].shown)]}

\* ... and the reply goes on in a new message; without one it ends here.
Roll(m) ==
    /\ At(m, "roll")
    /\ \E t \in Finalised(m), pc \in {"stream", "rescue"} :
          Becomes(m, IF pc = "stream" THEN [t EXCEPT !.pc = pc, !.start = t.full]
                     ELSE Gathered(t, "rescue"))
    /\ onlyTurn

\* The stream ends: with the live edits given up, or never begun, the whole
\* text is sent; otherwise the last message gets its final edit.
StreamEnds(m) ==
    /\ turn[m].pc \in {"stream", "blind"}
    /\ IF At(m, "stream") THEN Goto(m, "final")
       ELSE Becomes(m, Gathered(turn[m], "rescue"))
    /\ onlyTurn

\* Ollama refuses the request or drops the connection.
StreamFails(m) ==
    /\ turn[m].pc \in {"stream", "blind"}
    /\ Becomes(m, Gathered(turn[m], "rescue"))
    /\ onlyTurn

Answered(t, seen, gap) ==
    [Over("answered") EXCEPT !.full = t.full, !.shown = seen, !.gap = gap]

\* The last edit, formatted, again after a 429, then in plain text.  Telegram
\* takes no empty text, which a reply that ends with a full message leaves.
FinalEdit(m) ==
    /\ At(m, "final")
    /\ \/ /\ Segment(m) # {}
          /\ Becomes(m, Answered(turn[m], turn[m].shown \cup Segment(m), turn[m].gap))
       \/ Becomes(m, Gathered(turn[m], "rescue"))
    /\ onlyTurn

\* The whole text again, formatted and then plain; both failures are swallowed.
\* A reply without text is asked of the gateway.
failSafeFullSend(m) ==
    /\ At(m, "rescue")
    /\ IF turn[m].full = 0 THEN Goto(m, "gateway")
       ELSE \/ Becomes(m, Answered(turn[m], Tokens(m), FALSE))
            \/ Becomes(m, Answered(turn[m], {}, TRUE))
    /\ onlyTurn

Whole == [Over("answered") EXCEPT !.full = 1, !.shown = {1}]

\* The gateway answers in one piece and the answer is sent.  If either fails
\* the caller's catch tries both once more.
GatewayReply(m) ==
    /\ turn[m].pc \in {"gateway", "again"}
    /\ \/ Becomes(m, Whole)
       \/ Goto(m, IF At(m, "gateway") THEN "again" ELSE "error")
    /\ onlyTurn

\* The reply is remembered once it was delivered ...
Remember(m) ==
    /\ At(m, "answered")
    /\ append("assistant", m)
    /\ Becomes(m, Over("done"))
    /\ UNCHANGED <<forgets, crashes, ghostVars>>

\* ... that to a voice note before it is spoken.
SpokenReply(m) ==
    /\ At(m, "spoken")
    /\ \/ append("assistant", m) /\ Goto(m, "speak")
       \/ Goto(m, "error") /\ UNCHANGED <<memoryVars, modelVars>>
    /\ UNCHANGED <<forgets, crashes, ghostVars>>

\* A voice note, or the text when it cannot be made or sent.
Speak(m) ==
    /\ At(m, "speak")
    /\ Becomes(m, Over("done")) \/ Goto(m, "error")
    /\ onlyTurn

\* The user is told of the error, as far as Telegram takes the message.
ReportError(m) ==
    /\ At(m, "error")
    /\ Becomes(m, Over("done"))
    /\ onlyTurn

Handle(m) ==
    \/ Hear(m) \/ HearVoice(m) \/ StartReply(m) \/ Placeholder(m) \/ Token(m) \/ Roll(m)
    \/ StreamEnds(m) \/ StreamFails(m) \/ FinalEdit(m) \/ failSafeFullSend(m)
    \/ GatewayReply(m) \/ Remember(m) \/ SpokenReply(m) \/ Speak(m) \/ ReportError(m)

BridgeNext ==
    \/ \E m \in Msgs : Handle(m)
    \/ clear \/ InferenceAsks \/ ModelOpens \/ ModelFails \/ Synthesized \/ Crash

BridgeSpec == BridgeInit /\ [][BridgeNext]_bridgeVars

-----------------------------------------------------------------------------
(* When streamReply returns a reply, to be remembered as given, the user has *)
(* seen all of it: no token that arrived is lost to a rollover, a throttled  *)
(* or disabled edit, a missing message id or a dropped stream, except        *)
(* through the two failures streamToTelegram swallows.                       *)
ReplyNeverLost ==
    \A m \in Msgs : At(m, "answered") /\ ~turn[m].gap => turn[m].shown = Tokens(m)

(* What a /forget found stays forgotten: no later turn, reload or restart    *)
(* brings back a turn of the history, and once the wipe has reached the user *)
(* model its rows hold no forgotten message and its theory only what a       *)
(* synthesis in flight at the wipe had read, however many theories were      *)
(* drawn from that one since.  Excused are a file that could not be removed  *)
(* and a wipe that failed, was cut off, or met a database that was not there *)
(* or was being opened by local inference.                                   *)
Wiped == {m \in Msgs : <<"user", m>> \in forgotten}

ForgottenStaysForgotten ==
    /\ "file" \in spared \/ (Range(cache) \cup Range(file)) \cap forgotten = {}
    /\ spared \subseteq {"file"} /\ ~WipeQueued =>
          Range(observed) \cap Wiped = {} /\ theory.from \cap Wiped \subseteq leaked
=============================================================================
