# Atmosphere Core: TLA+ models and proofs

This directory models the parts of Atmosphere Core whose correctness depends on
the *order* of things: callbacks and requests that interleave, processes that
share files, crashes between two writes, answers that come late. The reference
is the JavaScript under `src/packages`; every definition that stands for code is
listed in `PROJECT.json` under `map` with the lines it translates.

Modules parse with SANY, runs are checked by TLC, theorems by TLAPS:

    tlc -workers 2 -config CostApproval.cfg MCCostApproval
    tlapm CostApprovalProofs.tla

## 1. The system

Atmosphere Core is a sovereign AI gateway: a daemon on 127.0.0.1
(`packages/api-shim`) which routes prompts to a local agent, a local model or a
paid provider; the agent's own library (`packages/stratos-agent`) with its
connectors, receipts, identity and self-improvement; and a mesh of nodes that
run jobs for each other (`packages/atmos-core`). Everything is single-threaded
JavaScript, so what interleaves is callbacks and the code between two awaits
inside a process, and file operations between processes.

| Component | State | Operations | What is hard | What makes it correct |
|---|---|---|---|---|
| **Upstream breaker** `api-shim/src/upstream-breaker.js`, the two proxy routes of `server.js` | failures, openedAt, generation, probing | begin an attempt, record success or failure; forward, fall back to the local model | attempts overlap, completions are late and out of order | one half-open probe; stale outcomes do not count; the probe slot is always freed |
| **Terminal sessions** `api-shim/src/terminal/*` | sessions, clients with their unacked bytes, replay ring, tokens | create, attach, ack, input, detach, kill, reap; PTY output and exit; WebSocket error and close | every callback interleaves with every other; several clients share one flow control | no frozen and no unlimited terminal; bounded memory; single-use tokens; honest lifecycle receipts |
| **Receipt log** `stratos-agent/src/ledger/capability-receipt.js`; its writers `operating/operating-tap.js`, `api-shim/src/product/continuity-receipt.js`, the terminal recorder | head of the chain, active file, archived segments | open, append, rotate, verify, load the whole chain | an error or a crash at any file operation; several logs on one path | nothing acknowledged is lost; nothing written changes; one chain from GENESIS |
| **Connector broker** `stratos-agent/src/connectors/{broker-*,write-approval,mcp-*}.js` | proposals, cached sidecar client, calls in flight | propose, approve, deny, consume, call, close, revoke | two processes and a sidecar; the await on the sidecar; deaths | a write happens once, only for a fresh yes to exactly it; no call waits for ever |
| **Vault** `connectors/vault.js` | lock file, master key, store | put, revoke, read | processes interleave at each file operation; a holder dies | no lost write, no resurrected secret, no lock held for ever by the dead |
| **Cost approval** `api-shim/src/compliance-gateway.js`, `compliance-router.js`, `omni-gateway/approval-flow.js`, the slack, discord, matrix and signal adapters | pending approval of each conversation; single-use tokens; configuration | dispatch a message, gate a request, answer a prompt, replay | messages of several conversations in flight; restarts; tokens that age; a configuration that changes under it | paid calls answer a fresh yes of their own conversation, once; the user is told the truth |
| **Telegram bridge** `telegram-bridge.js`, `telegram-streamer.js`, `chat-history.js`; the user model `stratos-agent/src/memory/user-model.js` | turns of the messages in flight, ring of turns and its file, observations, theory of the user | hear, stream edits, roll over, fall back, remember, /forget, synthesize | edits, rollovers and streams fail in any order; handlers of one chat run side by side; syntheses are in flight when the user says /forget | the user has seen the reply the chat remembers; what was forgotten stays so |
| **Mesh** `atmos-core/mesh-demo.mjs`, `node-runner/mesh-node.mjs` | fleet, challenges, slices out, receipts, relays alive | connect, report, prove, dispatch, compute, time out, re-elect | nodes vanish mid-job and come back for other owners; results come late; a leader falls silent | a receipt names who computed; a report is final; work goes on |
| Billing `atmos-core/src/billing/*`, `x402-invoice.js` | unsettled micro-payments, rollup batches | record, roll up, settle | a rollup awaits its prover | each payment is in exactly one settled batch |
| Identity and pairing `stratos-agent/src/identity/*`, `exec/*` | none of its own: the caller's registry and replay store | sign, verify | challenges against their deadline | only enrolled, unrevoked controllers run jobs |
| **Evolution** `stratos-agent/src/evolution/*`, `gsi-compiler.js`, `memory/vector-bank.js`, `api-shim/src/self-evolution-runtime.js` (partly) | examples of each intent, sealed skills, registry | match, serve, observe, capture, induce, compile | captures overlap at their awaits with each other, with serving and with the night shift; an add fails after its delete | a skill is grounded in the model's own answers; a calm night learns from all of them |
| Improvement engine, reasoning bank, attribution ledger | lessons, attributions | harvest, merge, attribute | overlapping runs | gates cannot be skipped |
| **Pipelines** `pipeline/engine.js`, `stage-runners.js` (partly) | input, output and meta.json of each stage | run, resume, keep, block | a crash or an edit between two writes; a person and a run on the same files | an ended run leaves every stage current; an edit is respected |
| Workspace tree, context directories | files | build, read | little | paths stay inside the root |
| Skill sync, full-text memory | SQLite rows, files | insert, search, sync | offers and requests of peers | only sealed skills are adopted |
| Product APIs, entitlements | files read per request | HTTP views | little | an expired entitlement opens nothing |
| Routing, language, local inference, gateway auth, secret guard, policy and egress checks | none beyond configuration | predicates over one request | many cases | fail closed |
| Lattice messaging, quantum crypto | keys | seal, open | nothing interleaves | (cryptography) |
| CLI, wizard, desktop, web site, telemetry, content, ingestion, senses, composio | user interfaces and I/O | | | |

The components meet in few places. The daemon's HTTP handlers pass the cost gate
first, then route: to a paid provider, to the upstream agent behind the breaker,
or to the local model. The chat adapters are HTTP clients of the same process.
The terminal recorder, the operating tap and the continuity recorder append to
one receipt log. The Telegram bridge asks the local model directly and the
gateway as a fallback; the gateway's local path asks the evolution engine for a
skill before the model and shows it the model's answer after. The mesh relay
seals its skill with the same compiler and chains its receipts in a log of the
same class. The broker reads the vault, and the vault and the
configuration file are shared between processes by lock files.

`PROJECT.json` lists every component with its status, and every hazard with the
line where it bites and the properties that would catch it.

## 2. The modules

| Module | Models | Composition |
|---|---|---|
| `CircuitBreaker` | the abstract three-state breaker of the header of `upstream-breaker.js` | refined by `UpstreamBreaker` |
| `UpstreamBreaker` | breaker and both proxy routes, several requests in flight | `INSTANCE CircuitBreaker` with a refinement mapping |
| `TerminalSession` | session manager and its REST and WebSocket transport | |
| `TerminalSessionProofs` | its theorems | |
| `ReceiptLog` | receipt log, rotation, readers; one or several logs on a path | |
| `ReceiptLogProofs` | its theorems | |
| `ConnectorBroker` | agent side, pipe, broker process, approval ledger, sidecar | |
| `ConnectorBrokerProofs` | its theorems | |
| `SecretStore` | what the vault promises the processes that share it: one set of secrets, each put and revoke at one instant | refined by `Vault` |
| `Vault` | lock file, key file, store; several processes | `INSTANCE SecretStore`: its secrets are those that decrypt |
| `VaultProofs` | its theorems | |
| `CostApproval` | gate, tokens, chat turns, all conversations of one daemon | |
| `CostApprovalProofs` | its theorems | |
| `TelegramBridge` | one chat: handlers, streamed replies, history, /forget, user model | |
| `BreakerBridgeProofs` | the theorems of `UpstreamBreaker` and of `TelegramBridge` | extends both |
| `JobLedger` | what the relay promises of its jobs, without network, fleet or timers | refined by `Mesh` |
| `Mesh` | the key-holding relay and its nodes over connections that break | `INSTANCE JobLedger`, its tables are the ledger's |
| `Evolution` | observation, capture, induction, night shift, serving | |
| `MeshEvolutionProofs` | the theorems of `Mesh` and of `Evolution` | extends both |
| `Pipeline` | a pipeline run directory: runs, edits and faults | |
| `PipelineProofs` | its theorems | |
| `MC*` | the small instances TLC explores | |

**How state and actions correspond to the code.** One action is one callback, or
the stretch of a handler between two awaits; where processes share files, one
action is one file operation. Variables keep the source's names where they have
one. Variables called history in their comments record what an observer saw (a
call that was paid, a write the outside world received, a receipt given to its
caller); no action's guard reads them, except that a vault revoke is only asked
for a handle that putSecret returned.

* `UpstreamBreaker`: `failures`, `openedAt`, `generation`, `probing` are the
  module variables of the file; `req[r]` is the local state of one request's
  handler. `Begin*` is `beginUpstreamAttempt` with the handler around it,
  `UpstreamAlive` and `UpstreamFailed` the settled fetch with `recordSuccess` and
  `recordFailure`, `BodyEnds` the end of a body that was already being piped.
* `TerminalSession`: `sess`, `conn`, `token` are the manager's Maps. Output is
  counted in bytes; a chunk larger than the ring is cut and re-encoded, which may
  grow it by two bytes for each of up to three stray ones, as the code does.
  `conn[c].held`, what the client really has, is the environment's; `conn[c].late`,
  whether its token was past its time, is history.
* `ReceiptLog`: `log[l]` is one `ReceiptLog` object, `segments` and `active` the
  disk. `AppendReceipt` is the whole synchronous append with the rotation that
  may precede its write; `AppendFails`, `ControlFails`, `CrashInRotation` and
  `CrashAfterWrite` are the same append cut off at each of its file operations.
* `ConnectorBroker`: `pipe` is the child's stdin. `Handle` runs one call up to
  the await on the sidecar, `Execute` is the outside world, `SidecarReplies` the
  rest of the handler. The owner's `Approve` and `Deny` are exported for a caller
  that only the tests have today, so the owner is modelled as the environment.
* `Vault`: `pc[p]` walks a process through `withLock`, `masterKey`, `loadStore`
  and `writeLocked`, one file operation at a time. A lock grows stale only while
  no living process holds it: the code's own assumption that a critical section
  lasts less than five seconds.
* `CostApproval`: `pending` is the adapters' Map, `approvals` the gateway's. A
  turn is one message: `AskFresh`, `Unclear`, `Cancel`, `TokenMissing` and
  `Replay` are `dispatchAgentTurn` up to its request, `GatePasses`, `GateAsks`
  and `GateBlind` the gate and the route behind it, `Answered`, `Prompt` and
  `Incomplete` the rest of the turn. `Restart` loses both Maps; `Reload` is the
  configuration cache dropped after another process wrote the file.

* `TelegramBridge`: `turn[m]` is the handler of one message, its `pc` the await it
  stands at; tokens are numbered, `shown` is what of them Telegram accepted.
  `Placeholder`, `Token`, `Roll`, `StreamEnds`, `StreamFails`, `FinalEdit` and
  `failSafeFullSend` are `streamToTelegram`, `GatewayReply` the fallback of the
  bridge, `SpokenReply` and `Speak` the voice path. `cache` and `file` are the
  history. Of the user model, `db` is its database with the two memos that may open it
  (`chat-history.js:40`, `local-inference.js:21`), `loading` the calls that wait for
  ours, `observed` and `ids` the rows and their numbers, `theory` the one row of the
  models table, and `synths` the bag of the theories that are being drawn, each from
  the newest rows and the prior theory (`user-model.js:202`). `observe`,
  `shouldSynthesize`, `synthesize` and `forget` are the functions of that name, `Run`
  the callback of `append` or `clear` that calls them. `gap`, `forgotten`, `leaked`
  and `spared` are history.
* `Mesh`: a connection is a FIFO channel in each direction, one per peer key, as
  Hyperswarm keeps it; `conns[n]` numbers the connections of a node and names the
  nonce and the process, whose owner may differ each time. One action per frame
  type on either side; `Dispatch` is `dispatchJob` up to its await, `JobTimeout`
  the timer of one worker, `JobEnds` the rest.
* `Evolution`: a request is a chat completion and its capture: `Match`, `Serve`,
  `Answer`, then `ReadPrior`, `DeletePrior`, `AddRow`, one LanceDB operation each, any of
  which may fail: a read that does starts the row again from the new example alone.
  `StartShift`, `CompileOne` and `EndShift` are `compileFromDatabase`. The
  induction is translated as operators on sets of examples: a constant, the line
  through two points, the parabola through three, if it fits them all in integers.
* `Pipeline`: `def`, `out` and `meta` are the stage definitions, outputs and records
  on disk, `run` the invocation of `runPipeline`. A stage is `Skip` (fresh or
  edited), or `RunStage`, `RunnerReturns`, `WriteOutput`, `WriteDone`, one per await
  or file write, or `StageFails`; the person's `EditStage` and `EditOutput` come
  between any two of them. `typed`, `base` and `lost` are history.

## 3. The runs

| Run | Asks | Bounds |
|---|---|---|
| `upstream_breaker` | the breaker under overlapping attempts; refinement of `CircuitBreaker`; the probe slot is freed | 4 requests, threshold 2, cooldown 1, 4 clock values |
| `terminal_session` | flow control, memory, tokens, receipts; a paused terminal resumes | 2 sessions under a cap of 1, 2 connections, 2 tokens, ring 2, high water 1, chunks of 1 and 3 bytes, 2 clock values |
| `receipt_log` | one log under errors and crashes | files of 2 lines, 6 receipts, 3 faults |
| `receipt_log_shared` (violation) | two logs of one process on one path | 4 receipts, no fault |
| `connector_broker` | approvals, deadlines, honest and settled answers | 2 calls, 1 proposal, 3 writes (one to a refused destination), 1 read, 2 clock values |
| `vault` | mutual exclusion, no lost or resurrected secret, the lock is freed; refinement of `SecretStore` | 2 processes, 3 secrets, 1 crash |
| `vault_takeover` (violation) | two processes take one stale lock over | 3 processes, 1 crash |
| `cost_approval` | spending is approved; messages are true | 3 messages, 2 conversations with a key and 1 without, 4 configurations, 1 restart, 2 clock values |
| `mesh` | receipts, reports, failover; refinement of `JobLedger` | 3 nodes (one computes wrongly, one trusts another origin), 2 connections in all, 2 jobs of 3 inputs |
| `evolution` | grounded skills; a calm night learns everything | 3 requests, 2 near intents, operands 1 to 3, answers 2 and 9, 4-bit integers, 1 fault |
| `telegram_bridge` | replies are shown in full; what was forgotten stays so | 2 messages whose replies have 3 tokens in flight together, Telegram messages of 2, 2 failed edits, ring of 1, a synthesis per row, reading 1 row and the prior theory, 1 /forget, 1 crash |
| `pipeline` | current outputs, respected edits | 3 stages, 2 definitions, 2 texts, 2 edits, 1 fault, any number of runs |

**Why the bounds are enough for the hazards.** Each bound is the least at which
the case it is for happens, and one more where the case needs company. Four
requests and a threshold of two open the breaker, leave attempts of the old
generation in flight, probe, and re-open or close. Two connections are needed for
a laggard beside a healthy client; a chunk of three does not fit a ring of two.
Six receipts in files of two lines rotate twice, and three faults hit different
operations of them. Two calls race for one approval; a second proposal would only
repeat it, because calls meet at the one they name. A question, its yes and a
third message that races either of them are three messages. Restart and crash
bounds of one suffice because what a restart destroys is rebuilt from nothing.
Three tokens in messages of two make a rollover and a rest, or edits that fail until
they are given up and a token after that, and replies share no state, so that two in
flight need no more together; the two messages are a forgotten one and a later one,
whose syntheses inherit from each other. Three requests give an intent the two operands that
determine a skill and one that contradicts or overlaps. Three stages are a first,
a last and one with both neighbours. Two connections of three nodes are two
workers of one job, or one worker that returns with a late result on its way.
The relay's `FleetMax` is not reached in this instance: a full fleet ignores a
newcomer, which then is no worker. Constants of time are 0 or 1 with one or more ticks: only "within" and "past" a
deadline are told apart.

Symmetry is used in `cost_approval` (messages, keyed conversations), `evolution`
(requests, intents), `telegram_bridge` (messages) and `pipeline` (texts and definitions): no
definition picks one of them by name, and those runs check no liveness.
Deadlock is checked in `pipeline`; elsewhere `CHECK_DEADLOCK FALSE` is said because
the systems may come to rest: its requests, messages and receipts are finitely many in
the models, and idle daemons are no error.

**Fairness.** Assumed only where the code arms a timer or the runtime reports an
event. `UpstreamBreaker`: an attempt in flight settles (the AbortController is
armed before every fetch). Nothing is assumed of a body that is being piped: its
timer is cleared with the headers, so a body may stall for ever, and no property
says otherwise. `TerminalSession`: a client gives credit, in portions of its
choice, for what it holds, as often as the protocol says, and the socket layer reports a
dead transport; nothing of the PTY, the owner or the reaper. `ConnectorBroker`: a child that was sent SIGTERM dies and
its exit is reported; nothing of the sidecar, whose calls have no timeout.
`Vault`: living processes run on and five seconds pass. `ReceiptLog` and
`CostApproval` state no liveness, and assume no fairness. `Mesh`: the relay's own timers fire and its continuations
run; nothing of the network, of a node or of the other relay. `TelegramBridge`
claims no liveness because the code has none to offer: the fetch of the local
model carries no timeout, so a reply may stay away for ever.
`Evolution` and `Pipeline` wait on a model and a person.

Every property of a passing run has a mutant in `PROJECT.json`: a variant of one
definition with a plausible bug (a dropped stamp, an approval kept after its use,
a token whose age is not looked at) under which TLC finds the property violated.

## 4. What disagrees with the code's own words

* `receipt_log_shared`: the gateway opens several `ReceiptLog` objects on
  `live-receipts.jsonl` in one process, each with its own head. Their appends
  fork the chain, although `capability-receipt.js:281` says the path reads back
  as one genesis-rooted chain.
* `vault_takeover`: `withLock` takes a stale lock over by `stat`, `unlink`,
  `open`. Two waiters may both find it stale; the second unlinks the fresh lock
  of the first and both are inside, so a write is lost, which `vault.js:40` says
  cannot happen. With two processes (run `vault`) only one waiter exists and the
  promise holds. `agent-config.js` has the same lock.

The properties of the other modules hold, and carry their exceptions in the
formula. What they except, and what was met beside them:

* *Configuration.* An unreadable configuration file does not throw but is replaced
  by the defaults, which takes the cost gate out of the way
  (`agent-config.js:79`), and `auto-local` is left to a router the gate never asks in
  that mode (`compliance-gateway.js:127`).
* *Telegram.* `streamToTelegram` "NEVER loses a reply" (`telegram-streamer.js:133`),
  but when both edits that finish a full message fail, the failure is swallowed
  (`:196`) and what was not shown yet is dropped; so is a fail-safe that fails twice
  (`gap`).
  A /forget does not "leave nothing behind" (`chat-history.js:125`). A synthesis in
  flight is not stopped: it writes a theory of what was forgotten (`user-model.js:234`),
  and the next synthesis, which reads new messages only, is given that theory "to
  revise" (`:202`, `:310`), so the forgotten is carried on from theory to theory. What
  holds is that no more comes back than the syntheses in flight at the wipe had read
  (`leaked`); without that exception TLC finds the theory of one message in the
  synthesis of a later one. And a /forget is not heard at all while local inference opens
  the database, which it does after a restart: `initUserModel` answers the second
  caller at once (`user-model.js:67`) and the wipe is a silent no-op. That, a file that
  cannot be removed, a DELETE that fails (`:277`; the rows may be gone and the theory
  not), a database that cannot be opened and a crash before it is are swallowed, and
  excused (`spared`). "Synthesis fires at most once every N user turns"
  (`chat-history.js:92`) is not so either: until a first theory is written every turn
  starts one, the agent's reply included, which `synths` has as a bag. A handler that
  awaits `probeInstalledModels` remembers its message after the wipe, and the full-text
  index is not wiped at all. An error message that cannot be sent (`telegram-bridge.js:196`, `:224`) is a rejection nobody handles.
* *Evolution.* Overlapping captures of one intent leave duplicate rows or lose an
  example, and an add that fails after its delete loses the row
  (`vector-bank.js:199`), both of which `vector-bank.js:194` sets out to prevent:
  `LearnsOverNight` is about nights without them and without a failed read (`calm`).
  Through all of them `GroundedSkills` holds. A sealed program computes
  in 32 bits, so it may not reproduce an example outside that range
  (`skill-induction.js:6` says it reproduces every one).
* *Pipelines.* When a stage fails, those after it are marked blocked and their
  fingerprints are lost (`engine.js:99`), so the next run overwrites an edit whose
  input never changed, although `engine.js:8` says "respect the human's edit,
  don't overwrite" (`lost` in `EditRespected`). A person who edits an output while
  its stage is being run loses the edit to the runner's answer.

## 5. The proofs

TLAPS proves the following for *every* value of the constants that satisfies the
module's named assumption, so for any number of requests, messages,
conversations, restarts and any clock.

Two proof modules hold two components each, which share no variable and no step:
`BreakerBridgeProofs` (`UpstreamBreaker` and `TelegramBridge`) and
`MeshEvolutionProofs` (`Mesh` and `Evolution`). Each extends both, which is why
the specification of `TelegramBridge` is called `BridgeSpec` and that of `Evolution`
`LearnSpec`. No proof about one component cites a lemma or an assumption of the other.

**`BreakerBridgeProofs`, breaker** (assumption `BreakerAssumption`: a positive threshold,
a natural cooldown, finitely many requests): `TypeCorrect`, `SingleProbeCorrect`,
`OnlyProbeSettlesCorrect`, `CountedFailuresCorrect`, and `RefinementCorrect`: every behaviour is one of `CircuitBreaker`. The
inductive invariant adds two facts to the properties: no attempt carries a stamp
from the future (so that a fresh generation belongs to nobody, and everything in
flight goes stale when the breaker opens), and only an attempt found alive has a
body on its way. `CountedFailures` is preserved because a stale failure carries an
old generation, and a success or an open moves to one nobody has. The refinement
maps the mode and the probing attempt; every step is `Trip`, `Admit`, `Settle` or
a stutter.

**`CostApprovalProofs`** (assumption `CostAssumption`: keyed conversations are
conversations, configurations are well-formed, and a provider with a key is one of
the gate's backends): `TypeCorrect`, `SpendsApprovedCorrect`,
`HonestMessagesCorrect`. The two properties speak of calls already paid; what
keeps them true is a ledger of who works for a request. The inductive invariant
says: a fresh turn carries its own request, still unpaid until it is served
(`FreshTurns`); a pending approval is for a finished, unpaid request of its own
conversation which nobody is replaying (`PendingApprovals`); and a replay carries
the user's word, the token of that very request, and is the only turn at work for
it (`ReplayTurns`). From these, lemma `OwnRequest` gives that the request of a
turn is nobody else's, so that paying it, or telling the user something about
it, disturbs no other turn. `PaidByConsent` is the gate itself: with the gate
engaged and a key in the environment the decision is always "approval-required",
so a paid call needs both the header of a yes and a live token.

**`BreakerBridgeProofs`, Telegram bridge**: `ReplyNeverLostCorrect` (no assumption) and
`ForgottenStaysForgottenCorrect` (`BoundsAssumption`). A reply is judged when it is
returned, many steps after a token was missed, so the invariant keeps per handler what is
shown already (`Shown`): every message left behind in full, or the gap is on record;
and the gateway is asked only for a reply of which nothing had arrived. Forgetting is
about what is written *after* the command, and needs three things. A turn is said once:
what is in the history, on disk or forgotten was said (`Said`), what joins the history
was not (`History`, lemma `AppendHistory`). The user model is clean of the forgotten when
its rows hold none of it and its theory, and every theory being drawn, only what the
syntheses in flight at the wipe had read; a synthesis keeps that, because rows and prior
theory are all it is given (`Clean`, lemma `SynthesizeKeeps`). And unless `spared` says
why not, either it is clean and only new calls wait for its database, or a whole wipe
waits with only new calls behind it (`Cleans`, in `Model`). That the queue, run at once
when the database opens, then leaves it clean is lemma `CallsClean`, an induction over
the calls; lemmas `FoldIs` to `FoldSteps` show that the community modules' `FoldLeft`,
a function on sets of positions, takes one call after the other. None of these clauses is
inductive alone: without the order of the queue the database could open after the wipe
was promised and bring an observation back, and without the theories being drawn in
`Clean` a later one could hold what no wipe had found.

**`PipelineProofs`** (assumption `NAssumption` and the bounds' types): `TypeCorrect`,
`RunsEndCurrent`, `EditsRespected`. A run that ends says something of every stage, but
each was looked at long before, so the inductive invariant carries it along: while
nobody touches the files the stages behind the run are current (`Settled`), and an
unblocked run goes no further than its stop (`OnTheWay`); a finished stage's output
is the recorded one or a typed one (`Recorded`), and the stage being run is marked as
running (`Marked`). An edited output was typed over the print its record still
names, unless a fault hit it or it is being run (`Typed`), and a stage that is run over
an edit has a reason to: a forced run, a fault, or a changed print (`Reason`), from
which `EditRespected` follows at the one write that replaces an output.

**`MeshEvolutionProofs`, evolution** (no assumption): `GroundedSkillsCorrect`,
`LearnsOverNightCorrect`. A
sealed program is compiled at night from a row that a capture wrote after merging what it
read before, and any number of captures overlap. So every example a capture carries, a row
holds or the night has still to compile is an answer the model gave for that very
intent, whoever wrote it (`Grounded`). What the induction returns for such a set fits
all of it and is never drawn from one operand (lemma `InducedFits`): it is chosen among
the candidates that reproduce every example, and an affine or quadratic candidate, which
takes its slope by integer division, is only kept if it does. Learning is promised to
calm stretches only, and the invariant (`Learning`) says what calm gives: the row of
an intent is the only one, it holds the last answer to each operand except while its
capture has deleted it, in which case the capture carries them (`Orderly`); and every row
a night has read is on disk as a program or in its list, whether it was new, rebuilt or
skipped for an unchanged hash, with the registry naming what is on disk (`Nightly`).

**`ConnectorBrokerProofs`** (assumption `BrokerAssumption`: a write is not a read, and
the bounds' types): `TypeCorrect`, `ApprovedOnceCorrect`, `HonestAnswersCorrect`,
`DeadlineKeptCorrect`. An approval is spent when a call is taken from the pipe, the
world sees the write much later, and in between the sidecar and the broker may die.
What carries the yes along is `Holds`: a write that may happen or has happened
(`Acting`) names a consumed proposal of exactly that write, one the owner approved,
and no other such call names it. `Handle` is the only step that makes a call act, and
it needs the proposal approved, so nobody holds it yet (lemma `HandleStep`). That a
request is passed on once rests on the pipe holding each call once (`Queued`);
what the world saw, what was asked and what was answered agree with the stage of the
call (`Seen`, `Asked`, `Heard`), which only moves forward (lemma `NextMoved`).

**`VaultProofs`** (assumptions `VaultAssumption` and `Lone`: no process dies, or there
are at most two processes): `TypeCorrect`, with mutual exclusion, `SecretsSafeCorrect`,
and `RefinementCorrect`: every behaviour is one of `SecretStore`. Without `Lone` they are
false: run `vault_takeover` shows three
processes of which one dies. The invariant says why a lock is never taken from a
living holder: a lock nobody alive holds was left by a dead process (`Locked`), and then
one process is left to take it over (lemma `Survivor`). Being alone inside, a process
works on the store and the key that are on disk (`Working`), so a save changes its own
secret only and the whole store stays under the one key (`Stored`); a secret is put
once and revoked only after that (`Handles`). The refinement maps the store to the secrets
that decrypt: the rename of the new file is the instant an operation acts at, everything
before and after it a stutter. It needs that what is in the store was put by somebody and
that a revoke about to save found its secret there (`Founded`).

**`ReceiptLogProofs`** (assumption `ReceiptAssumption`): `TypeCorrect`,
`AckedOnDiskCorrect`, `AppendOnlyCorrect`, for any number of logs on the path;
`MemoryIsDiskCorrect` and `DamageOnlyByTornRotationCorrect` for a lone one (with two,
run `receipt_log_shared` shows a break without any fault). Every step leaves the files
alone, rotates them, or writes one receipt behind all the others (lemmas `NextShape`
and `WroteWritten`), whose hash is above all that were minted (`Bounded`); so no hash
is on disk twice (`Unique`), and a receipt nobody was given costs a fault (`Given`).
For the damage a second layer, `Whole`, says that every log chains onto the last
receipt on disk as long as there is an active file (`Heads`), and counts (`Spent`):
breaks, files that do not verify, and one more while a torn rotation has left
the path empty, are together at most the rotations torn. That one is spent by
the next receipt (lemma `SpentNow`): as a break when the log was read back from no file,
as a file whose first receipt does not follow from its anchor when it was open all
along. The property alone is not inductive, because a tear costs nothing when it
happens.

**`TerminalSessionProofs`** (assumption `TerminalAssumption`), in three layers, each
inductive with the ones before it. *Who is joined to what* (`IInv`):
`FlowControlCorrect`, `TokenSingleUseCorrect`. Who is past the mark changes in many
places, the PTY is paused in one and resumed in two; the invariant adds who can be a
client: only a connection of a session that was created, opened once (`Joined`), so a
new terminal starts without laggards and a WebSocket that attaches is not one yet. A
token is spent with the connection it opens, in its time, and never comes back. An
ack and a detach have one argument in common (`ResumeFlow`): one client comes nearer
or leaves, and the pause is looked at again. *How much is held where* (`Sized`):
`TypeCorrect`, `MemoryBoundCorrect`, `MeterWithinReplayCorrect`. The ring's size is a
sum over a sequence; that a trimmed ring fits rests on there being a shortest suffix that
does. *What the receipts say* (`Story`): `ReceiptsTellTheStoryCorrect`, with the
place of each receipt, and that a client's session lives.

**`MeshEvolutionProofs`, mesh** (assumption `MeshAssumption`: finitely many nodes, strangers and broken
ones among them, and the bounds' types): `TypeCorrect`, `CreditWhereDueCorrect`,
`ReportIsFinalCorrect`, and `RefinementCorrect`: every behaviour is one of `JobLedger`,
which implies `ReportIsFinal`, so the run checks the refinement only.
The relay reads the owner when a slice goes out and pays it when
the result comes; in between the node may vanish and come back for somebody else.
What keeps the two apart is that the relay hears of a close before it hears of the next
connection, so what it holds of a peer is of the peer's last connection
(`Connected`), and that frames die with their connection: a slice still on its way to a
node is the one the relay waits for, with the owner of the process that will compute
it, and a right answer on its way was computed (`Carried`). One job is out at a time and a
slice that is out has not been reported (`OneJob`), so what arrives after its timeout finds
nothing; a round robin gives no input to two workers (lemma `SlicesApart`), hence none is
paid twice (`Apart`). For the refinement the relay's tables are the ledger's; a
`Dispatch` is a `Post`, a node's answer a `Compute`, a result or a timer, whichever comes
first, a `Settle` (lemma `SliceSettles`), the end of a job a `Finish`, and whatever else
happens on the network leaves the ledger alone (lemma `QuietSteps`).

*Induction over data.* The library's induction theorems cannot be instantiated here, but
the well-foundedness of the naturals and of finite sets under strict inclusion can be
cited as facts about relations. Lemmas `LeastNatural` and `SmallestSubset` of
`TerminalSessionProofs` and `LeastNumber` of `BreakerBridgeProofs` turn them into minimal
counterexamples, from which what a fold or a least element returns is proved for every
input.

*Model-checked only.* Every safety property a passing run checks is proved. What stays with
TLC is liveness (`ProbeSlotFreed`, `FlowResumes`, `AnswersSettle`, `LockFreed`,
`WorkGoesOn`), which TLAPS cannot do under fairness.

## 6. What is abstracted, and what is not modelled

Left out of the modelled components, because no property depends on it: the text
of messages, prompts and terminal output; cryptography (a receipt names its
predecessor, a secret names its key, a token is fresh); HTTP and WebSocket
framing; the byte length of receipt lines (a file has room for so many lines);
torn lines (an append writes its whole line or none of it). The class of a task is
abstracted to whether a capable local model and a provider with a key exist. In
`CostApproval` one user writes; the adapters' owner check makes any other sender
an `Ignore`.

Further abstractions of the newer modules. `TelegramBridge` has one chat (the rows of
the others only make its numbers jump, which brings a synthesis forward); a text is
the set of messages that went into it, so the model takes a theory to hold what its
synthesis was given, whatever the summarizer or a cut at 6000 characters drops of it;
reads of the database and INSERTs of an observation succeed (a failing one starts no
synthesis, leaves its row out, or gives a synthesis less); tokens, not characters; throttle times and back-off are "may edit or not"; commands other
than /forget only answer. Updates are acknowledged to Telegram before they are
handled, so a crash loses the messages in hand, which `Crash` does. `Mesh` leaves out
the rate limit of capability frames, sizes and hashes; timers may fire at any
time; a keyless relay issues no receipts and is not modelled. It is about one life of
this relay's process: with `--receipts-out` an append that throws
(`mesh-demo.mjs:389`) does so in a `data` callback that nobody guards, which ends that
life before the slice is resolved, and fleet, jobs and ledger with it.
In `TerminalSession` a client follows the protocol: `session-manager.js:190` takes any
number as credit, `Ack` gives at least `AckEvery` bytes and at most what the client
holds, and `MeterWithinReplay` is about such clients. `Evolution` has all
three feature flags on, LanceDB does one operation at a time, and the vector search
is a fixed relation `Near`. `Pipeline` folds a stage's text, model, runner and
reference files into its definition, and takes one run of a `runId` at a time:
nothing in the code stops two, and nothing starts them.

### Not modelled

* *Billing:* an off-chain demonstration; the one rollup works on an in-memory Map
  and its caller awaits it. It has no guard against settling a batch twice, and
  nothing that would.
* *Identity, pairing, job policy, policy and security, gateway auth, secret guard:*
  pure functions of one request and of data a caller hands in. The replay store of
  `node-authz.js:102` and the registry are the caller's, who is not in the repository.
* *Product APIs:* synchronous handlers over files. `nodes-api.js:103` writes the
  registry, then the receipt, and undoes the first when the second throws; a crash
  between them leaves a node without its receipt.
* *Improvement engine, reasoning bank, attribution ledger, evaluation, content,
  ingestion:* scoring and text processing around calls to a model, one caller
  each, without state that outlives a call in a way an interleaving could break.
* *Skill sync and P2P networking of the older demo, storage, keyring:* append-only
  blocks behind an external library.
* *Full-text memory, skill store, workspace tree, context directories:* sequential
  SQLite and file access.
* *Cryptography and messaging envelopes, command line, wizard, desktop, web site,
  build scripts, telemetry, voice and vision engines, composio:* user interfaces, I/O
  and calls to external services.

## 7. Plan

Done: breaker, terminal sessions, receipts, broker, vault, cost approval, Telegram
bridge, mesh, evolution, pipelines; proofs as in section 5. What would come next: the
configuration cache and its lock as a
module of their own, with the daemon that starts on an unreadable file.
