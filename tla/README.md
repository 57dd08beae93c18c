# TLA+ models of the PlotJuggler official plugins

This directory holds TLA+ models of the plugin collection's concurrent and
stateful core, TLC configurations that check them on small instances, and
machine-checked TLAPS proofs.  File and line references are to the repository
at the modelled commit.

    tlc -workers 2 -config MC_demand.cfg MC_PjBridgeSource
    tlapm PjBridgeChannelProofs.tla

A module `XProofs` holds the theorems about `X` and extends it.

## 1. Inventory

The repository is a set of plugins for one host application.  Nothing here is a
distributed system of its own: a plugin is loaded by the host, is called back on
the host's GUI thread (dialogs and toolboxes) or poll thread (streaming
sources), and talks to threads and peers of its own.  The plugins share small
libraries (`common/`) and an external SDK (`plotjuggler_sdk`), which is not in
the repository.

| Part | State it keeps | Operations | Hard behaviours |
|---|---|---|---|
| PJ bridge source (`data_stream_pj_bridge`) | connection phase, advertised catalog, applied subscriptions, parser bindings, request ids, pending host command, pause flag | start, stop, pause, resume, set_active_topics, poll | three threads; the server's catalog changes while requests are in flight; the connection is handed over from the dialog mid-conversation |
| PJ bridge event queue (`pj_bridge_websocket.hpp`) | pending events, byte count, drop counters | push, drain, close | overflow policy under a lock shared with the transport thread |
| PJ bridge dialog (`pj_bridge_dialog.hpp`) | link state, discovered topics, selection, retry delay | connect, disconnect, tick, take connection | back-off, attempt deadline, hand-over |
| Foxglove bridge source (`data_stream_foxglove_bridge`) | channel catalog, subscription ids, bindings per id, pending host command, reconnection state, two receive queues | start (with the dialog's socket or its own), stop, set_active_topics, poll | reconnection to a server that may have restarted; ids that start over; a socket taken over from the dialog with its catalog |
| ROS 2 source (distro and proxy) | the same demand-driven control plane over the ROS graph | as above | the graph thread |
| WebRTC source (`data_stream_webrtc`) | per camera: WHEP session, peer connection, connect worker, back-off, failure history | start, poll, stop, open and close of a connection | callback threads of a peer that is being replaced, a close that meets the HTTP POST, retries |
| UDP, ZMQ, MQTT, LSL, dummy sources | receive queues, subscriptions | start, poll, stop | one receive thread each |
| Assistant panel (`toolbox_assistant_agent`) | turn state, transcript, command and event queues, conversation memory per backend, persisted resume point, staged settings | send, cancel, new chat, switch, delete, rename, settings, tick, teardown | a worker thread that blocks on a CLI process, tool calls marshalled to the GUI thread with a timeout, a backend swapped between turns |
| GUI executor (`gui_executor.hpp`) | queued tool-call slots, shutdown flag | call, drain, cancelPending, shutdown | timeouts racing late results, continuations that outlive a tick |
| Assistant tools (`tools.cpp`) | none of its own; drives host services | about forty tool handlers | long, sequential, data-heavy |
| Mosaico toolbox | one download: dataset, ingest context, stop surface, outcome ledger, cancel flag; the panel's tally; an import job's ceilings | fetch, cancel, host Stop, import, teardown (and connect, list, query) | a pool thread per topic, a poller, a watchdog and any thread that cancels, under three mutexes one of which a push may hold while it is parked |
| Transform editor, FFT, quaternion, anomaly detector, data exporter | panel state, previews, recipes | edit, preview, apply | ephemeral series that must be removed again |
| MCAP, CSV, ULog, MF4, BLF, Parquet, LeRobot, candump, 3D, MP4 loaders | none after import | open, import, cancel | MCAP reads chunks on a pool under a byte budget |
| Parsers (ROS, protobuf, Arrow, JSON, DataTamer) | schema tables | bind schema, parse | pure decoding |
| `common/` | none or small caches | recipes, queries, CAN/DBC decode, video demux, grid map, laser scan | pure algorithms, numeric edges |
| Scripts and CI | registry files | release, publish | sequential |

The parts with concurrency, failure and order of their own come first: the three
streaming sources, the assistant panel and the Mosaico download are modelled.

`PROJECT.json` lists every part with its status; its `hazards` name the lines
where the modelled parts can go wrong in a way a unit test hardly reaches.

## 2. The PJ bridge

A streaming source that shows a server's topics in PlotJuggler.  In *demand*
mode the host is told which topics exist (`notify_available_topics`) and answers
with the set it currently plots (`set_active_topics`); the source subscribes
exactly those at the server and binds a parser per topic from the subscribe
response.  In *legacy* mode (an older host) it subscribes the user's selection
once and streams it.

### Modules

* `BridgeEventQueue` models the queue between the transport thread and the
  owner.  `push`, `drain` and `close` each run under the queue's mutex and are
  one action each; `dropOldestDataPastBudget` is part of `push`.
* `BridgeSession` models one connection: the socket as its owner sees it (open,
  error and close callbacks, frames dropped unless open), the two FIFO
  directions, and the server's control plane as the repository's own test
  servers implement it (`get_topics`, additive `subscribe` that re-echoes no
  schema of a subscribed topic, `unsubscribe`, `subscribe_topic_updates`,
  pause/resume, `topics_changed` pushes, data frames).  The Python servers are
  part of the repository, so they are translated and mapped like the rest.
* `PjBridgeSource` extends `BridgeSession` with the source.  The poll thread is
  split where another thread can act between two of its steps: one action
  drains the queue, one handles each event, one sends the remembered pause
  (`beginDiscovery` reads `paused_` and then sends), one is the tail of `onPoll`
  up to the re-advertise, one takes the host's command out of
  `desired_topics_slot_` and reconciles.  Host calls (`onStart`, `onStop`,
  `setActiveTopics`, `PauseResume`) and the dialog before the start
  (`DialogConnect`, `DialogTick`, `DialogRefresh`) interleave with them, as do
  the transport and the server.
* `PjBridgeSourceProofs` holds the theorems about the source's own state,
  `PjBridgeChannelProofs`, which extends it, those that reason about what is
  under way between the source and the server.

A topic is a model value; a *type* stands for the schema name, the encoding and
the definition together.  A catalog entry is *bare* (name and type) or *full*
(with encoding and definition), because the code compares whole entries.  A
binding records the schema it decodes and the type name it was registered under.
Request ids exist only for subscribe requests, the only ones whose id is
compared.  `expired` abstracts the clock: the current deadline has or has not
passed.  The host may refuse the parser of a topic in `Refusable`: the topic stays
applied, with the binding it had or none (`handleSubscribeResponse`).

Four variables are history: `wanted`, the host's last command of the session;
`unparsed`, the topics whose latest parser the host refused; `retyped`, the topics
dropped as retyped and not unsubscribed since; `overtaken`, whether the host's latest
resume fell between `beginDiscovery`'s read of `paused_` and the pause that follows.

### Runs

Budgets (`Budgets`, of which a behaviour has one) bound how often each environment
event may happen: host commands, pauses, catalog changes, connections, data frames,
dialog refreshes, lost connections.  The poll thread, the server's answers and
the transport are not bounded.  Two topics and two types are enough for every
property: each speaks of one topic and of one other that must not be affected,
and of a type and another one.

| Run | Shows | Bounds |
|---|---|---|
| `queue` | the byte counter, the drop counters and the deque agree; control events are never lost; only the oldest data frames go; nothing is pending after `close` | 6 callbacks, frames of 1 and 5 units, cap 5 with an overhead of 1 (two small frames fit, a large one alone exceeds it) |
| `demand` | only wanted and listed topics are applied, frames are decoded with the schema they were sent under, the catalog misses nothing, and a subscribed topic lacks a parser only when it was refused or dropped as retyped | 2 topics, one of which may be refused, 2 types, 2 host commands, 2 changes, 1 frame |
| `sessions` | with the first budget: rejected and superseded subscribe requests never leave the two sides apart, no late response or frame revives a paused topic, and everything is worked off; with the second: nothing of one session reaches the next, and every start and every lost connection resolves; with the third: a pause while connecting is applied, and the server is paused against the host's will only after a resume in `beginDiscovery`'s gap | 1 topic, which may disappear, return and be refused; both kinds of host, old and new server; 4 host commands, 2 changes, 1 connection, 1 frame, 1 drop, or 1 host command, 1 pause or resume, 2 connections, 1 dialog refresh, 1 drop, or 2 pauses or resumes, 2 connections, 1 drop |
| `promises` (violated) | one behaviour after which a resume was overtaken by the pause `beginDiscovery` had already decided on, and a retyped topic stays without a parser: `BridgePromiseStands`, that is `RetypedRebinds` or `ResumeReachesServer` | 1 topic, 2 types, 1 host command, 1 retype, 2 pauses or resumes |

The properties of `sessions` are checked in all three of its instances; three
budgets cost the sum of three state spaces, one budget with the largest of every
number would cost their product.

The violation is two findings: the invariant says that at least one of two promises
is kept, so the state that violates it breaks both.  A retyped topic is dropped
without an unsubscribe
and subscribed again; a comment (`pj_bridge_source.cpp:438`) says "the fresh subscribe
response re-binds with the new schema", but a server re-echoes no schema of a
topic it streams already (`README.md:146` of the plugin), so its frames are dropped
until the host deselects and selects it.  A topic adopted from the dialog's bare
catalog and subscribed before the source's own `get_topics` answer counts as retyped
and ends in the same way.  And `beginDiscovery` reads `paused_` and sends the pause in
two steps, so a `resume()` between them is sent first and the stream stays paused,
where the repository's test of a pause, open, resume sequence expects the resume to be
the last word (`tests/pj_bridge_connection_test.cpp:482`).  `AppliedAreBound` and
`PauseAgrees` state what holds besides, for these two cases are the only exceptions.

The demand run uses additions and retypes, the sessions run additions and
removals: what happens when the two are mixed within one drained batch is under
*Known limits*.

`CHECK_DEADLOCK FALSE` is set in all source runs: a stopped stream whose budgets
are spent has nothing left to do.

### Fairness

`FairSpec` assumes weak fairness of `onPoll` (the host polls a running stream
every 33 ms), of the clock (`DeadlinePasses`) and of the connection attempt and
the server's answers (`ConnOpen`, `on_message`).  No fairness is assumed of the
host, the dialog, catalog changes, data or failures.  The deadlines the source
sets itself are what `StartResolves` rests on when a connection is lost.

### Proofs

`PjBridgeSourceProofs` proves, for all sets of topics and types, all budgets and
all hosts:

* `TypeCorrect`: `Spec => []TypeOK`, one lemma per group of variables and action
  (no run repeats it);
* `ControlInvariant`: `Spec => []ControlInv`;
* `AppliedWithinTargetHolds` and `DesiredIsLatestHolds`, which follow from it;
* `FirstFailureWinsHolds`: the first failure is the one reported, an action
  property that follows from the shape of `fail` (no run repeats it).

`AppliedWithinTarget` is not inductive: that a reconcile in `applyDesiredTopics`
keeps `applied` inside `listed` needs that the catalog cannot have become dirty
since the tail of the poll (`pc = "desired" => ~dirty`) and that a clean catalog
is the one listed; `DesiredIsLatest` needs to know what a stop leaves behind.
`ControlInv` adds exactly these facts.

`PjBridgeChannelProofs` proves, for every server too (old or new protocol, with
or without schemas, any sequence of additions, removals and retypes):

* `CatalogInvariant` and `CatalogAgreesHolds`: at rest the source's catalog is
  the server's.  What has to be known on the way there is where the catalog is
  while it is under way (`CatalogInv`): either the opt-in and, behind it, a full
  `get_topics` with no other one after it are still on their way to the server
  (`Asking`); or the server has opted the session in and for every topic the last
  event that mentions it, in the batch and then in the inbox, says what the
  server's catalog says, and if none does the source's entry does (`Told`,
  `Leads`); or the source is giving a newer server up (`GivingUp`).  `LinkInv`
  adds when events can be under way at all.
* `SubscriptionInvariant` and `IngestOnlyActiveHolds`: no frame reaches the parser
  of a topic that is not applied.  A topic leaves `applied_` in three ways; the
  reconcile and the retype erase its binding, a rejection does not.  `TopicInv`
  therefore says of an applied topic that the request under `lastSubId` is the
  last one for it among those under way, and that once the answer refuses the
  topic the server does not stream it and no frame of it is behind the answer; of
  a topic that kept its parser and is not applied, that nothing of it can come
  any more.  That a refusal is not mistaken for an older one rests on the ids
  under way being smaller than `nextId` (`IdsInv`); that a stream starts from
  nothing, on `IdleInv`.

* `PausedIsHeld` and `PauseAgreesHolds`: once everything is handled, a paused
  stream is paused at the server, and one that is paused there although the host
  resumed it was resumed in `beginDiscovery`'s gap (`overtaken`), for any number of
  pauses and resumes on every interleaving.
* `DemandInvariant`, for a demand-driven stream.  `StreamSteps` shows that from
  discovery on every step is of one of seven kinds (the source speaks, the server
  serves, the poll drains, passes over an event, learns a catalog, takes an answer
  or reconciles), and each part of the invariant is shown to survive each kind:
  the catalog is asked for before anything is subscribed (`OrderInv`), so every
  schema, refusal and frame under way agrees with the catalog as it will be when
  it is handled (`KnownInv`); the applied topics are the target between catalog
  changes (`TargetInv`); and every applied topic is streamed, or its request is
  the last word about it, or its refusal is under way (`OnInv`).
  `WantedAreStreamedHolds` follows without any condition: at rest the source has
  applied the advertised topics the host wants, and the server streams them all.
* `BoundInvariant`, `AppliedAreBoundHolds` and `OnlyRetypedLingerHolds`, for every
  server and without a condition: a topic that is applied and not `retyped` has a
  parser, was refused one, or its answer will come with a schema, since the server
  has the topic off whenever the latest request for it arrives (`AsksAnew`,
  `Binds`); and of a topic that is neither applied nor retyped nothing is left to
  come (`Gone`), so that at rest the server streams on only what
  `dropRetypedApplied` dropped.
* `SubscriptionsAgreeHolds` and `ParsedAsSentHolds`.  Neither holds of every server
  (see *Known limits*), so each is proved of the behaviours that avoid the step
  that breaks it, stated as an action property: `KeepsRetyped` (no retyped topic the
  server still streams leaves the catalog before the poll subscribes it anew) and
  `NoReadd` (a subscribed topic that was removed comes back only under its parser's
  type).  These are the code's own weak spots, at
  `pj_bridge_topic_subscription.hpp:173` and `pj_bridge_source.cpp:441`: whatever
  else happens, each property holds.  `ParsedAsSent` needs that a parser fits what
  is sent or its topic is renewed before the next frame of it (`Fits`, `Outdated`).
* `GrowingAgrees` replaces the two conditions by one on the constants: a server that
  removes nothing keeps every topic it announced (`GrowInv`).  The `demand` run is an
  instance.

All rest on lemmas about sequences that say what sending, taking, arriving and
handling do to each of these predicates, so that few action lemmas look inside a
channel.  TLC checked the invariants on runs with all kinds of change, both kinds
of host, newer servers, adopted connections, pauses and losses (or, where they
need a condition, on runs in which it holds) before they were proved.

The proofs use `SessionAssumption` and `SourceAssumption` and, where stated, the
conditions above.  `SourceAssumption` says that `None`, the model's absence, is no
catalog entry, no failure, no parser binding and no set of topics.

Only model-checked: the properties of `BridgeEventQueue`, whose byte count and
overflow loop are folds over a sequence, so that what they compute needs induction
over data; and liveness.  Both are outside the prover's reach.

### Known limits

What the code does where the bounds of the passing runs stop.  Each is reached
by one change to a configuration.

* `ChangeKinds = {"add", "remove", "retype"}` in `MC_demand.cfg`: a topic removed
  and re-added with another type within one batch is never compared with its old
  type (`retypedTopics` looks at consecutive catalogs) and keeps its old parser
  (`ParsedAsSent`); and one that is retyped and then removed within one batch leaves
  `applied_` without an unsubscribe (`SubscriptionsAgree`).
* The dialog's `get_topics` may be in flight when a legacy start adopts its
  connection; its answer then fills the catalog that a comment
  (`pj_bridge_source.cpp:792`) says legacy mode keeps empty.

### Left out

TLS, heartbeats, HTTP upgrade errors before `start`, the browser (wasm) backend
(same contract, other API), drop warnings, the decoding of frames, parser
configuration.  The server keeps a session's subscription when a topic
disappears, as the repository's servers do.

## 3. The assistant panel

The panel (`toolbox_assistant_agent`) runs each turn of a conversation as a
process: a worker thread starts the Claude or Codex CLI, the CLI calls tools
through a loopback MCP server, and the tools may only run on the GUI thread.
Four kinds of threads therefore meet in it: GUI, worker, MCP and the CLI's own.

### Modules

* `GuiExecutor` models `gui_executor.hpp`.  A slot's fields are functions over
  `Calls`; `gui` and `batch` are the GUI thread's place in `drain`,
  `cancelPending` or `shutdown`.  Every critical section is an action, so a
  caller may time out between any two of them.  `fresh` is the local result `r`.
  A tool answers (`"final"`, a throw included) or returns a continuation
  (`"resume"`).  `executed`, `steps`, `ended` and `late` are history.
* `AssistantTurn` composes an instance of `GuiExecutor` with the GUI thread's
  entries (`sendCurrentInput`, `commitSettings`, `CancelClicked`, `onTick`, the
  destructor), the command and event queues, the worker (`workerLoop`,
  `BeginTurn` ... `FinishTurn`, `testConnection`) and the CLI process
  (`Launch`, `Kill`, `CliEnds`).  Events that only draw are left out; an error
  and the `TurnComplete` after it are posted in one step, since an error changes
  nothing but the transcript.  `McpCalls` may happen as long as the server is
  up: a request may be handled after the CLI that made it has ended.
* `AssistantConversations` models which conversation is shown, resumed and
  persisted.  `panel` is the GUI thread's state and the settings it writes:
  `memory` (one `HarnessMemory` per backend), `saved` (the persisted session id
  per backend), `active`, `drawer`, `titles` and `names` (persisted and shown
  custom names), `renaming`; two of its fields are history: `dangling`, the
  backends whose saved id an activation dropped while their memory kept one, and
  `listed`, what each backend's last listing showed.  Handlers are compositions
  of operators on it (`Cleared`, `Switched`, `Forgotten`, `Refreshed`,
  `Activated`, `Persisted`), in the order of the code.  Reading session files may
  miss any of those in `Unreadable`: a listing then passes over it and its
  transcript is empty, as it also is for a file in which the model says nothing.
  `store` is the harness's session files, `heard` what a session's
  history says is loaded.  A listing stands for its hash.

### Runs

| Run | Instance | Shows |
|---|---|---|
| `executor` | 3 calls, 2 steps each | no tool executes twice, answers are true, nothing runs after its caller has left but the one step already chosen, a shutdown releases everybody, and calls return without their timeout while the panel ticks |
| `turn` | 1 call of 2 steps, 3 turns, 1 probe | busy means exactly one turn in the pipeline; no process outlives its turn; Cancel ends a begun turn even of a CLI that hangs; with a CLI that does not, every turn and every teardown ends |
| `conversations` | 2 backends, 3 ids, 1 of them unreadable and named, nothing loaded; or 1 backend, 2 ids, and 1 listing of 2 versions or 2 listings of 1 | resume target, shown conversation and persisted id agree at rest, but for a remembered session that could not be read; sessions stay with their backend; a deferred swap is applied; only the user or a listing of the same backend takes a name; an answering model knows what is loaded |
| `claims` (violation) | 2 backends, 1 id, after the WebRTC camera's part of the same behaviour | a blank panel still has a session to resume (`NothingDangles`) |

Bounds.  Two calls are enough for a slot to be overtaken by another, the third
lets one arrive during a drain of two; two steps are enough for a continuation
to be interrupted between ticks.  Calls meet each other only in the executor,
so one call is enough around a turn.  Two turns let what one turn leaves behind
(a flag, a late call, an event) meet the next, the third what the second leaves.
Three ids give each backend one session of an earlier run and one new session,
or a session that is continued under a new id.  One id that may be unreadable
and may be named lets a listing miss one conversation and show the others; any
session may be purged, those of both backends too.  Listings concern one backend
and no names, so they are checked beside the rest and not together with it:
`MC_AssistantConversations` lets a behaviour choose one of the three instances at
its start (`about`), and the state constraint `Within` keeps it to that instance.
Its other two session ids are interchangeable, and the run
uses that symmetry; it does not check liveness.  `MaxSteps`, `MaxTurns`, `MaxProbes`,
`Unreadable`, `Nameable` and `Within` are the only bounds.

`CHECK_DEADLOCK FALSE` stands in the configurations of the executor and the
turn: a panel that has been destroyed stops.

### Fairness

`onTick` is called by a 20 Hz timer, whatever the user does in between, hence
strong fairness.  A thread that is inside a handler, the worker, a woken waiter
and a signalled process are assumed to run on (weak fairness).  Nothing is
assumed of a CLI nobody has signalled; `TurnsEnd` and `TeardownEnds` are stated
for a CLI that ends once its tools have answered (`PatientCli`), `CancelEndsRun`
for any.  No property relies on the 60 s timeout of a call.  A probe (`--version`) is assumed to
end by itself: it is started with a flag nobody can raise.

One assumption about the harness is a parameter.  `RecordsUnanswered`: a turn
that failed before any answer may be part of the history that `--resume`
replays.

### Proofs

`GuiExecutorProofs` proves `ExecutedOnce`, `AnswersAreTrue`, `NoWorkAfterAnswer`,
`ShutdownReleases` and `TypeOK` for every set of calls and every `MaxSteps`.
None of them is inductive.  `ExecutorInv` says where a slot is and what its
fields then say: it is *placed* while it is in `queue_` or in the GUI thread's
batch, in one place only and once (`PlacesInv`); a waiting caller's slot is
placed or done, and a placed slot belongs to a caller that waits or has timed
out (`CallerInv`); a placed slot is not done and holds nothing or a continuation
(`SlotInv`); between two steps of the GUI thread a placed slot has executed its
tool once if it holds a continuation and never otherwise (`WorkInv`).  The
sequence reasoning is confined to three lemmas on an empty queue, `Append` and
`Tail`; every action lemma uses only those.

`AssistantTurnProofs` proves, for every number of turns, probes and calls:

* `TurnInvariant` and `TurnAccountingHolds`.  `TurnInv` says where the turn is: a
  busy panel has exactly one, as one queued `RunTurn`, in the worker, or as one
  queued `TurnComplete`, and an idle panel has none in any of the three
  (`CountInv`); a CLI process is there exactly while the worker runs a turn
  (`CliInv`); once the destructor joins, the worker has been told to stop and the
  executor is down (`ClosedInv`); `PanelTyped` and `E!TypeOK` are the types.
* `ExecutorRefined`: every step of the panel, the worker and the MCP threads is a
  step of the instance `E` of `GuiExecutor` or leaves it alone,
  `Spec => E!Spec` without fairness.  The theorems of `GuiExecutorProofs` therefore
  hold inside the assistant.

`AssistantConversationsProofs` proves, for every set of backends, session ids,
listings and versions:

* `ConversationInvariant`: `ConversationInv`.  A session belongs to the backend
  that gave it out wherever it is named (`OwnedInv`); the backend is swapped
  between turns only, and a panel without settings remembers nothing (`BindInv`);
  the session a turn writes to is the one its memory then names (`TurnInv`);
  memory, screen and persisted id differ only by what the turn in flight has
  learnt and, for a backend in `dangling`, by the session that could not be read
  (`MindInv`); a listing whose hash counts as
  sent is in the history of its session, or was at the start of the turn that is
  in flight (`ToldInv`).
* `ResumeTargetHolds`, `NoCrossTalkHolds` and the action property
  `NamesKeptHolds`, without hypothesis; `ModelIsCurrentHolds`, under
  `~RecordsUnanswered`, which `ToldInv` needs.  *Known limits* says what the code
  does without it.

Only model-checked: `CallsReturn`, `CancelEndsRun`, `TurnsEnd` and `TeardownEnds`,
which are liveness.

### Known limits

* `TeardownEnds` without `PatientCli`: `sendUserMessage` starts by clearing
  `cancel_` (`claude_backend.cpp:146`, `codex_backend.cpp:200`).  A cancellation
  raised after Send and before the worker gets there is lost, the destructor's
  included; the destructor then waits for as long as the CLI takes, although
  `assistant_dialog.cpp:167-169` cancels first so that `join()` would not.
* `NothingDangles` (run `claims`): when the persisted session of a backend is
  purged or cannot be read on the way back to it, `activateBackendConversation`
  blanks the panel and the persisted id, but not the backend's memory.  The next
  turn resumes that session, and its `TurnComplete` persists the id again;
  `assistant_dialog.cpp:328-329` says that "there is no --resume target to
  dangle", and `docs/ARCHITECTURE.md:505` that the panel starts blank "instead of
  dangling a `--resume` target".  `ResumeTarget` and `NoCrossTalk` name this case
  and show that it is the only one.
* A probe whose `--version` hangs blocks the worker and the destructor
  (`cli_probe.hpp:68`).
* `widget_data`'s backstop resets the open sub-dialog on any render
  (`assistant_dialog.cpp:682`), so that accepting a rename may be routed to the
  settings; the routing of sub-dialogs is not modelled.
* `RecordsUnanswered = TRUE` in `MC_conversations.cfg`: with data A told, B loaded, a
  turn that fails unanswered but is in the session's history, and A loaded
  again, the hash `restoreSentListings` put back matches A: nothing is sent and
  the model goes on believing B (`ModelIsCurrent`).
* A listing passes over files it cannot read, and over all of them where the
  directory cannot be read; `refreshConversationsLocked` then prunes the custom
  names of conversations that exist.  `NamesKept` allows exactly the names that
  the last listing of that backend does not show.

## 4. The Mosaico download

The Mosaico toolbox pulls topics from a remote archive into one dataset of the
host.  A Download is one call of `pullTopicsAsync` on a worker thread; the SDK
runs each topic's callbacks on a pool thread; a poller watches the host's Stop
flag while the transport is silent; and `requestCancel` may come from the GUI,
a pool thread, the poller, the watchdog or the thread that cancels an import.
A push may *park* in the host's lossless queue while its thread holds
`host_write_mu_` and `progress_mu_`, and only `requestStop` on the host's context
wakes it.

### Modules

* `MosaicoFetch` models `fetch_worker.cpp`.  `pull` is the pull thread's place,
  `pool[t]` that of a topic's pool thread, `canceller[w]` a thread's place in
  `requestCancel` (raise the flag; tell the host; interrupt the readers).
  Sections under `stop_mu_` never block and are atomic; the two other mutexes are
  variables.  A stamped topic pushes each batch as it comes (`on_batch`), an
  unstamped one when its stream has ended.  The host may refuse the dataset, the
  context, a push, the attestation and the discard.
* `MosaicoDownload` adds the two callers: the dialog (the callbacks queued to the
  GUI thread, the tally, the progressive reveal, Cancel, the destructor) and the
  headless import job (byte and time ceilings, caller cancel, terminal mapping).
* `IngestBracket` is the abstract specification: what the host may rely on of one
  ingest.

A batch of rows is a count; framing, synthetic timestamps and the protocol to
the archive are data.  `deadCall` is history: the host was called through a
context it had released.

### The run

`download`: two topics, one of them unstamped, one batch each, a byte ceiling of
one batch, both callers, hosts with and without rollback.  One topic fails while
the other succeeds, is cut or is parked; more batches repeat the same steps.
Batches of the dialog may follow each other without end.  The user does not click
Cancel again while the panel says it is cancelling.

| Property | Shows |
|---|---|
| `BracketKept` | refinement: `IngestBracket!Spec` with `ctx`, `imported` and `verdict` as the bracket's context, landed flag and attestation; no push after the attestation, COMPLETED only of a whole request, no dataset with rows discarded |
| `NoDeadCall` | no call through a released context |
| `ReportedOnce` | one report per topic, the completion last, a host Stop reported once |
| `CutIsNotAnError` | a cancelled topic is never tallied as failed, however late its event |
| `FinishedIsShown` | at idle every finished topic is in the catalog |
| `SuccessIsUncut` | an import that was cut never succeeds, and a success names a dataset the host has |
| `StopEnds` | a stopped batch ends though server and host do nothing more |

The refinement maps `whole`, the bracket's input, to *every stream ended well,
every batch read was pushed, and the host did not say Stop*; it may change at any
step.  Every step of the detailed specification then is a step of the bracket or
leaves its variables alone.

Fairness: one weak fairness condition, that while a thread of the worker or the
thread that cancels can take a step one of them does.  Nothing is assumed of the
server, the host's queue, the user or the clock: `StopEnds` would be empty if the
stream had to end by itself.

`CHECK_DEADLOCK FALSE`: a destroyed panel and an ended import stop.

### Proofs

`MosaicoDownloadProofs` proves `NoDeadCall`, `CutIsNotAnError`, `SuccessIsUncut`,
`ReportedOnce`, `FinishedIsShown` and the refinement `BracketKept`
(`BracketRefined`) for every finite set of topics, any number of batches and any
ceilings.  All rest on an inductive invariant, `DownloadInv`, proved by
`DownloadInvariant`; its parts follow the threads:

* `BatchInv`: what is open in the host follows from the pull thread's place; a view
  or stop surface implies a live context.  With `PoolInv` (the pool runs only
  inside `pullTopics`) and `CancelInv` (a thread is inside `requestCancel` only in
  the places it can be called from) this gives `NoDeadCall`.
* `TopicInv` and `LedgerInv`: batches read are pushed or still to push unless the
  topic failed, so that a topic recorded as good has landed whole: what the bracket
  asks of a COMPLETED attestation.
* `CutInv`, `DoneInv`, `FailedInv`: a cut topic implies a cancelled batch until the
  next batch has cleared its queues, and what was reported is over, so that a late
  event meets the same flag as the cut: `CutIsNotAnError`.
* `CauseInv`, `ReportInv`, `CallerInv`: whoever cancelled an import is known, or is
  still on its way to saying so, when the outcome is mapped, and a cut topic was
  reported as failed: `SuccessIsUncut`.

`FetchAssumption` says what the model's constants are: topics are finitely many and
distinct from the names of the other threads and from `None`.

A second inductive invariant, `CountInv` (`CountInvariant`), is proved on top of
the first and counts callbacks:

* `QueueInv` and `SaidInv`: the queue holds one report per topic, or the one of a
  pull that threw, and the completion last; once the pull thread is past
  `pullTopics` every topic, or the throw, is in it.  That a pool thread does not
  report twice is `DoneInv` above; that the failures of a batch which never
  started are each reported once rests on the sequence made of a set being a
  bijection (`SetToSeqOnce`).
* `StopInv`: one thread at most is between winning the once-only exchange and its
  callback, and only inside the batch, so that no stop is reported into the next
  one.  With the two above: `ReportedOnce`.
* `TallyInv` and `PanelInv`: the panel's count is the number of reports among the
  callbacks it has handled, an injection into the topics; since the completion is
  last and nothing is pushed between two batches, an idle panel has handled
  everything and shows what is there: `FinishedIsShown`.

`ReportedOnceHolds` includes the type invariant: `BatchBound` (no more pushed and
to push than received) and the types of the flags are part of `CountInv`.

Only model-checked: `StopEnds`, liveness.

### Known limits

* Rows nobody reveals: `onAllFetchesComplete` (`mosaico_dialog.cpp:1840`) tells
  the host only if a topic finished, while the worker keeps the dataset as soon
  as one batch was pushed.  A stamped topic that fails or is cancelled after its
  first batch, alone, leaves rows that never appear in the tree, although
  `fetch_worker.cpp:834-835` says that such a topic "keeps the batches already
  pushed".  `FinishedIsShown` is stated for the topics that finished.
* The destructor's flush (`mosaico_dialog.cpp:351`) looks at a flag that only
  handled events set: topics whose events were still queued are not shown.
* On a host without rollback the context is made with the first push; a cancel
  before it reaches no host, and the push that follows may park.  `StopEnds`
  claims a cancel of ours on hosts with rollback only.
* A `pullTopics` that throws reports one result under no topic's name; the tally
  is then incomplete (`Thrown`).

## 5. The WebRTC source

One `CameraRuntime` per camera: a WHEP connection with a bounded frame queue,
flags its callbacks set (`lost`, `terminal`, `connected`), a back-off counted in
polls, and a failure history that is cleared after a stable window.  Cameras share
nothing, so one is modelled.

* `WhepConnection`: `open` creates the peer and the worker; the worker gathers,
  posts the offer, checks `closing_` and stores the session or deletes it, primes
  the normalizer and activates the answer (`After` is that order); the peer's
  callbacks connect, lose and bring frames (`FrameArrives`, `FrameQueued`: the two
  locked regions of `onFrame`); `close` is split where the worker can act in
  between (`CloseBegins`, the join with `DeleteSession`, `CloseEnds`).  `owed`
  counts the sessions the server holds for which no DELETE was sent.
* `WebrtcSource`: `onStart`, the five parts of `onPoll` (window, frames, loss,
  judgement of the failure, retry), `onStop`.  `hurt`, `calm` and `up` are
  history: a loss since the last one was handled, the polls since a loss was handled,
  and the polls since the connection the camera has was seen connected.

Run `webrtc`: back-off 1 to 4 polls (the code: 500 ms to 8 s of 33 ms polls), a
window of 5 polls (the code: 10 s), escalation after 5 attempts, a queue of 2
frames (the code: 256) with up to 3 arrivals between two drains.  The window is
longer than the longest back-off, as the code asks (`webrtc_source.cpp:187`).

`NothingOutlivesClose`: every session that was answered is hung up once, whenever
`close` meets the POST, a camera that is gone has no thread, peer or frame left,
and a poll never acts on the loss of a connection already replaced.
`FramesWhole`: the queue holds the newest frames, in order, and no keyframe goes
without the parameter sets its answer announced.
`RetryIffAllowed` and `LossRecovers`: exactly a refused token ends the retries,
and every other loss leads to another attempt.  `ClearedAfterCalm`: the history is
cleared only after a full window of polls that handled no loss, and then for a
connection that was up all that time, or because a stale edge opened the window.

The stale edge is a finding.  `onPoll` reads the `connected` flag at its beginning
and handles a loss at its end, and `teardownCamera` resets only `lost`: when a
connection comes up and is lost between the two, its edge outlives it, the next
poll opens the stability window for a camera without a connection, and the history
may be cleared while nothing is up.  The code says "Only a connection that STAYED up
clears the failure history" (`webrtc_source.cpp:130`) and that a flap cycle "can
never outrun escalation" (`:187`).  `StayedUp` states the first; the run `claims`
(same bounds) refutes it: the edge and the loss come within one poll, the next
attempt hangs in the POST, and the window closes with one failure forgotten.  `MC_Claims` lets the assistant's panel,
which shares nothing with a camera, refute a comment of its own in the same
behaviour (*Known limits* of the assistant): its invariant says that one of the two
comments stands, so the state that violates it refutes both.

Fairness: the host polls, the worker's waits are bounded by timeouts in the code,
and a frame callback only takes a mutex nobody keeps, so all three run on.  The
peer, the server and the user may do nothing for ever.  Deadlock is checked: a stopped source can be started again.

`WebrtcSourceProofs` proves the four safety properties for every back-off, window,
escalation threshold and queue length, as consequences of `CameraInv`
(`CameraInvariant`).  `NothingOutlivesClose` needs what each place of a `close` has
already undone (`CloseInv`) and who holds the session an answer created: the worker
between the POST and its store, or `session_url_` (`SessionInv`: then one DELETE is
owed, otherwise none).  `FramesWhole` needs that media flows only after the worker
primed the normalizer (`MediaInv`); `RetryIffAllowed` that a camera without a
connection waits unless it was refused (`RetryInv`); `ClearedAfterCalm`, an action
property, that the open window plus the calm polls cover the full window, and so
does the window plus the time the connection was up, unless it was not up at all
(`WindowInv`).  `LossRecovers` is liveness and only model-checked.

Known limits: a synchronous failure of `open` may leave `lost` set as well, and the
attempt is counted twice; in a window that a stale edge opened such a failure neither
closes the window nor restarts `calm`.
## 6. The Foxglove bridge source

The second demand-driven source.  Catalog entries are channels with ids of the
server's, and frames carry subscription ids of the client's, which start over on
every connection.  The server announces its channels once, when a connection
opens, and then only changes.

`FoxgloveSource` models the source, the dialog as far as it feeds it, the socket
and the server.  The poll thread is split where the socket's thread can act
between two of its steps: the look at the connection (`PollConnection`), the
reset (`PollReset`), the take of the texts (`TakeTexts`), each text (`advertise`,
`unadvertise`), the host's command (`applyDesiredTopics`), the frames
(`PollFrames`); `onStart` is split before its last assignment (`StartEnds`).
`Send` drops what is sent while the socket is not open.  A socket taken over from
the dialog keeps reconnecting by itself (`auto`); the source's own does not.
`Worlds` are the channel sets a restarted server may come back with.

### Runs

`foxglove`: two topics, three channel ids, a selection of at most one topic, both
kinds of host, two streams, two active sets, one catalog change, one loss, one
failed attempt, one frame in flight, and two polls between attempts (the code:
150).  Three ids let a topic move to another channel and a channel id name
another topic after a restart, which is where stale state would show.

* `IngestedAsSent`: the parser a frame meets is that of its topic;
* `AtRestAgree`: source, host and server agree once everything is handled;
* `LossIsRetried`: a lost connection is attempted again, under fairness of the polls
  (33 ms apart) and of the end of `onStart` only.

All three hold when none of the four races below happens (`Races = {}`).

`foxglove_claims` admits all four races and notes in `refuted` which of six
statements of the plugin a behaviour has refuted; its invariant says that one of
them still stands, and the run ends in a behaviour of two streams and 48 steps that
has refuted all six.  One server with two channels, two active sets, three losses,
one catalog change and one frame are enough for it; that the connection is lost in
the second stream only keeps the search short.

| statement | refuted by | what the plugin says |
|---|---|---|
| "unadvertise" | `onTextMessage` handles it | `README.md:36`: "Unadvertise messages from server not handled" |
| "reconnection" | `onPoll` makes the connection anew | `README.md:37`: "No reconnection on unexpected disconnect" |
| "burst" | race "burst": at rest with an empty catalog on a server that has channels | `foxglove_source.cpp:183-188`: the order of reset and drain is there to rule this out |
| "retry" | race "loss": the loss falls before the reset's `connected_ = true`, which stays true for ever | `foxglove_source.cpp:182`: "if connection was lost, try every ~5s" |
| "routing" | race "leftovers": a frame of the stopped stream is ingested as the topic that has its id in the next | `foxglove_source.cpp:279` keeps the host's command from leaking "into the next start", and `README.md:22` has each channel "routed to the matching parser" |
| "list" | race "ghosts": a channel the server removed stays in the dialog's catalog, from which the next stream starts and which the host is shown | `foxglove_source.cpp:388`: "Advertise the current (filtered) full channel set to the host" |

The first two need no race: there the plugin's README is out of date.  Its line 39,
"Server status/warning messages not processed", is outdated too (`onTextMessage`
reports them), but status messages are not modelled.

`CHECK_DEADLOCK FALSE`: with its bounds spent a stopped source has nothing to do.

### What is proved

`FoxgloveSourceProofs` proves `Races = {} => (Spec => []IngestedAsSent)` and
`Races = {} => (Spec => []AtRestAgree)` for every set of topics and channels, every
server, every selection, both kinds of host and every bound.  The hypothesis is the
condition under which the agreement holds: each of the four races below breaks it on
a small instance.  `SourceInv`, the inductive
invariant, is the conjunction of

* `LinkInv`: which connection a step of the poll can be on, and that no frame,
  request or subscription of the last one is left when the ids start over;
* `ChannelInv`: what the texts and, while connected, the catalog say of a channel
  is right of the server, whose ids only grow (`Right`);
* `WantedInv`: in demand mode whatever the host wants of the catalog is subscribed,
  so that an `advertise` subscribes to nothing but the channels it announces, even
  while the catalog is still that of a connection already lost;
* `FrameInv`: ids below `nextId_` are used up and only those, and a subscription the
  server has or is asked for, and a frame it sent, is of the topic that the parser
  of its id was bound for (`Matched`).

The lemmas `Registered` (the ids handed out together are new and distinct),
`SendAsks`, `SubscribingMatches` and `CleanStarts` carry the steps that subscribe.
`FoxgloveAssumption` is the only assumption on the constants: channel ids are
finitely many positive numbers (`uint64_t` in the code).  TLC checked `SourceInv`
on a complete instance of 1.4 million states first.

`AtRestAgree` speaks only of states in which nothing is under way, so its invariant
has to say what is under way will come to.  `RestInv` adds to `SourceInv`

* `DialogInv`, `CatalogInv`: the dialog misses no channel of its server, and the
  texts in the batch and then in the queue turn the catalog into the server's
  channels, channel by channel (`Leads`: the last text about a channel decides);
* `UnsaidInv`: a channel that a text takes back is gone and never comes back, so
  `unadvertise` may drop subscriptions without telling the server;
* `OnlyInv`: in demand mode nothing but wanted channels is subscribed (the converse
  of `WantedInv`), and the host was told of the catalog;
* `IdsInv`: an id names one subscription among the source's, the server's and those
  asked for, which is what lets an `unsubscribe` carry ids only;
* `OrderInv`: for every channel the server still has, the requests under way turn its
  table into the source's subscriptions (`WillHave`), and none asks for a
  subscription while an older one to the same channel would still be there, since the
  server would ignore it (`Orderly`);
* `BoundInv`, `LegacyInv`: the source's subscriptions have their parsers, and in
  legacy mode what the server has is the source's and of a selected topic.

`CatalogInv`, `OrderInv`, `BoundInv` and `LegacyInv` are stated of a source that is
`Live`, on the connection it believes to be on; between a loss and the reset of the
next connection they need not hold.  The lemmas `LeadsOn`/`LeadsFrom` and
`HavingMore`/`HavingLess` say what one element more at the end, or one handled at the
front, does to a queue; `Registrations` puts every step that subscribes into one form.
TLC checked `RestInv` on a complete instance of 2.4 million states first.
`LossIsRetried` is liveness and stays with TLC.

### Known limits: the races

The constant `Races` names four interleavings under which the code does not keep the
properties above.  The run `foxglove` and the theorems leave them out (`Races = {}`),
and the run `foxglove_claims` shows what each of them breaks.

* "burst": the connection opens between a poll's look at it and the same poll's
  drain, or while older texts wait; the reset of the next poll wipes the burst.
* "loss": the connection closes between the look and `connected_ = true`
  (`foxglove_source.cpp:192-193`), or before the last line of `onStart` (177):
  the assignment overwrites the callback's, and nobody reconnects, although the
  comment at 182 says "if connection was lost, try every ~5s".
* "leftovers": `onStop` leaves `text_queue_`, `message_queue_` and
  `reconnect_pending_` as they are; the next stream handles the texts and frames
  of the one before.
* "ghosts": the dialog ignores `unadvertise`, keeps the first description of a
  channel id and its catalog after the hand-over, and a saved selection holds ids
  of an earlier server; the source starts from them.

Also: after a reconnect to a server without channels no message says so and the
host's list stays as it was (`AtRestAgree` speaks of the list when there are
channels).

## 7. Plan

Done so far: the PJ bridge, the assistant panel, the Mosaico download with its
abstract specification, the WebRTC source, the Foxglove bridge source.  Order of
the remaining work, the most important first.

1. `Ros2Source`: the third demand-driven source, with the graph thread in place
   of pushed catalogs, and `DemandControl`, an abstract specification of what the
   three promise alike.
2. `McapParallelRead`: thread pool and byte semaphore.
3. `PjBridgeDialog`, `MqttConnection`: back-off and hand-over from the dialog's
   side.
4. `EphemeralPreview`, sub-dialog routing, pure algorithms against reference
   definitions.

Liveness under fairness, what a fold over a sequence computes and recursive
definitions stay with TLC: the prover has no rule for the first and cannot
instantiate an induction principle for the others.

## 8. Not modelled

The modelled parts are those in which several threads or peers meet.  They are a
small share of the repository's lines; most of the rest is decoding and
computation on data:

* file formats and parsers: pure decoding over large inputs, which a small
  instance says little about;
* the assistant's tools (`tools.cpp`): some sixty sequential handlers over host
  services; their protocol with the GUI thread is in `GuiExecutor`;
* the transform editor and the numeric toolboxes: script text and floating point;
* painting, text rendering and wording, TLS and sockets;
* the host application and the SDK, outside the repository, modelled only by how
  the plugins call them and are called;
* build and release scripts.

`PROJECT.json` gives the reason for each part.
