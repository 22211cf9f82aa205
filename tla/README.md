# hyprfast in TLA+

A verification development of hyprfast: the browser runtime (a daemon that keeps one CDP
WebSocket to the browser open and executes plans on its pages for short-lived clients,
`src/src/browser_runtime/`), and the tools of the MCP server around it (the DevTools MCP
child, the decider service, perception). The modules are translated from the Rust code;
`PROJECT.json` maps every definition to the lines it stands for.

## 1. The system

| Component | State | Operations | Modelled in |
|---|---|---|---|
| CDP transport, requests (`connection.rs`) | `alive`, pending table, `next_id`, writer channel, writer task | `call_with_timeout`, `mark_dead`, writer task, `shutdown`, dropping a call's future | `Requests` |
| CDP transport, inbound (`connection.rs`) | inbound channel, offload channel, reorder buffer, `expected`, attached sessions, event broadcast | reader, dispatcher, `classify_frame`, `extract_id_prefix`, blocking decode, `dispatch_item` | `Pipeline` |
| CDP transport (`connection.rs`) | both | `initialize`'s session bookkeeping, the two halves joined | `Transport` |
| Daemon lifecycle, crash recovery (`state.rs`, `server.rs`, `crash_recovery.rs`) | lifecycle state, `shutdown_started`, two `Notify` waiters, in-flight count, socket file, transport | `serve`, `accept_loop`, `handle_connection`, `initiate_shutdown`, `teardown`, `handle_cdp_disconnect`, `crash_handle` | `Lifecycle`, `Daemon` |
| Daemon socket (`server.rs`) | the path on disk, listeners of several processes | `bind_socket_exclusive`, `probe_live`, unlink at teardown, a crash | `Socket` |
| Action executor (`executor.rs`, `action.rs`, `action_journal.rs`, `server.rs`) | per-target mutexes, action state, cancel tokens, journal | `execute_plan`, `execute_step`, `dispatch_step`, verification, deadlines, cancellation | `Executor` |
| Target manager (`targets.rs`) | records, session map, active id, generations, two locks taken in both orders | `Target.*` events, `switch_target`, `handle_reconnect`, `sync_from_target_infos`, session validation | `Targets` |
| DOM state, events, frames (`dom_state.rs`, `events.rs`, `frames.rs`) | versions, lifecycle, frame versions, broadcast receiver | event dispatcher with lag, `enable_new_session`, re-fetch of a document, reconnect, staleness checks | `Live` |
| Wait engine (`wait.rs`, waits of `plan.rs`) | subscription, deadline | `wait_for` | `Wait` |
| Element index, DOM diff, recovery ladder (`element_index.rs`, `dom_diff.rs`, `recovery.rs`, `vision.rs`) | three maps behind three locks, versions of each element | incremental update, full rebuild, clear, `resolve`, `recover` | `Index` |
| Runtime client, DevTools MCP proxy, browser tools, MCP loop (`client.rs`, `devtools_mcp/`, `browser/mod.rs`, `main.rs`) | child process, its pipes and restart budget, the tool being served | the routes of every browser tool, request framing, timeouts, restarts, fallbacks | `Tools` |
| Decider, perception (`decider/`, `perception/`, `ground.rs`) | cached health verdict, permits, requests in flight | `decide`, `decider_batch`, `choose`, `detect`, `find`, `verify`, `wait_until` | `Decider` |
| Tasks, desktop daemon, desktop access, OCR, screenshots, Excalidraw, CLI | a JSON file, or none | calls into the compositor, the page or a model | not modelled (section 5) |

How they interact. A client connects to the daemon's Unix socket; the accept loop
spawns a handler, which takes an in-flight guard, checks the lifecycle, and runs the
operation. A plan queues on the mutex of its target key and runs step by step; each
step resolves an element in the index (or recovers it), checks it, sends CDP calls through
the transport and verifies the result. The transport's writer sends frames; the reader
numbers what arrives; the dispatcher restores wire order and hands responses to the
pending table and events to a broadcast channel. The event dispatcher receives them there
and updates, one lock after the other, DOM state, frames, targets and index, while requests
read and a reconnect clears the same structures on other threads. Every arrow crosses a
task boundary of a multi-threaded tokio runtime; locks are short, except the target mutex,
which is held for a whole plan. The MCP server's tools are a process of their own: each
goes to the DevTools MCP child first, then to the daemon, then to the browser; perception
asks the page first, then the decider.

What is hard, and where it is listed: `PROJECT.json` "hazards" gives each at its
line. In short: `mark_dead` racing calls that register; a timer racing the answer;
decoding in any order; frames that do not decode; wake-ups that are
not stored; a lifecycle that is read, released and relied on; several processes on one
path; a deadline that drops a call whose frame is on the wire; a reference that is
checked before an await and used after it; mutexes keyed by name where pages are
shared; events that are dropped, or applied while a reconnect clears what they update; two
locks in two orders; a late answer of the child read by the next request; a fallback that
repeats what was done; a verdict that outlives the service it is about.

What makes each part correct:

- requests: every caller returns, with its own answer, and leaves nothing behind;
- pipeline: frames take effect once, in wire order, and none is lost or stuck;
- daemon: a call that passed the gate is not cut off by teardown (unless the drain ran
  into its limit), a stopped daemon has cleaned up, a recovery comes to a decision;
- socket: a daemon that bound the path alone is the one that clients reach while it serves;
- executor: a step that is reported Failed or Cancelled did not touch the page, a
  failed step stops the plan, and every plan ends;
- targets: one active record, no session of an old connection accepted, no deadlock;
- live state and waits: a changed page makes references stale for good, no wake-up is lost;
- index: what a checked answer is about is on the page and was asked for; no ambiguity;
- tools: success means done, a success is not repeated, answers are not mixed up;
- decider: nothing is attributed to the service that it did not say.

## 2. The modules

`Requests` models `BrowserRuntime::call_with_timeout` as a program per call (draw an
id, register, queue, wait, leave), `mark_dead` as its four critical sections (swap
`alive`, take the writer, take the table, answer each entry), the writer task and
`shutdown`. `pending` is a set of `[id, tx]`: the id and the oneshot of the call that
inserted it. The dispatcher takes an entry out of the table under its lock and fills the
oneshot afterwards (`Deliver`, `SendAnswer`); in between it has the entry in its `hand`, where
`mark_dead` does not find it. `CallDrop` is a caller dropping the future, as a surrounding
`tokio::time::timeout` does. In this module the browser may answer any id that has
been sent, once or several times, with anything.

`Pipeline` models the reader and dispatcher tasks. A frame is a record of its kind,
the id in its head, the session it is about and its *shape*: decoded at once, by a
blocking worker, undecodable, oversize, not UTF-8. The `...Split` shapes have a
multi-byte character across byte 1024, where `extract_id_prefix` cuts; the task that
looks at such a frame panics and ends (`ReaderPanic`, `DispatcherPanic`).
`OrderedDelivery` is the abstract specification (a FIFO queue); `ImplementsFIFO` states
that the pipeline implements it.

`Transport` composes the two with `INSTANCE`: the reader's end is what starts
`mark_dead`, a dispatched response is what fills a oneshot. It adds `initialize`'s
late `track_attached`. `RequestsSpec` states that its steps are steps of `Requests`, so
whatever is proved of `Requests` for every instance holds in the composition.

`Lifecycle` is the table of `state.rs`; `Daemon` has one program per task: `serve` with
the teardown, the accept loop, each initiator of a shutdown (signal, stop request,
failed connect), each request, and each recovery (`handle_cdp_disconnect`, and the
`crash_handle` request, which decides and transitions likewise but connects nothing).
`notified` is the set of tasks whose `notified()` future existed when `notify_waiters` ran.

`Socket` has several daemon processes on one path. `path` is the process whose socket
is there, `Leftover` or `NoFile`. Two histories say who may be cut off: `slow`, the daemons
that did not answer a probe in time, and `rivals`, who was past its probe, serving or stopping
when a daemon bound. Starts, stops and crashes overlap freely.

`Executor` has one program per plan request. `state` is both its program counter and
the `ActionState` of the current step. `wire` holds the frames sent, `applied` what the
browser has carried out, at any later time (`garbled` those whose response was lost in
decoding). When the click of a click by node fails, its error is kept until the release of
the object handle is through (`ReleaseObject`, `ReleaseReturns`). What resolution and
verification compute is a choice; when they run and what is done with the result is
not. An "error" is one of the protocol, and then nothing was carried out; a page script that
finds no element, or throws, answers with a result, which `dispatch_step` takes for success
(`executor.rs:810`, `:899`): to the model that call has been carried out.

`Targets` has the event dispatcher and several requests inside the target manager, one
critical section per action. `lockT` and `lockA` are the locks of the records and of the
active id; a section that keeps one while it takes the other is two actions. The browser
opens, attaches, detaches, crashes and closes targets and puts the events into a channel
that drops the oldest when it is full. `since` is the generation in which the browser attached
a session, `taken` the one in which the dispatcher took the attach up; the code stores the second.

`Live` has a page with iframes (external), the broadcast channel, `DomState` and the
`FrameManager`, the tasks that enable domains and fetch the document, a reconnect and a
reference that a client took. `Wait` extends it with a waiter: check, subscribe, re-check,
await, for one representative of each kind of condition.

`Index` has the dispatcher's updates of the three maps, one lock at a time, the
invalidation by a reconnect, and a client that resolves (by every tier), verifies and
recovers (by every rung of the ladder), each of its reads a step.

`Tools` describes each browser tool by its script: stages of calls, each stage in a tokio
runtime of its own, each call with where to go when it succeeds and when it fails (`Goes`).
`k` and `c` are the stage and the call a tool is at; one interpreter runs the scripts over the
three transports. The child's answers may be late, torn or missing, it may die, and its pipes
fail in another runtime than the one it was spawned in. An error answer leaves open whether
the call had its effect before it failed (`failed` remembers that an acting call did not
succeed). `click_zero` is `browser_click` with a ref of 0.

`Decider` has the routing with its cached health probe, the client (permits, endpoints,
failures), the decoding and validation of an answer, and the seven tools that use them.
`query` is the tool being served, `step` where it is, `reqs` its requests, `out` its result. The
ids of options (`Ids`), the texts of candidates (`TextOf`) and the number a text parses to
(`Numeral`, `parse::<usize>`: "02" and "+2" are 2) are constants; texts need not be
unique, since `vision_text` cuts long names. The service is taken to spell the ids it was given
as they were given; `detect` and `verify` compare them as strings, so that another spelling
would make their result uncertain. A reply remembers which question and option each
decision was made for, which the service alone knows and the properties compare with what the
code takes it for (`TakenAsMeant`).
A look at the page and a screenshot are steps of their own (`PageMiss`, `TakePicture`, `Ground`),
which need not end. Time is counted in ticks and capped where no test of the code tells larger ages apart.

`MC*` modules give the small instances; `ConnectionProofs` (about `Requests` and `Pipeline`),
`TransportProofs`, `DaemonProofs` (with those of `Socket`), `WaitProofs` (with those of `Live`),
`TargetsProofs`, `ExecutorProofs`, `IndexProofs` and `ToolsProofs` (with those of `Decider`) hold
the proofs. `Pipeline` and `Decider` prefix the names of their specification (`PipelineInit`,
`DeciderNext`, ...), so that one module can extend them beside another component.

## 3. The runs

| Run | Shows |
|---|---|
| `requests` | Two calls, the writer, shutdown and `mark_dead` in every order: no caller is orphaned, no entry of a returned call stays, a drained connection has answered everyone but the caller in the dispatcher's hand, answers are the caller's own, and death releases every call. |
| `pipeline` | Three frames of every shape in every order of decoding: no sequence number is lost, every frame is dispatched, and the pipeline implements the FIFO: sessions and events follow the wire. |
| `transport` | What a caller gets, the browser sent for its id; an answered call ends and a closed connection releases its callers, unless a task panics; the composition implements `Requests`. |
| `daemon` | Start, requests, stop, signal, failed connect, lost connections and recoveries in every order: gate and drain fit together; a shutdown both tasks heard of ends in `Stopped`, clean; `Reconnecting` is left unless a connect hangs. |
| `socket` | Three daemons start, stop and crash, with or without a leftover file: each start is decided; a serving daemon is the one at the path, unless it did not answer a probe in time or somebody past its probe, serving or stopping was there when it bound. |
| `executor` | Two plans on a key with every step kind, deadlines, cancellation, a moving DOM, garbled responses and a dying connection: Failed and Cancelled mean that the page was not touched (but for a call whose response did not decode), nothing follows a failed step, Completed means done (but for calls whose errors are dropped), and every plan is answered. |
| `targets` | Dispatcher and two requests, lock by lock: the active target is flagged, a dangling active id has been reported, accepted sessions are live or the event of their own end is under way, sessions of an old connection are refused unless their attach was taken up after the reconnect, and nothing blocks but the one lock inversion. |
| `live` | A page with an iframe, a full channel, a reconnect: applied changes make older references stale, stale ones stay so, and the browser is silent about a document only for a reason. |
| `wait` | Every kind of condition, with events that come early, late, never or are dropped: no signal is lost by the waiter and no wake-up missed. |
| `index` | Three maps changed and cleared under a reader: at most one element is fresh, so recovery is never ambiguous; a checked answer is on the page and was asked for (with the exceptions its comment names). |
| `tools` | Every tool, two in a row, with a failing child and an exhausted restart budget: own answers, success means carried out, twice only after an acting call that did not succeed, every tool ends unless `npx` or a connect hangs. |
| `decider` | A service that comes, goes and answers badly, options with equal texts or texts that parse as an id: what is attributed to it it said; its death is noticed in time; every tool ends unless a look at the page hangs. |

**Divergences.** What the repository says and the code does not do. They are visible in
the modules as actions, or as the exceptions in a property's comment.

Transport and daemon:

- `extract_id_prefix` slices at byte 1024 (`connection.rs:286`, where `:133` says "never a
  panic"); if that is inside a character, the reader or dispatcher dies and `is_alive`
  stays true: the `Panicked` exception of `AnsweredCallReturns` and `CloseReleasesCalls`.
- `track_attached` may run after the session's detach (`connection.rs:546`; `:965` says
  "State-mutation order == wire arrival order"): `InitTracks` leaves a dead session.
- `CallTimeout` may fire after `mark_dead` has cleared `alive` and before it has answered the
  call, where `connection.rs:584` excludes a timeout on a dead connection; `CallDrop` leaves
  its entry in the pending table, since nothing removes it when the future is dropped.
- `notify_waiters` is lost on a task that is not waiting (`server.rs:963`; `:2208` says that
  a signal "must run the complete shutdown sequence"): hence `WokenShutdownCompletes` and no
  more.
- Two starts that have probed the same stale file: the second unlinks the first's live
  socket (`server.rs:302`; `:285` says "Never blindly unlinks a live socket"), and a slow
  teardown removes a successor's. A live daemon that takes longer than the probe's limit is
  unlinked as well. What is left of the claim is `ServingIsReachable`: a daemon that
  was alone when it bound and answers in time is never cut off, whoever starts later.
- The WebSocket connect has no timeout (`connection.rs:371`): against a peer that accepts and
  never upgrades, a recovery stays in Reconnecting (`crash_recovery.rs:315`; the exception in
  `RecoveryDecides`) and `serve` stays in Connecting.
- No task calls `handle_cdp_disconnect` (only the failure-injection tests do), though
  `crash_recovery.rs:6` describes it as what happens on a disconnect. A recovery that
  finishes under a teardown leaves an open transport (the exception in `StoppedIsClean`).

Executor, index, live state:

- Errors of a key press are dropped and the step is Completed (`executor.rs:889`, `:1104`):
  the exception in `HonestReport`.
- Mutexes are per target name while plans pass no session, so plans under two names act on
  one page (`executor.rs:797`; `:6` says "per-target serialized").
- An `InvalidResponse` of a mutation that was carried out is recorded as Failed.
- `handle_reconnect` says that "Sessions from the previous connection are invalidated
  (cleared)" (`targets.rs:924`), but `on_attached` stamps a session with the generation of the moment the
  event is taken up (`:403`): an attach that was on the channel at the reconnect is accepted as
  new, until the old dispatcher is aborted (`server.rs:548`): `TakenUpLate`.
- `resolve` does not compare the selector again after its selector map has given it an id
  (`element_index.rs:470`): the element is on the page, but may have another selector by then
  (the exception in `AnswerIsPresent`).
- A reference that `PreconditionCheck` accepted may be outdated when `Dispatch` uses it, after
  the await of `current_url`. A step is cancelled in Resolved, from where
  `ActionState::can_transition_to` has no such transition.
- Recovery is tried on `ResolutionFailed` only, never on `StaleElementRef`; the fresh search
  matches every live element because it compares with the role ""; `disabled=""` counts as
  enabled; `attributeRemoved` is handled nowhere; any frame event makes newly inserted
  elements stale.
- `handle_reconnect` clears the active id and not the old record's flag, so that a second
  record may keep one: `ActiveIsFlagged` claims the flag of the active record, not that it is
  the only one.
- Two locks in two orders: `switch_target`, `on_detached` and `on_frame_navigated` against
  the rest of `targets.rs` (`Inversion`).
- A wait for "load" that starts after `networkIdle` sleeps until its timeout; a url wait ends
  on any `frameNavigated` or lifecycle event.

Tools and decider:

- A plan without a daemon always panics (`client.rs:500`, a runtime inside a runtime), and so
  does a find that reaches Gemini (`ground.rs:201`, where `:154` says that it goes to Gemini
  "instead of crashing the caller"); either ends the MCP server.
- The child's pipes belong to the runtime it was spawned in, so the next tool finds them
  dead; failed spawns do not count as restarts.
- After a timeout, or an error that came after the effect, a fallback may do again what was
  done (`TwiceOnlyAfterFailure`); `press_key` always presses twice, by key events and then by a
  script, and answers "via Input" though the events' errors are dropped (`browser/mod.rs:286`;
  `main.rs:1062` describes the events only).
- A click on ref 0, which a snapshot may name, answers "clicked" without any call
  (`browser/mod.rs:147`); `select_option` drops the proxy's errors; a script that finds no
  element says so in its value, which the tools take for success; the script fallback of click
  and hover does not parse; the selected page is never invalidated.
- `npx --version` (`process.rs:151`), the connect of a call without a daemon (`client.rs:353`)
  and `grim` (`screenshot.rs:84`) have no timeout: the exceptions in `EveryToolAnswered` and
  `EveryPerceptionEnds`.
- Option texts that parse as a number are taken for the id (`types.rs:472`): of the options "02"
  and "01" the text "02" is the second (the exception in `TakenAsMeant`);
  of options with equal texts the first is taken; a find over
  several chunks honours the last answer only if its number is the id of a winner, and gives
  up when the winners exceed one question; `detect` ignores low confidence.

**Bounds.** Two calls are enough for `Requests`: the races are between a call, `mark_dead`
and one further call whose answer could be mixed up. `Transport` has one call: what
happens between calls is covered by `Requests`, which it implements. Three frames let
a frame be overtaken by two, and let attach, detach, attach of one session be permuted.
In `Daemon` a request is before or behind the gate, and two losses let a second one meet a
recovery under way. In `Socket` one process more than a pair is there
to serve while two contend. In `Executor` plans of two steps show what a step does to
its successor; `MaxDom = 2` is one DOM change, and a reference is stale or it is not;
`MaxEntries = 2` is below the number of steps, so the journal evicts. `Targets` has two
targets, two sessions, two requests besides the dispatcher and one reconnect: an inversion
needs two threads, a third can come in between; a channel of two overflows with three
events. `Live` and `Wait` have three browser events on a channel of two, for the same
reason; `live` has an iframe and a reconnect, `wait` neither, since no condition depends on
them. `Index` has two nodes (a parent and a child) and four events, reconnects and calls in
all. `Tools` has two tools in a row, so that the second finds what the first left behind,
and three deaths against a budget of three. In `Decider` a chunk has two candidates,
so five candidates have more winners than fit; there are three ids, as many as a question has
options, and two candidates share a text; the good verdict lives longer than the bad one and
than a probe, as in the code.

Deadlock is not checked where the program may stop: the daemon and the sockets end, the
frames, events, plans and tools of an instance are finite. In `Targets`, where blocking is
the question, `OnlyInversionBlocks` asks it of the threads alone.

**Fairness.** Weak fairness of the steps a task takes on its own: tokio polls a task that
has been woken, blocking workers finish decoding, a critical section ends. In
`Executor`, `Tools` and `Decider` the deadlines are fair, because `tokio::time::timeout` or a
client timeout surrounds each of the steps in question. The steps without one are not
fair: a WebSocket connect (`ServeConnectEnds`, `RecoveryConnects`, `DirectConnects`), `npx
--version` (`AskingNpx`), a look at the page and a screenshot (`LookEnds`). The dispatcher's
`select!` is biased towards the inbound channel, so that a peer which never pauses could
keep completed decodings waiting; the finite wire of `Pipeline` has no such peer. `Wait` has strong fairness of a
successful poll: a call to a browser that is alive does not fail for ever. Nothing is
assumed of the network, the browser, the service, the child, the peer's close,
signals, clients or the timer of a single call.

## 4. The proofs

Each proof module states, for each of its components, an inductive invariant (`IInv`,
`PipelineIInv`, `DeciderIInv`, ...) as a conjunction of named parts, proves
that `Init` implies it and that every action keeps it (one lemma or step per action, below it
one per part that the action can disturb), and derives the theorems from `Invariance`
(`Spec => []IInv`) by PTL. TLC checked every `IInv` on the instance of the component's
run before it was proved. The theorems hold for every value of the constants that
satisfies the assumptions named in the component's module; these say that the bounds are
numbers, that sets that have to be finite or disjoint are, and that inputs have the shape
that their parsers produce.

| Theorem | Establishes, of every instance |
|---|---|
| `ConnectionProofs`: `TypeCorrect`, `CallsAreNeverOrphaned`, `TableNeverLeaks`, `DeathDrainsTable`, `AnswersAreOwn` | the safety invariants of the run `requests`, for any set of calls, from no assumption |
| `ConnectionProofs`: `PipelineTypeCorrect`, `SequencesAreNeverLost`, `PipelineIsFIFO` | `NoSequenceLost`, and that each step is a step of `OrderedDelivery` or a stutter, for any frames, from no assumption |
| `TransportProofs`: `TransportImplementsRequests`, `TransportKeepsPromises`, `AnswersAreFromTheWire` | the refinement `RequestsSpec`; with it, the invariants of both halves in the composition; `AnswerFromWire` |
| `DaemonProofs`: `TypeCorrect`, `NoCallIsCutOff`, `StoppedDaemonIsClean` | `NoCallCutOff`, `StoppedIsClean`, for any clients, initiators and number of losses |
| `DaemonProofs`: `SocketTypeCorrect`, `ServingStaysReachable` | `ServingIsReachable` of `Socket`, for any number of daemons |
| `WaitProofs`: `TypeCorrect`, `AppliedEventsAreSeen`, `SilenceHasAReason`, `SignalsAreKept`, `StaleReferencesStayStale` | `ToldIsStale`, `SilenceIsExcused`, `SignalNotLost` and the action property `StaleStays`, for any frames, events, reconnects and capacity |
| `TargetsProofs`: `TypeCorrect`, `OldSessionsAreRejected`, `AcceptedSessionsAreLive`, `ActiveTargetIsFlagged`, `DanglingIdIsReported` | the first four invariants of the run `targets`, for any targets, sessions, requests, events and capacity |
| `TargetsProofs`: `LocksAreOwned`, `NothingElseWaits` | the fifth without `ENABLED`: a held lock has one holder, at a place that drops it; and the threads all wait only in an `Inversion` |
| `ExecutorProofs`: `TypeCorrect`, `JournalIsHonest`, `PlansOfAKeyAreSerial` | `HonestReport`, and that a key's plans run one at a time, for any workload and journal size |
| `IndexProofs`: `TypeCorrect`, `NewestAlone`, `AnswersArePresent` | `OnlyNewestIsFresh` and the action property `AnswerIsPresent`, for any nodes, requests and number of events |
| `ToolsProofs`: `TypeCorrect`, `OwnAnswers`, `SuccessMeansDone`, `SuccessIsNotRepeated` | `SuccessWasCarriedOut`, `TwiceOnlyAfterFailure` and the action property `OwnToolAnswer` of `Tools`, for any number of tool calls, restarts and deaths of the child |
| `ToolsProofs`: `DeciderTypeCorrect`, `NothingPutInItsMouth`, `GoneIsNoticed` | `SaidByService` and the action property `NoticedInTime` of `Decider`, for any tool calls, questions, ids, texts, candidates, chunk sizes, permits and lifetimes |

**The arguments.** No property is inductive alone; what the invariants add, and why:

- `Requests`. Ids are drawn once (`IdsDrawn`); `mark_dead` goes through its sections in order
  and once (`MarkOrder`); an entry carries the id of the call whose oneshot it holds, is
  in the table or the batch but not both, and its oneshot is empty (`EntriesOwned`); so is the
  one entry in the dispatcher's hand, and it is in neither (`HandOwned`); a call has
  its entry from its registration, not only while it waits (`Registered`); and after
  `mark_dead` has taken the table, only calls that will find the writer gone, and so
  remove their own entry, can be in it (`LateEntriesUnqueue`). The last is the heart: a call
  that registers too late for `mark_dead` cannot be queued, because the writer was taken
  *before* the table.
- `Pipeline`. What was taken and not dispatched is with a worker or in the buffer, in one
  place only (`InStages`); the dispatcher believes the channel closed only when nothing can
  follow (`EndOfInput`). The refinement maps the queue to the frames from `expected` on.
- `Transport`. The invariants of the halves, instantiated, carry over, because each of its
  steps is one of theirs or leaves theirs alone. `WireInv` adds that the browser only
  answers what was written, and that a filled oneshot, not only a finished call, has its
  answer among the frames dispatched so far.
- `Daemon`. Whoever notifies has left the working states for good (`ShutdownOrder`), the
  teardown's steps leave behind what the next ones rely on (`TeardownOrder`), and
  only a loss leads to a new connection (`RecoveryAfterLoss`).
- `Socket`. While a daemon serves that was alone when it bound and has answered every probe,
  the path is its own and nobody else is where a file is removed or held: past a
  probe, serving or stopping (`Undisturbed`). Whoever starts later probes this very daemon,
  hears it and is refused.
- `Live` and `Wait`. Versions only grow, but for those of the frames in a reconnect, which
  has bumped `dom_version` first (`VersionsGrow`): the order of those two steps is what
  `StaleStays` rests on. An event on the channel that concerns the reference will bump a
  version that it has (`EventsOwed`); without the DOM domain nothing is fetched
  (`DomDisabled`); only a wait past its subscription has a receiver (`Receiver`).
- `Targets`. What each thread knows between two critical sections still holds: of the event
  (`Handling`, `Streaming`), of the generation it read (`GenerationsRead`), of the generation a session is recorded with,
  which is at most the one its attach was taken up in (`SessionsDated`),
  of the ids (`KnownIds`), and of the active id while its lock is kept (`ActiveLocked`). A
  missing flag, a dangling id and an ended session each have a thread or an event
  that is about to put it right (`FlagComes`, `ReportComes`, `EndsFollow`). For the locks:
  each is in the hands of the one actor at a place with it (`LocksOwned`, where that a read
  lock is never shared needs `ActiveLocked`); a holder of one lock waits at most for the
  other, whose holder waits for the first.
- `Executor`. The working plan is at the head of its key's queue (`Queued`); frames are
  of calls that were made, sent once, and not both on the wire and carried out (`Frames`);
  the answer a plan holds is the truth about its call, and an error that is kept over a
  release the truth about the click (`Answers`); a step under
  verification has done what it had to (`Carried`); a record that cascades has made its
  plan skip (`Reported`). With these, a frame that outlives its action cannot make an
  earlier Failed or Cancelled a lie.
- `Index`. The dispatcher's step fits its event (`Phases`), ids are drawn once (`Drawn`), while
  an event that bumps `dom_version` is worked off every element is older (`Ages`): this is
  `OnlyNewestIsFresh`. For `AnswerIsPresent`: what the dispatcher holds is still true of the
  page (`Told`); a node has one element at most, on the page unless it is about to be
  dropped (`Holders`); only a node inserted for itself gets one, so that none is left behind
  when a subtree goes (`Rooted`); elements have their node's id (`Accurate`), and the
  backend map leads to an element of its node, even one that is cleared or not yet put
  (`Backends`); an element in the client's hands is stale, or on the page and asked for
  (`Client`). That a client's read may be old is harmless for this reason: what it read
  is either still so or stale when it checks.
- `Tools`. A tool that runs is at a call of its script (`Placed`). Requests are answered in the
  order of their ids, and an id on the wire is below every id still with the child
  (`Numbered`), so that the id a reader compares with belongs to its own request (`LastIsOwn`):
  this is `OwnToolAnswer`. That answer tells the truth about the call (`AnswerIsTrue`), and what a
  script does after it acted (submit, release, the wait for the page) is reached only
  afterwards (`ClosingAfterAct`): this is `SuccessWasCarriedOut`. While no acting call has
  failed, nothing that may act is left with the child except what the current call waits
  for, and a tool that was carried out has only its closing calls ahead (`DoneOnce`): this is
  `TwiceOnlyAfterFailure`. What each script contributes is `Leads`, proved stage by stage
  and script by script (`ScriptLeads`): a call leads to a call of the script or to a result; a
  success leads to a closing call if and only if the call was an act, and never from one act to
  another; an acting tool's success comes from an act or a closing call, or from the script
  that does not parse, which never succeeds.
- `Decider`. An answered request holds one decision per question, each made for the question at
  its position and with an option of it (`RequestsDecided`). The work is in what the decoding
  does for answers of any length: as many decisions are read as are whole, and when there is one
  per question the one at each position was made for it (`InOrderOf`, `InOrderOfInterval`, by
  counting, without induction), so the check of the number of decisions is what keeps
  decisions and questions together (`DecodeWhole`, `ValidIsDecided`); looking for ids first can only misread a text that parses as an id
  (`NormalizedAsMeant`). The requests under way are those of the tool (`OwnQuestions`), a find
  asks about its own chunk and has one winner per chunk before it (`OwnCandidates`). For
  `NoticedInTime`: the service has been down no longer than the verdict's age and its probe
  (`VerdictAge`), since a verdict's age is never reset by its use.

**With TLC only.**

- Liveness under fairness, which is out of the prover's reach: `DeathReleasesCalls`,
  `EveryFrameDispatched`, `AnsweredCallReturns`, `CloseReleasesCalls`, `WokenShutdownCompletes`,
  `RecoveryDecides`, `EveryStartDecided`, `EveryPlanAnswered`, `NoMissedWakeup`,
  `EveryToolAnswered`, `EveryPerceptionEnds`. The refinement theorems are about initial states
  and steps: `ImplementsFIFO` and `RequestsSpec` state no fairness.
- `OnlyInversionBlocks`: it is about `ENABLED`. `NothingElseWaits` is its core: `Waits` lists which
  lock the next step of each place asks for; that nothing but a lock can stop the steps is
  what the run `targets` adds.

Every other property of a run is stated by a theorem.

## 5. What is left out

- The drop of the last `BrowserRuntime` (its tasks hold `Weak` references), poisoned
  mutexes, failing `set_permissions`: they need a panic in a critical section or a file
  system error that no other part handles.
- `initialize`'s probes: a fixed sequence of calls without state.
- Diagnostics counters, tracing, metrics: read by nobody who decides anything.
- What `verify_step`, ranking and the page scripts compute: a choice in the models.
- The read-only IPC operations; plan validation, a pure check of its input.
- Code without a production caller: `merge_dom_ax`, `resolve_with_runtime`,
  `recover_with_runtime`, and the executor of `plan.rs`, which is unreachable behind a panic.
- `hint_resolve`, `visual_target`, `identify`, `resolve_batch`, `observe_state`: the same client
  and routing as the tools in `Decider`, without further state.
- Task files and sessions: one JSON file, read and rewritten whole by each call.
- Desktop access, screenshots, OCR, hints, Excalidraw, argument parsing: I/O without state.

## 6. What could follow

The modules were written in the order of section 2, from the transport outwards, and each
component's proofs after its runs. What remains is beyond the prover (the liveness
properties, and `ENABLED` in `OnlyInversionBlocks`) or would be new components:

1. the remaining perception tools (`hint_resolve`, `visual_target`, `identify`, `resolve_batch`,
   `observe_state`), as further kinds of `Queries` in `Decider`;
2. plans under different target names on one page: `Executor` with a page shared by two keys,
   and what then holds of `HonestReport`;
3. `initialize`'s late `track_attached` as a property of `Transport`, once the code orders it
   with the dispatcher.
