# A verification project for draad

draad gives a Rust server (axum) and a TypeScript client one typed API: `#[api]`
traits become HTTP handlers and client methods, `#[events]` traits become topics
on an event bus that reaches browsers over a WebSocket, and a session runtime
ties the calls of a client to its socket. This directory has TLA+ models of the
parts that keep state or make decisions, the TLC runs that check them on small
instances, and TLAPS proofs of what matters most about them for every size.

All line numbers refer to the sources under `src/`. `session.rs` and `mod.rs`
are those of `crates/draad/src/runtime/`, `rpc_runtime.ts`, `pipeline.rs`,
`types.rs` and so on those of `crates/draad-codegen/src/`.

To check a run: `tlc -config Session.cfg MCSession` (module and
configuration of every run are in the table below). To check the proofs:
`tlapm M.tla` for each `M` that ends in `Proofs`.

## Inventory

### Event bus (`mod.rs:24-87`)
State: one `tokio::sync::broadcast` ring of 256 frames, with a cursor for every
receiver. Operations: `new`, `subscribe` (a receiver sees what is published from
then on), `publish` (never waits, never fails). Interacts with every socket's
receiver and with every emitter. Hard: a receiver that falls more than 256 frames
behind loses the oldest ones and learns it on its next `recv` (`Lagged`).
Correct if: receivers see frames in order and once, and lose exactly what the
ring had to overwrite.

### Default WebSocket handler (`mod.rs:101-132`)
State per socket: the receiver and a frame that is being sent. One task selects
between the bus and the client. Hard: slow clients, lag, the end of a socket in
the middle of a send. Correct if: every frame is written, is being written or was
reported lost, in order and once, and a client that drains its socket goes on.

### Session runtime (`session.rs`)
State: `Conns`, a map from client id to the live connection, behind a lock; per
socket a `Conn` (an unbounded queue and a set of topics behind a lock), a task
`session_loop`, a writer task that owns the sink and a pump task that owns the
bus receiver. Operations: upgrade with an optional `?resume=` id, `bind`,
welcome, the hooks `on_connect`, `on_message`, `on_disconnect`, `unbind`, aborts;
`Conn::send`, `subscribe`, `unsubscribe`, `publish`; `Conns::get`, `send_to`;
the extractor `Caller`. Hard: sockets of one client overlap when it reconnects;
pump, loop, writer and other tasks touch the same queue and topics; the lock on
the topics is not held while the pump queues; `abort` takes effect at the next
await; a hook may panic and skip everything after it. Correct if: the registry
points at the right socket; subscribed events reach the queue in order, once, and
without silent loss; nothing is sent after an unsubscribe has returned; a closed
socket gives everything back.

### TypeScript runtime, events and frames (`rpc_runtime.ts:104-230, 291-331`)
State: the socket, the Sets of listeners by topic, buffered frames, the
reconnect timer, the client id, the onOpen handlers. Operations:
`listen` and the function it returns, `send`, `onOpen`, and the socket events
open, message (the welcome), close, and the timer. One JavaScript task runs at a
time; what interleaves are the tasks. Hard: timers that fire after the
socket was opened otherwise, listeners that come and go while no socket is open,
unlisten functions that hold on to an old Set and may be called again, ids that
arrive late. Correct if:
there is one socket, the server has exactly the topics that have listeners, the
client reconnects while someone listens, frames leave in order.

### TypeScript runtime, calls (`rpc_runtime.ts:50-73, 234-290`)
No state of its own but the observers. `call` builds a body or a query string,
calls `fetch`, and settles with a value or with one of three kinds of
`RpcError`. Hard: the network fails before, during or after the request, or in
the middle of the response. Correct if: the outcome is the truth and the
observers hear of failures.

### Code generator, API methods (`parse.rs`, `model.rs`, `types.rs`, `emit_rust.rs`, `emit_ts.rs`)
A function from a trait to a handler and a client method (`#[api]`), to an
emitter and a listener (`#[events]`), or to a route and a url builder (`#[raw]`).
Interacts with the two runtimes through what it emits: extractors, the `Conn`
it injects, routes, topics, the TypeScript signature. Hard: two renderings of
one declaration must agree, over query strings and paths that are not as
expressive as JSON. Correct if: what it accepts can be called, arguments
arrive as they were given, and the TypeScript types have the values that the
Rust types have.

### Code generator, `#[ty]` declarations (`ty_decl.rs`)
A function from a struct or enum to a TypeScript type, with the serde attributes
that it reads, ignores or refuses. Hard: serde has two sets of rename rules, one
for fields and one for variants, and the generator has one. Correct if: the
declared names are those that serde writes, or the item is refused (in some
cases it is neither, and TypeScript refuses what was generated).

### Code generator, pipeline (`pipeline.rs`, `scan.rs`)
State: the two outputs on disk, and what cargo knows of the build script: the
paths it watches and when it last ran. Operations: scan, parse (may panic at a
trait, before anything is written), render (may panic at a `#[ty]` item, when
`_generated.rs` has been written), write if changed (may fail), print directives.
Hard: sources change while the script runs; the script watches what it writes; a
run may die in a write.
Correct if: fresh means current, and the build settles.

### Macros (`crates/draad-macros`)
`#[api]` and `#[events]` expand next to their traits; `include_generated!` is
the second driver of the generator, inside rustc: it scans, splices the Rust
half, writes `index.ts`, and has rustc track the files it has listed. Hard: the
macros and the scanner read the same attributes in two ways; a crate in
rustc's cache is not expanded again. Correct if: the two readers agree, and what
is cached is current.

### Presence example (`examples/hello/src/api/presence.rs`)
State: a roster by client id behind a lock, the joined name per socket. Hooks
insert or remove, take a snapshot, and emit it, in three steps. Hard: hooks of
several sockets, and of an old and a new socket of one client, interleave.

### Page and server together
Not a file but what the runtimes promise together: the topics that the server
has for a page's socket follow those the page listens to, an event reaches its
listeners, and the page keeps one id, whatever sockets break and whichever end
notices first.

### Not modelled
- The counter example: one atomic counter and an emit. Two increments may be
  emitted in the other order; no property about it would hold.
- The rest of the example: wiring, a stateless method, an error type and
  generated output.
- The release workflow: shell and YAML that run on a hosting service, of whose
  behaviour the repository says too little.
- Of the generator: the indenting writer, the path helper and the `Bus` trait (no
  state, no decision), the text of emitted code, of doc comments and of
  `custom_ts` imports, and the order of the output. Of the macros: the
  parsing of their arguments. Logging and the wording of panics everywhere.

## Modules

| module | models | state and actions |
| --- | --- | --- |
| `EventBus` | the bus, with tokio's receiver as an external part | `log` is every frame ever published, `cursor[s]` the position of a receiver, `missed[s]` what it was told it lost. `BusPublish`, `BusSubscribe`, `BusRecv`, `BusLagged`, `BusDrop`. |
| `Feed` | the abstract specification: what a subscriber is promised | `given[s]` is what it was handed, `omitted[s]` what it goes without; `Give`, `PassOver` (not wanted), `Overflow` (overwritten), `Turn` (begins or ceases to want a topic), `Join`, `Leave`. |
| `WsHandler` | `ws_session` on the bus | `task`, `sending`, `got`; one action for every arm of the select and for the end of a send. |
| `Session` | `session.rs` on the bus | `phase[s]` is the place of `session_loop` between two awaits; `registry` is `Conns`; `subs`, `out`, `written` are the topics, the queue and its writer; `pump`, `hold` the pump task. One action for every stretch of a task between two points where others may run. |
| `RpcClient` | the socket half of `defaultRpc` | `ws`, `subs`, `pending`, `timers`, `clientId` are the variables of the closure; one action per entry point, socket event and timer. `unlistens[c]` counts the calls of an unlisten function, `evicted` has the Sets that one of another Set deleted. How long a timer waits is left out. |
| `System` | one page and the server | `RpcClient` and an instance of `Session`; `up[n]` are the frames on their way to the server, `taken[n]` how many the page has read. Socket `n` of the page is socket `n` of the server, and the page learns its id from the welcome. `heard[c]` are the events that the callback of call `c` was given, `since[c]` is the end of the log when the call began to listen. |
| `RustTypes` | the Rust types of what is sent (`types.rs`) | operators only: the layers of `Option` and `Vec` around a base, `IsPrimitive`, `IsQuerySafe`. |
| `Codegen` | the rules of the generator | operators only, over any strings and numbers: `Accepted`, `RustTypeToTs`, `ConnInject`, `Pairs`, `Extracted`; `FromQuery`, `FromJson` and `TsValues` say what axum, serde and TypeScript do. |
| `ApiCall` | one generated method, from declaration to outcome | declare, generate, call, serve, return, settle; the network may break at any time, and the event socket comes and goes. |
| `TyDecl` | `#[ty]` | operators only: what is refused, the names that are declared, whether TypeScript can read the declaration, and the names serde writes. |
| `RawUrl` | `#[raw]` | operators only: the url builder, and how browser and axum take a url apart (a second slash makes it a url of another host, `NamesHost`). |
| `Schema` | all declarations of a crate, and their two readers | `traits`, `item`, `endpoint` are built one declaration, member or segment at a time; the operators say what the scanner finds, what the macros export, what the aggregator refers to and what is served. |
| `Rebuild` | `generate` as a cargo build script | `source`, `rs`, `ts` are files, `watched`, `succeeded`, `dirty` are what cargo has; a run is six kinds of step, one of them a panic (`RenderPanics`), between which files change. |
| `MacroBuild` | `Rebuild`, or `include_generated!` in its place | `driver` is one of the two; `cached`, `expansion` are what rustc keeps. The scan is the same action for both. |
| `Presence` | the presence example on the session runtime | `members`, `at[s]`, `snap[s]`; `Join`, `Snapshot`, `EmitRoster`, `Leave` are the steps of the hooks between two locks. |
| `MCSession`, `MCRpcClient`, `MCSystem`, `MCApiCall`, `MCSchema`, `MCRebuild` | | values of constants; for `MCSession` and `MCSystem` the steps that a run leaves out, for `MCRebuild` the initial states that are like others |
| `SessionProofs`, `WsHandlerProofs`, `RpcClientProofs`, `PresenceProofs`, `RebuildProofs` (also of `MacroBuild`), `ApiCallProofs`, `SchemaProofs`, `SystemProofs` | | theorems and their proofs |

`EventBus` is extended by `WsHandler` and `Session`, `RpcClient` by `System`,
`RustTypes` by `Codegen` and `RawUrl`, `Codegen` by `ApiCall`, `TyDecl` and `RawUrl`
by `Schema`, `Rebuild` by `MacroBuild`. `ApiCall` keeps of the session runtime whether the client's id is
registered; `Presence` keeps of it that hooks of one socket run one after the
other and `on_disconnect` last.

Operators whose comment starts with "Fault:" are changes a bug could make in the
code. They are part of no specification; the list of mutants in `PROJECT.json`
names the property that tells each of them from the code.

History variables and components (`mark`, `missed`, `lastBound`, `asked`,
`posted`, `runs`, `joined`, `evicted`, `overlapped`, `reruns`, `heard`, `since`, and
`turned` of `Feed`) are read by properties and bounds only, but for `asked` and `posted`,
from which `System` takes the frames that a step of the page has sent.

### Refinement
`WsHandler` and `Session` each instantiate `Feed` under a refinement mapping and
have `FeedSpec`, safety and fairness, checked as a property. In `WsHandler` a
subscriber wants every topic, and has been given what was written. In `Session` it
wants the topics of its `Conn`, and has been given the events in its queue. The pump lets go of the
lock on the topics before it queues a frame, so a frame may be handed over
after its topic was dropped: `Feed` allows that for frames published before (`turned`),
and for no others. With `Feed`, order, no repetition and exact loss are one
statement instead of one property each.

### Composition
`System` leaves both components as they are: every action is one of `RpcClient`
or `Session` joined with what it does to the wire, and what one end does is a
guard at the other. The upgrade carries the id that `openWs` put into the url; a
socket opens once the server has accepted it (the 101 response may arrive before
`session_loop` has run, but what the page then sends waits for the loop all the same); a break is noticed by `Closes` at
the page and by `StreamEnds` or `WriterFails` at the server, in any order. The
application's hooks leave topics alone, so that the page alone decides them.

### Declarations
`Schema` compares the two readers of a crate. Files may share a stem, lie
deeper, or be skipped; modules may be inline; names may clash across traits and
kinds. `ClientMatchesServer` says: if both rustc and TypeScript accept the
result, the client reaches exactly what is served, and each call the trait
that declares it. It has two hypotheses, both needed: attributes are spelled as
the scanner expects, and at most one trait repeats its namespace key.

## Runs

| run | module, configuration | what it shows |
| --- | --- | --- |
| `ws_handler` | `WsHandler`, `WsHandler.cfg` | `LostOnlyByLag` (every passed frame was written, is being written, or was reported lost) and `FeedSpec`. |
| `session` | `MCSession`, `Session.cfg` | On one socket: `NoSilentLoss`, `UnsubscribeIsFinal`, `FeedSpec`, and under fairness `TornDown` and `Delivered`. On two: `RegistryIsLastBinder` (a late disconnect never takes the entry of a resumed session), `NoDanglingEntry` (only a panic lets an entry outlive its socket). |
| `rpc_client` | `MCRpcClient`, `RpcClient.cfg` | `OneSocket`, `ServedOrScheduled`, `ListenerReachable`, `SendsInOrder`, `HandlersRunPerSocket` (exactly how often a handler of `onOpen` runs for a socket). |
| `system_topics` | `MCSystem`, `SystemTopics.cfg` | `TopicsFollow` (with all frames under way read, the server has the page's topics), `OneIdentity` (every id the page is given is the one it has), `OwnIdIsAddressable` (by that id the server finds the page's newest socket, with one exception), and under fairness `SubscriptionsConverge`. |
| `system_events` | `MCSystem`, `SystemEvents.cfg` | From `publish` to the callback: `HeardInOrder` (a callback is given events as they were published, and none twice, when its socket breaks and another one comes, too), `NothingSlips` (while it listens and is not cut off, each event for it was heard, is on its way or was lost to lag), and under fairness `EventsReachListeners`. |
| `presence` | `Presence`, `Presence.cfg` | `NoGhostMember` in every case; `JoinedIsMember` and `SnapshotShowsOwnChange` for clients whose sockets never overlapped. |
| `api_call` | `MCApiCall`, `ApiCall.cfg` | `ArgsArrive`, `AcceptedIsCallable` and `SignatureIsExact` (the last two apart from a `Vec` in a query string and a `Vec` of an `Option`), `OutcomeIsTrue` (a failure is an `RpcError` that was observed, with one exception, named below). |
| `rebuild` | `MCRebuild`, `Rebuild.cfg` | `FreshMeansCurrent`, `CachedMeansCurrent`, `SettlesSoon` (after the last disturbance the macro expands once, the script runs twice at most), and under fairness `Quiesces`, for both drivers. |
| `schema` | `MCSchema`, `Schema.cfg` | `ClientMatchesServer`, `TyMirrorsSerde` (the declared names are serde's, or the declaration does not parse, and which is when), `UrlRoundTrips` (urls carry their arguments, if a catch-all is given a path), `OnlyPathsArrive` (they carry nothing else). |

`TypeOK` is among the invariants of a run, or, for `Presence` and `ApiCall`, of
a theorem (`TypeCorrect`, `CallTypeCorrect`). Three more runs show where the code and what is written about it disagree;
each checks the written claim, and TLC shows a behaviour that breaks it.

| run | the claim | the behaviour |
| --- | --- | --- |
| `session_resume_race` | `ids()` has every connected client, and a reconnect is not clobbered by the old socket (`session.rs:209, 177-179`): `NewestIsAddressable` | The old socket's task reaches `bind` after the new one's, overwrites its entry, and removes it when it closes. |
| `api_query_vec` | what does not round-trip in a query string is rejected, `Vec<primitive>` does (`types.rs:170-174`): `QuerySafeIsCallable` | `serde_urlencoded` has no sequences; every call with a `Vec` parameter is answered with 400. |
| `rpc_client_unlisten_twice` (`RpcClientUnlisten.cfg`) | the function that `listen` returned stops the server when the last listener is gone (`rpc_runtime.ts:311`): `OnlyLastListenerStops` | The first call is unlistened, another call listens on the topic, and the first is unlistened again: its old Set is empty, so the topic's new Set is deleted and an unsubscribe frame sent. Nobody notices, and the new listener hears nothing more. |

The properties of the passing runs say all that does hold beside these cases:
`RegistryIsLastBinder` instead of `NewestIsAddressable`; `HasQueryVec` is excepted
in `AcceptedIsCallable`; `ListenerReachable` excepts a Set that was evicted when an
unlisten function had been called again. `OwnIdIsAddressable` says how much of
`NewestIsAddressable` a page can rely on. A page that reconnects only after it has
read its welcome is safe, since the server sends that after `bind`. But if it
lost a socket before the welcome, with an id to replay from an earlier
one, the task of the lost socket may still be on its way to `bind` when the next
socket is bound: the race of `session_resume_race`, reached by a page's own
reconnects. The property excepts exactly that.

Some properties of the passing runs state what the code does where a comment promises,
or a user expects, more. They say both halves, so that neither what holds nor what does
not can change unnoticed:
- `HandlersRunPerSocket`: "exactly once per socket" (`rpc_runtime.ts:174`) holds for a
  handler that came before the socket opened. One that comes while the socket is open
  runs at once (`:326`) and, if the welcome is still to come on a fresh connect,
  once more with it: twice for one socket.
- `OutcomeIsTrue`: "every failure path constructs an `RpcError`, fires the global
  `onError` observers, then throws" (`:257-259`). If the body of a response that is not ok
  breaks off, `res.text()` (`:272`), which is in no `try`, rejects with a `TypeError`, and
  no observer hears of it. The property says that this is the only such path.
- `TyMirrorsSerde`: "the build fails loudly instead of silently emitting wrong TS"
  (`ty_decl.rs:14-16`). Keys are written without quotes (`:67`), so those with a hyphen
  (kebab-case, or a rename) do not parse, and neither do a struct with no field left
  (`:82-84`) and an enum without variants (`:117`). Nothing panics; it is TypeScript that
  objects. The property says that exactly these do not parse, and that what parses
  has serde's names.
- `UrlRoundTrips` and `OnlyPathsArrive`: a catch-all is put into the url as it is
  (`emit_ts.rs:204`). A path arrives; a text with a question mark, an escape, or `.` or `..`
  between slashes does not, nor one that begins with a slash at the root of the
  url (`//x` is host `x` to a browser).

### Bounds
- WsHandler: two sockets, a ring of two slots and four frames: either socket can
  overflow, both can be behind at once, and one can join or leave in mid-stream.
- Session: `session` has one socket with a topic, a ring of one slot, three events and one
  direct send, or two sockets that are sent nothing but their welcome. On one socket the pump
  can lag twice, before and after it has delivered something; sockets share nothing but the bus
  and `Conns`, receivers do not affect each other, and events play no part in `Conns`. Two
  sockets can fight over one id or have one each; more of either are the theorems
  `RegistryCorrect` and `NoEntryDangles`. `MCNext` is `Next` without the other steps.
- RpcClient: three sockets (two are lost, so a reconnect is itself lost), two
  topics of which one has two listeners, two frames, and two calls of each unlisten
  function. The last socket the bound allows is never closed.
- System: two sockets of which the first may break, at either end, before,
  during or after anything. `system_topics` has two inputs (listens and sends together)
  and calls unlisten functions again while the first socket lasts. The exception in
  `OwnIdIsAddressable` takes a third socket (one to learn the id from, one that is lost
  early, one that overtakes it); beyond two the property rests on the theorem
  `OwnIdAddressable`. `system_events` adds the bus (a ring of one slot, two events, so
  that one can be lost) and four inputs. While the first socket lasts, two calls on one
  topic come and go, so that one begins or ceases to listen while the other goes on. Once
  it breaks, the run keeps to one call that listens throughout, no hook
  panics and no closing handshake, so that events from before and after the change of
  sockets meet in one callback. `TopicsNext` and `EventsNext` are `SystemNext` without the
  other steps; every step they leave out is one that nothing obliges anyone to
  take, so fairness means the same. The theorems are for `SystemNext` and any number of sockets.
- ApiCall: two parameters let a `Conn` and wire arguments, or two kinds of
  arguments, meet; values are two per primitive and arrays up to two elements,
  with the empty string, zero and the empty array among them. The theorems of
  `ApiCallProofs` are for any of these.
- Schema: two traits, since every clash is one of two; two fields or variants,
  so that one can be skipped or flattened beside another; three segments, so
  that a parameter can stand before, between and after static ones; among the texts are
  those with slashes at either end, dots, percent and question marks, and an escape. The theorems
  of `SchemaProofs` are for any number of each, and for identifiers and texts of
  any length.
- Rebuild: two files, so that one changes after and one before it is read;
  three disturbances (edits, removals, deaths), so that one can hit a run,
  the next one the run that repairs it, and the third the run after that. Of crates to begin
  with that differ by a renaming of files or parts, one is enough (`MCRebuild`).
- Presence: three sockets over two clients: one client overlaps with itself while
  another one joins or leaves.

`MaxPublish`, `MaxDirect`, `MaxSockets`, `MaxSends`, `MaxUnlistens`, `MaxInputs`, `MaxParams`,
`MaxMarkers`, `MaxTraits`, `MaxMembers`, `MaxSegments` and `MaxDisturbances` are
guards that the code does not have. Systems stop at them, and clients may
disconnect for good, so deadlock is not checked.

### Fairness
- `WsHandler`, `Session`: tokio runs every task that can run, hooks return (or
  panic), and a connected client drains its socket, so that a started write ends.
  Nothing makes a client connect, send or close. Weak fairness is enough, since a
  task that can go on stays able to. Fairness of `PumpAborted` and
  `WriterAborted` is tokio's promise that an abort takes effect at an await.
- `Feed`: a member is served while something is due to it.
- `System`: timers fire, a connection attempt ends, frames on a socket that lasts
  arrive, the server's tasks run, and a broken socket is noticed at both ends
  once one end is done with it. Nobody has to listen, to publish or to break a socket.
- `MacroBuild`: a developer builds again while cargo or rustc finds something to
  do, and a running generator goes on. Edits and deaths are not fair.
- `RpcClient`, `Presence`, `ApiCall` and `Schema` by themselves have safety
  properties only: nothing obliges a browser to deliver, or an application to call.

## Proofs

Each module of proofs is about one module, for any values of its constants under
the named assumptions there; sizes, rings and bounds are arbitrary.

`SessionProofs`
- `TypeCorrect`: `Spec => []TypeOK`, with one lemma per group of actions.
- `RegistryCorrect`: `Spec => []RegistryIsLastBinder`. `unbind` compares
  `ConnId`s, so it can remove a stranger's entry if two sockets share one. The
  inductive invariant `DirInv` therefore has `ConnIdsUnique` (accepted sockets
  have distinct ids below `NEXT_CONN`), `NamedOnceAccepted` (an accepted socket
  has a client id), `EntriesHaveOwners` (an entry's socket has that client id and has
  bound it) and the property. The one delicate step is `Unbind`.
- `NoEntryDangles`: `Spec => []NoDanglingEntry`, from `DirInv`.
- `LossIsNeverSilent`: `Spec => []NoSilentLoss`, and `UnsubscribeFinal`:
  `Spec => []UnsubscribeIsFinal`. The invariant `Delivery(s)` is about one
  socket, and each lemma about one kind of step and one socket: queued events were published
  (`QueuedWasPublished`), a receiver has a pump that runs (`ReceiverHasPump`),
  the pump has no frame in hand when it is not filtering or sending one (`EmptyHand`),
  what it sends is wanted, or was when it was published (`SendingWasWanted`), and the
  two properties. An unsubscribe moves
  `mark` to the end of the log, which is why nothing that the pump holds can be
  newer than it.
- `SessionImplementsFeed`: `Spec => Feed!Init /\ [][Feed!Next]_(Feed!vars)`, the
  safety part of `FeedSpec`. The mapping reads what was given off the queue,
  so the first lemmas are about that: `Numbering` numbers the events in a
  queue in their order, and `EventsOutAppend` says that to queue an event extends the
  list by it and to queue anything else leaves it. `ServingInv` adds to the
  invariants above that a socket starts with an empty queue, that the receiver
  has passed what is queued (`QueuedWasPassed`), and that the frame in hand is not queued
  yet (`HandIsNew`). Then accepting a socket is `Join`, the end of the pump is
  `Leave`, `subscribe` and `unsubscribe` are `Turn` or stutter, `Lagged` is `Overflow`,
  the filter that drops a frame is `PassOver`, the pump's send is `Give`, and `recv`,
  direct sends, the welcome and the writer stutter.

`WsHandlerProofs`
- `TypeCorrect` and `LossIsAccounted` (`LostOnlyByLag`). `TypeOK` is not
  inductive: `IInv` adds that a receiver exists just while its task runs, that a
  task that was never started has written nothing, that the frame in hand is not among
  those written, and `LostOnlyByLag`.
- `ImplementsFeed`: `Spec => Feed!Init /\ [][Feed!Next]_(Feed!vars)`, the safety
  part of `FeedSpec`. From `IInv` the lemma `DueIs` computes what is due to a socket
  (the frame in hand and those from its cursor on), after which every step is a
  step of `Feed` or a stutter: the end of a send is `Give`, `Lagged` is `Overflow`,
  `recv` stutters.

`RpcClientProofs`, in four arguments, of which the later ones use the first
- `OneSocketAtATime`: by `SocketInv`, `ws` is the newest socket and is not closed.
- `ListenersReachable`: `ListenInv` ties a call's Set to the topic's: it is the
  topic's, or was evicted, and Sets are apart by topic. Unlisten functions may be called any
  number of times, and the step that evicts a Set is shown to be such a repeated call. The theorem
  assumes `OwnHandlers` (no two calls on one topic pass the same callback):
  otherwise the Set holds one entry for two calls, and the first unlisten takes it
  from both. The run gives every call a callback of its own.
- `NeverAbandoned`: by `TimerInv`, there are no more timers than closed sockets, and the one
  that unlisten clears is not needed.
- `SendsOrdered`, by the numbering of frames; `HandlersCounted`
  (`Spec => []HandlersRunPerSocket`), by `OpenInv`, which says of every socket
  whether it is released and how often a handler has run for it; and `TypeCorrect`.

`PresenceProofs`
- `TypeCorrect`; `NoGhosts` (`NoGhostMember`, inductive by itself); `JoinedAreMembers`
  and `SnapshotsShowOwnChange`, from `RosterInv`: two sockets of one client
  at a time are known as an overlap, a socket that joined has a name, and one that
  left has taken its entry away.

`RebuildProofs`, first on the build script alone
- `TypeCorrect`.
- `FreshCorrect`: `Spec => []FreshMeansCurrent`. The property speaks of idle
  states; `IInv` says what a run knows on its way there: a file that was read, or not
  listed, and is not dirty has the text that the run knows (`ReadIsCurrent`); an output
  that was written and is not dirty is rendered from those texts; and cargo has
  been told of the source directory before anything is read. That everything
  watched is clean then closes the chain from the disk to the outputs.
- `SettlesCorrect`: `Spec => []SettlesInTwo` (at most two runs after the last
  disturbance, if the generator does not panic). `SInv` adds what the first and
  the second run after the last disturbance find: the first reads the present
  texts and leaves both outputs right, the second finds them so, changes
  nothing, and leaves nothing dirty, so that no third one can start.

then on both drivers
- `BuildTypeCorrect`, and `BuildSettles`: `BuildSpec => []SettlesSoon`. With a build
  script every step is one of `Rebuild`'s (`ScriptConforms`), whose lemmas are cited. With
  the macro `ExpansionInv` takes their place: once is enough, because an expansion that began
  after the last disturbance leaves nothing dirty that rustc tracks.
- `ExpansionCorrect`: `BuildSpec => []CachedMeansCurrent`. A cached crate comes from an
  expansion that went to its end; what that expansion knew of every clean
  file is the file's text; what it spliced and wrote was rendered from those.
  That no file was added is a hypothesis of the property, since rustc does not
  watch the directory.

`ApiCallProofs`, for any types, and any number of parameters and markers
- `CallTypeCorrect`, and `OutcomeIsTheServers`: `Spec => []OutcomeIsTrue`. `CallInv`
  says what is known while the call is open: observers have heard nothing until
  it settles (`ToldAtTheEnd`), and a response that is being read is the server's, whole
  (`ResponseIsWhole`). That a failure without an `RpcError` comes of an answer that is not ok
  is part of the statement.
- `ArgumentsArrive`: `Spec => []ArgsArrive`, and `AcceptedCallable`:
  `Spec => []AcceptedIsCallable`, for bodies and query strings. `ArgsInv` follows
  each argument from the request into the extractor: what was built was accepted, the
  request has every argument where its verb puts it, and once the server handles the
  call each parameter `Arrived` or is refused. `QueryRoundTrips` is the lemma about
  query strings: of the types that `IsQuerySafe` lets through, all but `Vec` come back
  as they were sent, a missing key as `None`. It needs that different numbers have
  different texts (`NumbersAssumption`).
- `SignatureExact`: `Spec => []SignatureIsExact`. A type is a list of `Option` and
  `Vec` around a base, and its values, its JSON and its TypeScript alternatives are each defined
  by recursion along that list. Without a `Vec` directly around an
  `Option` the layers are some `Option`s around some `Vec`s. From the base outwards
  each `Vec` then adds its brackets to a single alternative (`VecAlternative`) and each `Option`
  adds `null` to the union (`OptionAlternative`), as they add to the values that serde
  writes (`Exactness`).

Here and in `SchemaProofs` statements about recursive functions and folds are proved by
their least counterexample: a property that fails for some number fails for a least one
(`LeastOf`, from the library's theorem that `<` is well-founded), and that a recursive
function exists is proved in the same way, since a definition by `CHOOSE` only says
what follows if one does.

`SchemaProofs`
- `TwoReadersAgree`: `Spec => []ClientMatchesServer`, for any number of traits. The
  aggregator's reference to a scanned trait names that trait and no other
  (`ReferencedIsItself`), whatever it names has itself been scanned
  (`ReferencedIsScanned`), and fields that TypeScript accepts are distinct
  (`FieldsApart`), so what overwrites nothing reaches what is mounted.
  `TraitsAssumption` gives namespaces the type that they have in an attribute.
- `TypesMirrorSerde`: `Spec => []TyMirrorsSerde`, for items of any size and identifiers of any
  length in the style of their kind (`IdentsAssumption`: snake case for fields, Pascal case
  for variants). serde has two sets of rename rules and the generator one,
  which first takes an identifier apart and puts it together again:
  `FieldStyle` and `VariantStyle` say that an identifier in its style is what this
  leaves alone, so that the rules agree. `FlattenMembers` says which names a list of
  members, some of them skipped or flattened, has. What TypeScript can read
  follows from the names alone, and the names being equal, from serde's.
- `UrlsRoundTrip`: `Spec => []UrlRoundTrips`, for templates of any length and any
  texts (`TextsAssumption`: what encoding makes of a character is no character of a text,
  but for the escape of a slash, which a text may hold by itself).
  `SegmentsOfSlashed` says that a path put together from pieces without slashes is
  taken apart into those pieces, `DotsStay` that the browser resolves no segment of it,
  `PieceOfArgument` that an encoded argument is such a piece and decodes to the
  argument; `RestIsText` is about the tail that a catch-all takes, `UnencodedText` about its
  characters, and `SecondOfSlashed` about the second one of the url, which must not be a slash.

`SystemProofs`, on the composition
- `PageConforms` and `ServerConforms`: a step of the system is a step of `RpcClient`
  or leaves the page alone, and likewise for `Session`. The theorems of both
  modules therefore hold in the system, for `BusAssumption` and the assumptions of
  `RpcClient`, and are cited below. In the system an application emits events and sends
  nothing directly (`MaxDirect` is 0).
- `TopicsFollowed`: `SystemSpec => []TopicsFollow`. `AskedInv` is about the page (what
  it has asked for on an open socket adds up to its topics), `FollowInv` about
  the way (what the server has and what is under way add up to what was asked). A
  frame is taken off one side and applied on the other in one step.
- `IdentityIsOne` and `OwnIdAddressable`: `IdentityInv` says that a welcome carries the
  id its socket goes by (`Carries`), that a socket replays the page's id if the page has
  one (`Replays`), and that a newer socket binds after every older one whose welcome was read
  (`NewestBindsLast`). `RegistryCorrect` of `Session` then gives the entry.
- `HeardOnceInOrder`: `SystemSpec => []HeardInOrder`. On one socket this is `OrderInv` of
  `SessionProofs`: queued events are in order, and the one in the pump's hand and
  those that the receiver has yet to pass are newer. Across sockets, `HeardInv` says that whatever was
  heard is older than all that the page's newest socket has yet to bring
  (`NewestIsNewer`): its receiver starts at the end of the log, and a callback is
  only ever given what the newest socket brings.
- `NothingSlipsThrough`: `SystemSpec => []NothingSlips`. `LossIsNeverSilent` accounts for
  every event up to the queue; `ReadInv` for the rest: of the frames the page has read, those for
  a call that listens, is not cut off, and has listened since before they were published,
  were given to its callback. It assumes `OwnHandlers`, as `ListenersReachable` does, which it cites.

Every safety property that a passing run checks is thus stated by a theorem, but for
`OnlyPathsArrive`, of which only its counterpart `UrlRoundTrips` is proved.
Otherwise model-checked only is liveness (`TornDown`, `Delivered`, `Quiesces`,
`SubscriptionsConverge`, `EventsReachListeners`, and the fairness of `FeedSpec`): the
prover does not reason about fairness and `ENABLED`.

## What the models leave out

- tokio, axum, serde, the browser, cargo, rustc and TypeScript are modelled by what
  the code relies on, and are marked external in the map.
- Payloads, topic names and ids are opaque; JSON that cannot be parsed is a frame
  that changes nothing.
- Cargo's clock: a write is "after the start of the run" or not; that mtimes have
  a limited resolution is left out.
- How long a reconnect timer waits: it may fire whenever it is set.
- Of the Rust types, `String`, `i32` and one named type stand for the rest: `bool`, the other
  numbers, `()` as `void` and the types that are passed through by name (`types.rs:31-58`).
- That the text the generator renders is Rust: the macro reports it if it is
  not (`draad-macros/src/lib.rs:387-392`), after `index.ts` has been written.
- Identifiers beyond ASCII, where `to_lowercase` and serde part (`ty_decl.rs:213-214`).
- Handlers in the TypeScript client do not throw and do not call the client
  from inside a callback. In the code a listener that throws keeps the others
  of its topic from being called for that frame (`rpc_runtime.ts:202`).

Known differences between code and text, and limits of the code, beside those of
the runs above.

Runtime:
- A frame may be queued before the welcome, which the module calls the first
  frame (`session.rs:15, 375-380`).
- The jitter comes after the cap (`:211`): a delay may exceed `maxReconnectDelayMs` by
  a fifth, where `:100` calls it a cap on the backoff and `:112-113` say "backoff + jitter
  (capped at `maxReconnectDelayMs`)".
- Status 0 is documented as "never reached the server" (`:60`) while the server
  may have run the method.
- Presence: a late `on_disconnect` removes the member that a resumed session has put
  there (`presence.rs:108, 125`), and the older of two snapshots may be broadcast
  last (`:70`).

API methods:
- `Vec<Option<T>>` becomes `T | null[]` (`types.rs:44`); `SignatureIsExact` excepts it.
- The message for raw path parameters asks for a primitive where `Option` and `Vec`
  are accepted (`parse.rs:134-142`), and a parameter of the template need not be
  declared.
- `&mut Conn` is accepted as an injected parameter (`parse.rs:232`) but the handler
  passes a shared reference.
- Path values that are empty, `.` or `..` do not round-trip (`Carried`).

`#[ty]`:
- A unit struct becomes `Record<string, never>` while serde writes null; raw identifiers
  become keys that TypeScript cannot parse.
- A rule that serde does not know panics only where a member has no name of its own
  (`:221`).
- Variants with leading underscores differ under PascalCase and camelCase.
- `rename(serialize = ...)`, `skip` on a variant, `skip_serializing_if`, `tag` and
  `transparent` are ignored.
- Of two items of one name in different modules, the first one wins.

Scanner and macros:
- An attribute that was imported under another name is invisible to the scanner; of a
  repeated namespace key the scanner takes the first and the macro the last.
- Nested files with one stem are taken for one module.
- The comment in the macro says that `index.ts` gets a new mtime on every run
  (`draad-macros/src/lib.rs:400-403`), which `write_if_changed` avoids; a new file
  in `src_dir`, or a removed `index.ts`, is not noticed until something else
  makes rustc expand the crate again.

## Plan

Done, in this order: `EventBus`, `WsHandler`, `Session`, `RpcClient`, `Presence`
(the runtime, where the concurrency is), `SessionProofs`, `Codegen` and
`ApiCall`, `Rebuild` and `RebuildProofs`; then `Feed` and the refinements,
`System`, `MacroBuild`, `TyDecl`, `RawUrl` and `Schema`; then the remaining modules
of proofs, `SystemProofs` after the ones it cites; then delivery along the whole way, and the
recursive functions and folds of `Codegen`, `TyDecl` and `RawUrl`.

What remains, in order of worth:
1. To model: a page that is loaded with an id in its session storage and then
   duplicated, so that two pages replay one id, and callbacks that call the client
   from inside a callback.
2. To model: the attributes that the generator ignores (`tag`, `rename(serialize)`,
   `skip_serializing_if`), of which the list above only tells.
3. To prove: liveness, once a prover for it is at hand.
