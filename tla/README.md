# A verification project for blit

blit runs terminals and Wayland applications on a server and shows them to any
number of browsers, terminals and agents at once. This directory holds TLA+
models of the parts of the server where concurrency, failure and ordering
matter most, the TLC configurations that check them on small instances, and
TLAPS proofs for every size of instance. Paths below are relative to the
repository root.

- `*.tla` that do not start with `MC`: a component, its abstract specification
  (`ChannelPipes`), or proofs about it (`*Proofs.tla`).
- `MC*.tla`, `*.cfg`: instances for TLC.
- `PROJECT.json`: components, runs, the map from definitions to source lines,
  hazards, findings, mutants, theorems.

Run a configuration with `tlc -config MCKvStore_live.cfg MCKvStore`, check the
proofs with `tlapm KvStoreProofs.tla`.

Contents: 1 the system; 2 the modules and how they compose; 3 to 11 one section
per model; 12 runs and bounds; 13 fairness; 14 where code and documentation
disagree; 15 proofs; 16 what is not modelled, and what is planned.

## 1. The system

One server process (`crates/server`) listens on a socket. A connection is one
client; each has a task that handles its messages one at a time, an outbox
(a FIFO drained by a writer task) and state in a shared `Session` behind one
fair async mutex. Clients speak a binary protocol (`crates/remote`) directly,
or through the gateway, the proxy, SSH or a WebRTC forwarder.

| Component | State | Operations | Talks to |
|---|---|---|---|
| Key-value store, `server/src/kv.rs` | map of entries, byte total, subscriptions with unacked windows, queue of write jobs, the database | put, delete, fetch, open (snapshot and live updates), stop, ack; writer thread; load at start | connections, supervisors (desired state lives here) |
| Terminal delivery, `server/src/lib.rs` | per PTY: parser, dirty flag, ready frames; per client: subscriptions, lead, diff bases, epochs, scroll offsets and caches, windows, deadlines | the delivery tick; subscribe, unsubscribe, focus, scroll, resize, input, ack, disconnect | PTY readers, client outboxes |
| Surface delivery, `lib.rs`, `surface_encoder.rs` | per client and surface: encoder, flags of the task that runs, newest waiting frame, keyframe debt | encode, create, rebuild, subscribe, resize, fall back | compositor, audio |
| PTY lifecycle, `lib.rs`, `pty/pty_unix.rs`, `journal.rs` | PTYs, descriptors, tables of pids, reader threads; ring of commands, waiters | create, close, restart, kill, deadline, exit; OSC 133 markers, wait for a record | terminal driver |
| Channel fabric, `channel.rs` | listeners, paired handles with byte credit, name watches, ids that drain, global reservations | listen, watch, connect, data, ack, close, teardown of an endpoint | every connection, extensions |
| Native processes, `process.rs` | children, watchers, stdin cursor, output credit, termination stages | start, attach, stdin, ack, signal, detach, reap | connections, extension jobs |
| Network relay, `net.rs` | sockets, per-stream and aggregate windows | connect, data, ack, close | connections |
| Event ring, `events.rs` | bounded journal, live streams, file streams | append, dump, follow | everything that records events |
| Extension jobs, `extension_jobs.rs` | pending and active permits by endpoint, family and server | admit, activate, cancel, release | extensions |
| Extension store and catalog, `extension_store.rs`, `extension_catalog.rs` | uploads, objects, pins, desired state, command directory | upload, commit, evict, pin, publish | extensions, journal, key-value store |
| Media leases, `media_input.rs`, `audio.rs` | microphone and camera leases, fragments | acquire, renew, release, reassemble | compositor portals |
| Connection registry and fetch gate, `lib.rs` | admitted connections, sealed flag; in-flight fetches | register, seal, cancel, wait; dispatch, complete | main, file sync |
| File sync, `crates/fssync` | shared roots, shadows of what clients hold | open, reconcile, write, read, close | connections |
| Git, LSP, language services | caches and children | requests | connections |
| Wire protocol, `crates/remote` | none (pure) | build and parse messages, frame diffs | all |
| Terminal driver, `crates/alacritty-driver` | grid, scrollback, modes | feed, snapshot, resize | PTYs |
| Compositor, desktop services | Wayland objects, portals | protocol requests | applications, surfaces |
| Gateway, proxy, WebRTC forwarder, SSH | connection pools, peer sessions | bridge streams | clients |
| Supervisors, `extensions/muster`, `extensions/session` | unit phases, backoff, dependency graph | start, stop, restart, reload | key-value store, processes |
| CLI, browser client, fonts, web server, vendored code | see `PROJECT.json` | | |

**How they interact.** Handlers mutate `Session` under its lock and wake the
delivery task; the task's tick is the only sender of terminal frames, and it
releases the lock inside, once between parsing and snapshots and once around
every diff. The tick also starts encode and creation tasks for surfaces, which
send video frames and take the lock again when they end. The store, the fabric,
the process table, the relay and the event ring each have a lock of their own,
are called by the connection tasks and push into outboxes. Threads exist where
the work blocks: the database writer, PTY readers, process reapers, encoders.

**What is hard, and what makes each part correct.**

- *Key-value store.* Memory is ahead of the disk; a watch is registered before
  its snapshot is sent; DURABLE replies and echoes come from the writer thread
  later than the mutation. Correct: watches converge to the map; a confirmed
  DURABLE mutation survives any crash; the disk is a prefix of the history;
  the byte total does not drift; every DURABLE request is answered.
- *Terminal delivery.* Diffs are built from a base captured before the lock is
  dropped; parked (scrolled) views have a second base; clients differ in speed;
  synchronized updates are queued, and sent ahead of the screen. Correct: the base is
  what the client shows; every client ends up with the current screen, and none
  is shown an older picture after a newer one.
- *Surface delivery.* An encode or the creation of an encoder runs for seconds
  without the lock while the subscription, the size or the picture change.
  Correct: no frame of an old encoder is taken for the new stream's, and the
  last picture of a surface that goes still arrives.
- *PTY lifecycle.* Exit, end of output, restart and close race; descriptors and
  pids are numbers that come back. Correct: no cleanup or signal meets another
  child than its own; exits are announced; closed children are waited for.
- *Channel fabric.* Closing from both sides with data in flight, ids reused
  after draining, budgets held by queued frames. Correct: cumulative acks on
  message boundaries, no frame of an old channel on a reused id, every
  reservation returned once.
- *Processes.* Termination in stages with watchers coming and going. Correct:
  exit after all output, no child without an owner, stdin in order.
- *Relay, jobs, registry.* Two-level credit and permits released on every path;
  a shutdown that misses nobody and ends.
- *Event ring.* A snapshot and a live subscription that must meet without gap or
  overlap; a channel that forgets. Correct: every record held or counted.
- *Store, fetch gate, proxy, file sync, supervisors.* See section 16.

`PROJECT.json` lists the hazards at their lines, with the property that would
catch each, or why none does yet.

## 2. The modules

| Module | Models | Checked by |
|---|---|---|
| `KvStore` | kv.rs, its writer thread and the disk | `MCKvStore` |
| `KvStoreProofs` | theorems about KvStore | TLAPS |
| `TerminalDelivery` | the terminal half of the tick, and the handlers between its parts | `MCTerminalDelivery` |
| `TerminalDeliveryProofs` | theorems about TerminalDelivery | TLAPS |
| `ChannelFabric` | channel.rs with the outboxes and their writers | `MCChannelFabric` |
| `ChannelPipes` | abstract: what a pair of handles promises its two sides | refined by ChannelFabric (`ImplementsPipes`) |
| `ChannelFabricProofs` | theorems about ChannelFabric | TLAPS |
| `NetRelay` | the TCP half of net.rs | `MCNetRelay`, `MCServices` |
| `NetRelayProofs` | theorems about NetRelay | TLAPS |
| `Connections` | the connection registry and shutdown, with extension_jobs.rs | `MCServices` |
| `ConnectionsProofs` | theorems about Connections | TLAPS |
| `ProcessLifecycle` | process.rs: admission, spawn, termination, both shutdowns | `MCServices` |
| `ProcessStreams` | process.rs: stdin, output, watchers of one child | `MCServices` |
| `ProcessProofs` | theorems about ProcessLifecycle and ProcessStreams | TLAPS |
| `PtyLifecycle` | a terminal's child, descriptors and pids | `MCServices`, its own cfgs |
| `PtyLifecycleProofs` | theorems about PtyLifecycle | TLAPS |
| `EventLog` | events.rs and one stream of it | `MCServices` |
| `EventLogProofs` | theorems about EventLog | TLAPS |
| `Sums` | the sum of a function, for NetRelay and EventLog | with them |
| `SurfaceDelivery` | the surface half of the tick and its tasks | `MCServices`, its own cfgs |

*Composition.* `Connections` composes the registry with the jobs of extension
connections, whose drain a leaving connection waits for. `ChannelFabric`
composes the fabric with every connection's outbox, writer and failure, and is
shown to implement `ChannelPipes`. `MCServices` is not a composition but a
union: it puts seven modules that share no state behind one state variable
that says which of them runs, so that one run checks all of them; their
variables stay at their initial values in the behaviours of the others.

## 3. KvStore (`crates/server/src/kv.rs`)

One action is one critical section of the store lock, or one step of a task
between two of them.

| Module | Code |
|---|---|
| `entries`, `total`, `subs` | `StoreInner.entries`, `total_bytes`, the `KvSub` of every connection |
| `queue` | the channel into the writer thread |
| `batch`, `cur`, `wstate`, `commitOk`, `txn` | locals of `writer_loop` |
| `disk`, `hard` | the database after its last commit, and the part of it a power loss cannot take |
| `pending` | `KvSubs.pending_puts` |
| `Put`, `Delete`, `DeleteAbsent` | `C2S_KV_PUT`; `Mutate` is its locked part |
| `Open`, `SendChunk`, `GoLive`, `Stop`, `Ack` | `C2S_KV_OPEN` (registration, stream, `go_live`), `C2S_KV_STOP`, `KvSub::ack` |
| `TakeBatch` ... `EndBatch` | `writer_loop`, step by step |
| `Disconnect`, `Restart` | `KvSubs::shutdown`; process kill or power loss, then `Store::open` |
| `log`, `okFloor`, `absentFloor` | history variables, no code |

`ver` in an entry is the position in `log` of the mutation that wrote it: the
code has no such number; the properties use it to say "this mutation or a
later one". A content hash is modelled by the value itself. A subscription is
known by its slot. `shown` is what a client that applies all it was sent holds
(the outbox is one FIFO). Entries are charged `Bytes[v]`, the byte size the
code computes from key and value.

Left out: `KV_FETCH` and refusals (no state changes), parsing, per-value and
per-prefix limits, the encoding of chunks (their split is arbitrary in
`SendChunk`). The database is external: a transaction commits as a whole or
fails; a commit of Immediate durability is hard at once, one of Eventual
durability hardens some time later (`Harden`). A memory-only store
(`writer = "none"`) is reached by a restart whose load or thread start fails.

- `WatchTracksStore`: a live watch agrees with the map on every key that owes
  no DURABLE echo. The snapshot is encoded without the lock, so this depends on
  registration and clone being one critical section and on the queue that
  `go_live` flushes.
- `TotalIsExact`: `total_bytes`, kept by difference, is the sum.
- `DurableOkSurvives`, `PrefixConsistent`: durability under kills and power
  losses at every point.
- `DurableAnswered`, `WatchConverges`: liveness. The first does not read the
  in-flight budget: a release that is missed would only refuse later requests.

## 4. TerminalDelivery (`crates/server/src/lib.rs`)

A tick is `idle -> parse -> gap -> clients -> (building -> previews)* -> idle`.
The lock is free in `idle`, `gap` and `building`: handlers run there and nowhere
else.

| Module | Code |
|---|---|
| `pty` | input channel, driver version, size, synchronized-update flag, `dirty`, `ready_frames`, scrollback depth and movement |
| `client` | `ClientState`: subscriptions, `lead`, `stream_epochs`, `last_sent`, `scroll_caches`, `scroll_offsets`, `view_sizes`, in flight, deadlines |
| `Feed`, `ParseDone` | first part of `tick`: budgeted parsing, ready frames, coalescing (`held`), the brake |
| `Snapshot` | second part: one frame per PTY some client can take, reanchoring of parked views |
| `ClientBegin`, `FinishBuild`, `PreviewStep`, `ClientDone` | third part, per client: scroll frames, the lead's diff, previews; `try_send_update` |
| `Subscribe`, `Unsubscribe`, `Focus`, `Input`, `Scroll`, `ScrollBy`, `Resize`, `Disconnect`, `Ack` | the message handlers and `record_ack` |
| `Shown` | `build_update_msg`: nothing, a keyframe when the sizes differ, or a delta |
| `grid`, `lost`, `newest`, `requests` | what a client shows; history; the bound on messages |

A frame is `[ver, off, size]`: how much output the driver had parsed, the
scrollback offset shown, the size. A delta applied to any grid but its base
yields `Torn`. The diff itself is exact by assumption: this model is about
which base is used. Deadlines are flags that time sets (`due`, `pdue`), byte
windows are one window of frames; RTT estimation is left out, its effect being
only when a window opens. `send_outbox` fails only when the receiver is gone,
that is after a disconnection, so `Backpressured` has no action of its own.

- `BaselineIsShown`: `last_sent` (live) and the scroll cache (parked) are what
  the client shows, whatever was requested while a diff was built unlocked. A
  client that lost a delta is excused until it subscribes again.
- `LiveViewsGoForward`: a live view is fed from two places, the queue of whole
  synchronized frames and the screen as it is, and a diff of either is built
  without the lock; a client that shows the live view always shows the newest
  picture of it that it ever had.
- `ClientsCatchUp`: a client ends up with the terminal as it is. It depends on
  the brake: a synchronized frame that found the queue full would be lost with
  the dirty flag already cleared. A resize empties the queue (lib.rs, `resize_pty`)
  and sends the screen instead, so no property says that every frame is shown.

## 5. ChannelFabric and ChannelPipes (`crates/server/src/channel.rs`)

Every request runs under the session lock from decoding to the last frame
handed to an outbox, and is one action: `Listen`, `Connect`, `Data`, `Ack`,
`Close`, `Watch`, `Unwatch`, `Malformed` and, once sealed (`BeginShutdown`),
`Refuse`, from any client at any time, with stale ids and counts (`Honest`
names the clients that acknowledge only what they received). A frame
sits in its connection's outbox until that connection's writer has written it
(`Write`) and dropped it with its guards (`Release`): between the two a client
may have answered. A limited outbox overflows; a connection fails (`WriterEnds`)
and is cleared later (`Depart`). `view` is what a client knows from the frames
it has read and `pairs` the pairs ever made: both are history.

- `HandlesArePaired`: the lookups that would panic succeed.
- `IdsHaveOneOwner`: an id is a listener, a handle, a watch or draining, never
  two; `FramesFollowTheirOpen`: no frame of an old channel meets a new one on
  the same id.
- `ClientsLearnTheTruth`: when a client has read its queue, it knows of each id
  what the fabric knows, so every end reaches both sides once.
- `StreamsAreWhole`, `BudgetsHold`: no byte lost or counted twice, within the
  credit; what is unwritten stays charged also after its pair was closed.
- `WatchesAreAnswered`: a watch was told the names as they are, or the release
  is waiting for the next request.
- `FailedEndpointsAreCleared`: liveness.
- `ImplementsPipes`: ChannelPipes, two reliable, ordered streams of messages
  within a window, until the pair is cut, instantiated with `status`, `wire`,
  `unacked` and `failed` computed from handles, queues and `pairs`.

## 6. NetRelay (`crates/server/src/net.rs`)

The dispatch loop owns the table; each stream has a reader task that passes two
gates (its window, then the connection's `outstanding`), registers for a wake-up
and parks, and a writer task that releases what it has written. `stream[n]` is
the state an entry shares with its tasks; an entry that is replaced or removed
aborts its tasks, which end later (`GiveUp`, `Aborted`). The client obeys the protocol.

- `CreditIsTheSumOfShares`: the aggregate is the sum of what streams hold, and
  an ended stream holds nothing, whatever path it ended by.
- `QueuedIsCharged`: what is in memory for targets is charged to its stream and
  to the connection. The two are separate atomics, so admission (`Data`, then
  `ChargeTotal`, which gives the first charge back when the total is full) and
  release (`Written`, then `WriteReleased`) are two steps each, between which
  the other tasks run; the property says that the totals differ by exactly what
  is between the two (`taking`, `releasing`).
- `CompliantIsNeverRefused`, `AcksAreNotForged`, `NoReaderStalls`: violated,
  section 14.

## 7. Connections (`lib.rs`, `extension_jobs.rs`)

A connection registers, is admitted, serves, leaves or is cancelled, drains its
jobs and is gone; a job takes a pending record, an endpoint permit and a server
permit in turn; shutdown seals, cancels a snapshot of the registered and waits
for the last. Waits are modelled with what they listen for (`emptied`,
`drained`): a wake-up before the wait is kept or lost as the code's primitive
keeps or loses it.

A network connection is counted until after its registration is gone
(`Uncount`); `MaxConnections = 0` stands for no limit, as in the code.

- `JobsHoldWhatIsCharged`, `CallsEndWithTheirConnection`,
  `NobodySlipsPastShutdown`, and the liveness property `ShutdownCompletes`.

## 8. ProcessLifecycle and ProcessStreams (`process.rs`)

`ProcessLifecycle` follows a generation from admission through the blocking
spawn, watches, signals, the stages of termination (TERM, KILL, tree cleanup),
publication and expiry, while its endpoint or the server shuts down. An id is
released by the guard of a frame, so the outbox's writer (`WriteFrame`) is part
of it. `ProcessStreams` looks at one child: stdin at a cursor with one writer
role handed between watchers, stdout copied to every watcher within its window,
and the exit, which waits for readers, writer, waiter and tree cleanup.

- `IdsFollowTheWriter`: an id stays the process's until its last frame is
  written and is free then.
- `GenerationsAreCharged`: the server's count of generations is exactly the
  number of those that exist, in whatever form: a pending spawn, a live process,
  a result that is kept, or the notice of a failure on its way. Every place is
  given back with a saturating subtraction, which would hide a second return.
- `NothingOutlivesTheServer`, `OrdinaryChildrenEnd`, `ShutdownsReturn`.
- `StdinIsOneStream`: whoever was told it may write wrote all that was accepted
  since the offset it was told, for as long as it watches, and whoever was told
  it may not wrote none of it; nobody is told of more than the pipe took.
  `OutputIsWhole`: every watch sees the output without a gap
  from where it began to its exit, which is last and counts all that was read.

## 9. PtyLifecycle (`lib.rs`, `pty/pty_unix.rs`)

A child is named by the order it was spawned in; descriptors are numbers handed
out again after a close, so `fdTable` says which tty a number stands for now.
The three tables of pids (`owned`, `parked`, `abandoned`) decide who waits for
a child and who may signal it; `strays` records a signal to a pid already
waited. The supervisor's pass is modelled step by step, with the tick's reading
of a channel and the reader threads beside it. `Signals` and `Followed` choose
which requests and which strays an instance looks at.

- `NoChildDiesForAnother`, `TerminalsKeepTheirFds`, `ExitsAreNoticed`,
  `ClosedChildrenAreReaped`; `EscalationsHitTheirOwn`, `KillsHitTheirOwn`,
  `EveryChildHasAReaper`, `OutputStaysHome` are violated, section 14.

## 10. EventLog (`events.rs`)

Producers take a sequence number before the ring's lock, so another order is
possible; the ring evicts by size, is resized, and broadcasts over a channel
that forgets what a slow receiver did not take. A stream begins with a dump and
its subscription in one critical section, collects batches, reports what it
missed, and ends by a stop, an abort or a write error.

- `StreamsAccountForEveryRecord`: from its dump on, what a stream holds and what
  it says it missed add up, in order, to all that was recorded, up to what it
  has in hand. `RecordingsEndWhole`: a stopped recording has what was recorded
  before the stop.

## 11. SurfaceDelivery (`lib.rs`)

| Module | Code |
|---|---|
| `source` | the surface: present or not, generation and native size of its picture |
| `wish` | `surface_subscriptions`, and what the client asked for |
| `sub` | `SurfaceSubState`, which `entry().or_default()` makes anew when it is gone |
| `encodes`, `creations` | tasks that have not reported; an encode has the encoder with it |
| `screen` | the client: the encoder its decoder follows, the picture it shows |
| `SurfaceCreated` ... `SurfaceResized` | the compositor's events |
| `SurfaceSubscribe`, `KeyframeRequest`, `SurfaceUnsubscribe`, `SurfaceViewed` | the client's messages |
| `TickPending`, `TickCreates`, `TickEncodes`, `TickRebuilds` | the tick, for one client and surface |
| `EncodeDone`, `EncodeEmpty`, `EncodeLost`, `CreationDone`, `CreationFails` | the tasks' ends |
| `life`, `mixed` | history: whether a task started for an entry since removed has reported to this one |

A resize of the surface leaves the encoder to the next tick and a task to its
end: only `SurfaceCreated` and `SurfaceDestroyed` call
`invalidate_client_surface`, although its comment speaks of resizes too. A
preference stands for codec, bandwidth and speed; the encoded size is the
client's own (scaled) or the surface's. The bitstream is right by assumption:
a keyframe starts a decoder over, a delta is for the decoder that follows its
encoder, and any other breaks it.

- `OldPreferencesAreNotServed`: no frame is delivered that was made for other
  preferences than those in force, unless a task of an earlier entry reported
  (section 14).
- `StillSurfacesAreShown`: when everything stops, the last picture is on the
  screen and the next delta can be decoded, after pending, empty, lost and
  invalidated encodes, failed creations and rebuilds.

Left out: compositor-resident Vulkan Video sessions, refreshes of a still
picture, pacing (whether the tick visits a surface is arbitrary until it must),
the cache of pixels in several sizes, size ceilings.

## 12. Runs and bounds

The runs of `PROJECT.json`. States are distinct states.

| Run | Instance | What it shows |
|---|---|---|
| `kv_durable` | 2 keys, 2 values of different size, 2 connections (one may watch), 3 mutations (2 while one watches), crashes, keys alike; 352 000 | `WatchTracksStore`, accounting, durability, prefix consistency |
| `kv_live` | 1 key, 2 connections, failing commits and crashes; 93 000 | both liveness properties |
| `td_two_clients` | a leading and a previewing client of one PTY, two sizes, scrolling output; 1.69 million | types, `BaselineIsShown` with another client's requests in every gap |
| `td_live` | one client, three events of up to three chunks and two requests, a queue of two frames, output that clears, alternate screen, losses; 77 000 | `LiveViewsGoForward`, `ClientsCatchUp` |
| `cf_duplex` | a pair, data both ways, an honest and a dishonest client, a failure; 310 000 | `ClientsLearnTheTruth`, `StreamsAreWhole` |
| `cf_limits` | a limited outbox that overflows, ids used again; 101 000 | budgets, pairing, order of frames, the refinement, liveness |
| `cf_names` | watches, listeners, a limited outbox, shutdown; 436 000 | ownership of ids, watches |
| `services` | seven services, one at a time; 1.21 million | 14 invariants and `OldPreferencesAreNotServed` |
| `services_live` | two connections, processes, terminals, a surface; 59 000 | the liveness of four services |
| `kv_failed_commit`, `net_leak`, `pty_escalation` | violations | section 14 |

In `services`: one relayed socket that writes, over and over, until what its
aborted writers left behind makes the total refuse it, or two that read and
whose windows add up to more than the connection's total; three connections
with two jobs; a child between two
endpoints; a child's streams under two watchers; two terminals over one
descriptor, or one that prints; four events of which one exceeds the smaller
ring; a surface on its way to one client.

Some instances have a `CONSTRAINT`, defined and explained in their MC module.
`FewWhenWatched` (`kv_durable`) allows two mutations once somebody watches: one
that races with the snapshot and one behind it. `SmallAtFirst`
(`td_two_clients`) starts a PTY at its smaller size. `FewAtOnce` (`services`)
takes ids in order, lets one endpoint spawn and leave, and keeps the second of
two terminals quiet. `ThreeEvents` (`td_live`) and `ChildrenStay`
(`services_live`) are used with liveness: they cut only what chunks of output,
messages or a child's own behaviour begin, which no fairness condition asks
for, so that what is kept still has to make progress. `kv_durable` is reduced
by the symmetry of its keys, which is sound there since it checks invariants
only and no definition orders keys.

Configurations that are not listed as runs: larger or further instances that
pass (`MCNetRelay_credit`, 2 million states; `PtyLifecycle_live`, with output,
500 000; `SurfaceDelivery_live`, liveness after a client came back;
`MCChannelFabric_types`), and the further violations of section 14.

*Bounds.* Bounds that are not in the code are named `Max...` and explained where
they are declared; these are the ones that decide what can happen.

- KvStore: two connections give an observer and an interferer; connections
  interact only through the map and the queue. Two keys are needed for order
  between keys. Three mutations allow one that is hard, one in a batch and one
  queued behind. `UnackedMax = 2` makes snapshots and broadcasts hit the limit;
  `MaxInflight = 1` makes the second DURABLE put hit its budget; `TotalMax = 2`
  with sizes 1 and 2 makes puts and overwrites cross the byte budget.
- TerminalDelivery: streams interact only through the size of a PTY, its
  snapshot and the client's window, so two clients and one PTY, or one client
  and two PTYs (`MCTerminalDelivery_stomp`), exhaust the kinds of interaction.
  `Window = 2` is the smallest the code uses; `ReadyCap` is 1 or 2, so that the
  brake acts, and in `td_live` two frames can be queued behind one another.
- ChannelFabric: two endpoints; a third would only be another peer. Two pairs
  in a row on an id make reuse happen; a queue of two or three frames makes
  overflow and draining happen.
- NetRelay: an `Aggregate` of 2 against windows of 2 and 1 makes the total the
  tighter limit of the reading side; the writing side's total of 3 is reached
  with two bytes leaked by an aborted writer (`net_leak`) and two more asked for,
  so that `ChargeTotal` gives a charge back. Connections: a limit of one, so that
  network connections are refused; one permit of each kind and two jobs, so that
  jobs wait.
- ProcessLifecycle: one generation and two endpoints, or one that comes back.
  ProcessStreams: two watchers, a window of 1, two bytes each way.
- PtyLifecycle: one descriptor for two children, so that its number is reused;
  one exited terminal kept, so that the limit acts.
- EventLog: rings of 2 and 4, a channel of 2 and four records, so that eviction,
  lag and resize overlap.
- SurfaceDelivery: two pictures and one resize, two or three messages, two
  faults, and an encoder given up after two empty encodes (ten in the code).

## 13. Fairness

- KvStore: the writer thread only waits for its channel, and a connection's
  snapshot loop only awaits its own sends, so both are weakly fair. Nothing is
  asked of clients, of `Harden` or of crashes.
- TerminalDelivery: the delivery task is woken by output and at least every
  `BLANKET_FRAME_INTERVAL`: `TickStep` is weakly fair. A synchronized update
  times out (`Settle`), deadlines pass (`LeadDue`, `PreviewDue`) and a client
  acks what it is sent (`Ack`), strongly fair because the fair session lock is
  taken in between.
- ChannelFabric: a writer makes progress or its connection is ended by the
  no-progress timeout, and a connection whose outbox is closed is cleared.
- NetRelay: tasks are scheduled, connecting times out, the outbox drains.
  Targets owe nothing.
- Connections: tasks are scheduled, a cancelled connection leaves its loop,
  native calls return, since a drain waits for them without a limit.
- ProcessLifecycle: tasks are scheduled, a frame is written or its connection
  ended, and what was killed dies. A child owes nothing else.
- PtyLifecycle: the supervisor wakes at the deadlines it keeps and every five
  seconds, time passes, a killed child dies. Nothing is asked of the tick or
  the readers: nobody may be attached, and a descendant may hold the tty.
- SurfaceDelivery: with a client connected the tick runs at the latest after
  250 ms (lib.rs, `blanket_frame_interval`); an encode ends within 5 s and a
  creation within 10 s, or it is given up; a client whose decoder broke asks
  again.

## 14. Where code and documentation disagree

Each is a configuration whose single property states the quoted sentence, and
for which TLC finds a counterexample.

Listed as findings:

- `kv_failed_commit`: jobs of a failed transaction are dropped and a later
  commit succeeds without them, so the disk has a gap (kv.rs:553; the module's
  doc at 8-11 promises a prefix).
- `net_leak`: the writes an aborted writer task still held are never released,
  so they count against the connection for its lifetime, and a client within
  its windows is refused in the end (net.rs:1103; the comment at 1397).
- `pty_escalation`: a close in the 50 ms after a child was waited registers its
  pid for a kill nobody cancels (pty_unix.rs:556; `docs/protocol.md:554-556`).

Further, as configurations:

- `MCKvStore_echo`: a watcher that writes one key twice with DURABLE can see its
  second value before the second `KV_DONE`, because the first echo carries the
  current entry (kv.rs:571; the comment at 803-806 says otherwise).
- `MCKvStore_delete`: a DURABLE delete of a key that is gone from the map but
  not yet from the disk is confirmed with nothing synced (kv.rs:819;
  `docs/design/kv.md:80`).
- `MCTerminalDelivery_parked`: with its only subscriber scrolled back, a PTY
  that fills its queue of synchronized frames is not parsed any more until the
  view returns (lib.rs:13659; "the producer is slowed instead", 13624).
- `MCTerminalDelivery_shared`: the frame taken for a ready client clears the
  PTY's dirty flag for all; one that was not ready misses the last frame until
  there is more output (lib.rs:13851; `docs/server.md:193`, `:239`).
- `MCTerminalDelivery_stomp`: a preview scrolled back while the lead's diff is
  built is sent a live frame over its parked view (lib.rs:14037; the comment at
  14035 names the case).
- `MCChannelFabric_current`: a name released by a violation or a teardown is
  published only with the next request, so a watch is behind until then
  (channel.rs:390; `docs/design/extensions.md:1921`).
- `MCChannelFabric_reuse`: an id whose failed OPENED its client has read is not
  free until the writer has dropped that frame (`docs/design/extensions.md`,
  "may reuse the client-created channel ID after observing that failed OPENED").
- `MCNetRelay_wakeup`: credit returned by an ack between a reader's look at the
  gates and its registration wakes nobody, and the reader stays parked with
  both gates open (net.rs:1045-1057, "Register before re-reading").
- `MCNetRelay_reuse`: after NET_CLOSED the id is used again while an ack of its
  previous stream is on its way, and the new stream takes it for a forgery
  (net.rs:1022-1035; `docs/design/net.md:166-167`, `:178-181`).
- `PtyLifecycle_kill`: C2S_KILL, or a deadline, signals the group of a child
  that another path has waited (lib.rs:22597-22599, 9645-9648).
- `PtyLifecycle_reaper`: a child whose terminal is forgotten between two tables
  has nobody who waits for it (lib.rs:9652-9654).
- `PtyLifecycle_stale`: a reader thread of a closed terminal that has not
  noticed reads from a descriptor number that stands for another terminal now.
- `SurfaceDelivery_old`: when a client unsubscribes and comes back while an
  encode runs, the entry that knew of the task is gone; its completion finds a
  new one with no flag set, and its output is delivered, settles the keyframe
  debt, and its encoder is installed (lib.rs:4712-4718, "must neither be
  delivered nor advance the generation mark").

## 15. Proofs

Eight modules hold the proofs, one per component; `ProcessProofs` treats two. Each proves an inductive
invariant (KvStoreProofs a chain of them) and derives from it properties that
the runs check on their instances. What is assumed of the constants is named in
the component's module and says no more than their types: natural numbers,
finite sets, sentinels outside the sets they extend. Commits may fail, tasks may
be aborted and connections lost at any point, as in the models.

`KvStoreProofs`, for every value of the constants, under `KvAssumption` alone
(finitely many keys, sentinels outside the sets they extend, natural bounds).
Commits may fail and crashes may happen at any point, except where said.

- `TypeCorrect`: `Spec => []TypeOK`, which is proved and not checked again by a
  run. `TypeOK` is not inductive: the room that
  `go_live` computes is a natural number only if no subscription retains more
  than its budget (`SubsOK`), and an echo needs the job it announces
  (`EchoHasJob`). `TypeInv` adds the two.
- `TotalExact`: `Spec => []TotalIsExact`. The running total is defined against
  the cardinality of the set of charged bytes (`ByteSet`), so that the lemma
  `SumChange` (replacing one entry changes the sum by the difference the code
  adds) follows from facts about finite sets and needs no induction.
- `DurableSurvives`: `Spec => []DurableOkSurvives`. The inductive invariant
  `WriteOrder` says that the order of mutations never turns round on its way to
  the disk: confirmed, hard, committed, in the transaction, in the rest of the
  batch, in the queue, the numbers ascend. It is needed because a confirmed
  mutation must stay covered by everything that is written over it later,
  including by jobs of other connections that are still queued. `ReplyCovered`
  is the link to the reply: while replies go out after a successful
  transaction, every DURABLE job of the batch is hard. A failed commit sets
  `commitOk` to FALSE and confirms nothing, and a restart empties queue and
  batch, which the order does not mind.
- `PrefixSurvives`: if no commit fails, `Spec => []PrefixConsistent`. On top of
  `WriteOrder`, `PrefixInv` says where every mutation is: on the disk, in the
  queue, in the open transaction, lost to a crash, or made by a memory-only
  store and so beyond the disk. Then a transaction that reaches the disk leaves
  out only what is still queued, and what is queued is newer than all of it.
  The assumption cannot be dropped: `kv_failed_commit` is its counterexample.
- `WatchesTrack`: `Spec => []WatchTracksStore`, with failed commits, lost
  connections and crashes. The property speaks of live watches and the cause of
  a miss lies earlier, while the snapshot goes out off the lock. `WatchInv`
  therefore says of a watch in either phase where it is led (`Leads`): to the
  last queued update of the key; if none is queued, to the entry the snapshot
  still owes; else to what was shown last; and that this is the store's entry
  unless the key owes an echo. `DeliverLeads`, `SendShows` and `FlushLeads` say
  it of the three operations of a subscription. That the writer thread owes
  nothing between two batches keeps a taken batch from hiding an owed echo.

`ChannelFabricProofs`, under `ChannelAssumption`:

- `PairingHolds`: `Spec => []HandlesArePaired`, and `CreditHolds`: no handle is
  further ahead than its window, and no acknowledgement passes what was sent.
  Pairing is inductive together with the credit of each handle (`FabricInv`):
  every action either removes a set of handles closed under partnership
  (`RemovalKeepsInv`), updates one handle and keeps its partner
  (`UpdateKeepsInv`), or commits a pair on two keys that were free and differ
  because a client's id is even and the server's is odd (`CommitKeepsInv`).
- `OneOwnerHolds`: `Spec => []IdsHaveOneOwner`. Three facts are inductive only
  together (`ChannelInv`): an id is in at most one of the three tables, at most
  one frame of an outbox frees it (`OneDrain`), and an id whose freeing frame is
  queued is in no table (`DrainsAreFree`). They need to be told apart by what a
  request may queue: every request is summarised as `Effect(ds)`, a list of
  frames that appends to the outboxes of open endpoints, with one freeing frame
  for each id it takes from a table, and one for each id it refuses. The lists
  are sent by a fold with a limit on each outbox; `SendFold` and `AnswerFold`
  unroll it by induction on a number (`UpTo`), and `SendAllTook` says what an
  outbox then holds: all its frames in order, or a prefix and a closed endpoint.
- `FramesFollow`: `Spec => []FramesFollowTheirOpen`, and `TruthIsTold`:
  `Spec => []ClientsLearnTheTruth`. Neither is inductive alone: that a queue ends
  in what the fabric has (`Truth`) is what makes the next frame follow, and that
  frames follow keeps the end right. `Informed` states both of one key, along
  the path of what its client will know after each queued frame. A request adds
  at most one frame that begins or ends a channel of a key (`Grown`), which fits
  what the fabric had (`Fits`) and leads to what it has; a write, a release and
  the end of a writer shift or cut the path.
- `AnswersReachWatches`: `Spec => []WatchesAreAnswered`. `WatchOK` of every watch
  is inductive with `ChannelInv`. Every request is summarised as `Announces(all)`,
  with `all` its own deliveries and those of `publish_names` behind them: no NAMES
  of a watch says anything but what is then published, whatever is published anew
  has such a frame, and it is what the names are. That the answer of WATCH itself
  is among a request's own deliveries, before names are published, is `Prepared`.
  A packet that is not a request leaves the names dirty.
- `StreamsStayWhole`: `Spec => []StreamsAreWhole`, on top of the two invariants
  before it. `Announces(all)` says also what messages a request carries: at most
  one to the peer of each handle, by which what the handle sent grows (`Carried`).
  A channel that begins starts its client from nothing, and no frame that begins
  or ends one is queued for a handle that stays (`RequestCarries`, from `Fits`).
  The clause about honest clients is inductive only with its cause: what they have
  acknowledged, they acknowledged on the channel they know (`Due`), so that the
  frame that opens an id cannot reach a client which has acknowledged anything,
  and the one that closes it none whose handle stands, because it drains its id
  (`ClosedDrains`, `DrainsAreFree`). `BoundsOK` orders the boundaries of
  unacknowledged messages between what was acknowledged and what was sent.

`TerminalDeliveryProofs`, under `DeliveryAssumption`:

- `TypeCorrect`: `Spec => []TypeOK`, on which the rest builds.
- `LiveViewsGo`: `Spec => []LiveViewsGoForward`. Its invariant `OrderOK` orders,
  for every PTY and client, what the client shows, what it was last sent, the
  frame of the tick in progress, the queue and the screen: a queue is ascending
  and no newer than the screen, goes first, and what a tick took is no newer
  than what stays. It needs `Inv` beside it (`JobOK`), since a diff built without
  the lock is delivered only if its stream's epoch has not moved.
- `BaselineUnlessStomped`: `Spec /\ []LiveViewsAreBuilt => []BaselineIsShown`,
  and `BaselineOfOnePty`: with one PTY, `Spec => []BaselineIsShown`. The
  hypothesis says that no frame is about to go out for a view its client has
  parked meanwhile. The code does not ensure it when a client previews one PTY
  and leads another: `MCTerminalDelivery_stomp` is that behaviour, and the
  property fails in it. With one PTY the case cannot occur, which the second
  theorem shows. `Inv` adds the diff being built without the lock (`JobOK`):
  its base is still what `last_sent` is, unless the stream's epoch has moved and
  the result will be thrown away. `StreamsOK` adds what a parked view needs for
  its return: without a scroll cache, `last_sent` is blank. `OnePtyOK` says that
  with one PTY no preview is left once the lock has been dropped.

`NetRelayProofs`, under `NetConstants`:

- `CreditIsShared` and `QueuesAreCharged`: `CreditIsTheSumOfShares` and
  `QueuedIsCharged` for any number of sockets and any windows. `NetInvariant`
  says of every stream, by the phase of its life and the state of its writer,
  what it may hold (`StreamOK`), and that both totals of the connection are
  exact sums: of what is held, and of what is queued less what is being admitted
  and plus what is being released (`Share`). `ChargeTotalKeeps` and `WrittenKeeps`
  are the two half-way steps. A writer that ended is excepted from the equation between a
  stream's charge and its writes: that is the leak of `net_leak`.

`ConnectionsProofs`, under `ConnConstants`:

- `JobsAreCharged`, `NobodySlips`, `CallsAreJoined`: for any connections, jobs
  and limits. `ConnInv` adds that shutdown begins with the seal, that an
  admitted job belongs to a connection of an extension that counts its tasks
  (`TasksAreCounted`), and that tasks not joined yet have a connection that is
  still there (`TasksAreJoined`).

`ProcessProofs`, under `ProcConstants` for the registry and `StreamConstants`
for the streams of a child:

- `IdsAreTheWriters`, `TheBudgetIsExact` and `TheServerIsTheLast`: for any
  endpoints, ids, limits and number of generations (`ProcessesAreInvariant`).
  `ProcInv` has six parts beside the budget itself. `Places` says, for each
  state of a spawn and of its record, in which of the server's tables it may be,
  and is what excludes that a place is given back twice. `CancelsOK`: a spawn
  taken from run_spawn by a shutdown has exactly one canceller, of an endpoint
  or of the server. `ShutOK`: what each stage of `Server::shutdown` may still
  find; a spawn is either in its list, waited for, or finished. `FramesOK`: a
  failure has one notice and it is queued after its spawn ended. `SlotsOK`: an
  open endpoint's id is taken by the pending spawn, by the binding, or by one
  frame in the queue, and only by one of them. Its hard case is the guard of a
  frame (`FrameTaken`, `TakenIds`): removing a frame must end that hold and no
  other.
- `StdinIsOne` and `OutputWhole`: for any watchers, windows and loads.
  `StreamInv` counts every byte of stdin that was received as acknowledged,
  queued or in hand, so that nobody is told of more. `RolesTold` says of every answer, read or
  still queued, that whoever it lets write wrote all that was accepted since, and
  whoever it does not wrote none, and that a role told and not given up is held.
  For output the invariant says of each
  queue of frames where it leads (`LeadsTo`): each chunk begins where the one
  before it ended, and after the last a bound watcher has all that was read.

`PtyLifecycleProofs`, under `PtyConstants`:

- `FdsAreKept` and `ExitsAreTheirOwn`: for any number of terminals, children and
  descriptors. `PtyInv` adds what the code takes for an exit: whoever is parked
  or drained is dead, an end of file in a queue means its reader is gone, and a
  cleanup on its way was decided for a child that is over, or carries an older
  generation than the terminal has (`CleanupsAreDue`).

`EventLogProofs`, under `EvConstants`:

- `EveryRecordIsAccountedFor` and `RecordingsAreWhole`: for any records, ring
  sizes, producers, channel and batch capacities. `EvInvariant` says that the
  ring keeps or has counted each record once; that the channel repeats the
  lock's order from the stream's beginning; and, in every state of either task,
  that what was sent, what is in hand and what the channel owes are adjacent
  pieces of that order (`HandOK`). The last is what a lag between two records
  of a batch, or a record kept back for the next message, could break.

*Form.* Induction over data is out of the prover's reach, so the models are
written with closed definitions: `SumOf` and `SumBytes` are cardinalities,
`Flush`, `Reanchored`, `Newest` and `Resize` (equal to the code's loop, which TLC
compared for all rings of up to five records) quantify over positions, and an
acknowledgement pops the boundaries up to the one `Consumed` chooses. The loops
of process.rs over bindings and records are written pointwise (`Each`,
`QueueExits`, `RemoveBoundSlots`, `ReleaseRecords`): their turns touch different
endpoints or records.

*Model-checked only.* Liveness under fairness and everything with `ENABLED`, which
the prover cannot treat. Of ChannelFabric, `BudgetsHold`, a sum over what
the queues hold, and `ImplementsPipes`, whose mapping selects from the same
queues; `OldPreferencesAreNotServed` of SurfaceDelivery.

## 16. Not modelled, and planned

`PROJECT.json` has the reason for every component. Byte formats and rendering
(codecs, the emulator, the compositor's GPU side) raise no question of
interleaving; adapters (desktop services, gateway, SSH, web server) are pure
I/O; the rest is third-party code.

Planned, in this order: a proof that ChannelFabric's steps map to steps of
ChannelPipes; an
`ObjectStore` (uploads with eviction and pins, extension_store.rs) and the
`FetchGate` (lib.rs:14478); the command journal's waiters (journal.rs); the
proxy's pools; file sync over an abstract tree; the unit supervisor's phases
over a map that KvStore implements.
