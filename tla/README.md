# DST Nucleus: specification, model checking and proofs

DST Nucleus is a supervisor for a Don't Starve Together dedicated server. One Go
process starts the game's shards (master and caves), restarts them when they
crash, keeps the game and its mods up to date through steamcmd, and offers an
HTTP API to steer and watch them. This directory holds TLA+ models of its parts,
TLC configurations that check them, and TLAPS proofs.

Source paths are relative to `src/`. The identifiers of the code are Chinese or
romanised in places; the models use them where TLA+ allows it, and every comment
with a `file:line` says which code a definition stands for.

## 1. The system

### Components

| Component | State it keeps | Operations | Talks to |
|---|---|---|---|
| Main loop (`main.go:123-217`) | the action it handles, the life it runs | probe and update before a life, start it, await an action, end it, settle the switch | `ActionBus` (capacity 1), `ApiWakeChan` (unbuffered), `LifeCtx`, `EpochKillSwitch`, a WaitGroup |
| Shard runners (`game.go:66-255`, `738-785`) | one game process each, its ready flag, its exit channels | start, await exit or cancellation, kill ladder, cleanup | main by actions and the WaitGroup, each other through `LifeCtx` |
| Output readers (`game.go:617-736`) | position in the stream | find ready lines, telemetry, "mod out of date", hand lines to the log hub | runner's flags, `ActionBus`, telemetry, hub; nobody joins them |
| Update monitors (`update.go:69-120`) | one per life, not joined | tick, probe, post a verdict | `ActionBus`, `ModBusyGate` |
| Control handlers (`api.go:407-468`) | the pointer they loaded | start, stop, restart | `ServerRunGate`, `ActionBus`, `EpochKillSwitch`, `ApiWakeChan` |
| Watchdog (`main.go:219-233`) | none | ends `GlobalCtx`, forces exit after ten seconds | everybody |
| Mod list and mod update (`update.go:139-200, 235-318, 642-1050`) | time tables, mod list, setup file | read the list, patch, compare, download | files, Steam API, steamcmd |
| Game version probe (`update.go:320-640`) | none | read steamcmd's manifest, ask three remote sources | files, network |
| Log hubs (`api.go:1114-1177`, `840-948`) | subscribed channels, pooled blocks with reference counts | subscribe, unsubscribe, fan out, drain | output readers, SSE handlers |
| Command and state endpoints (`api.go:278-405`, `694-814`) | a pool of receive buffers, a lock | read a body, copy, deliver | command pipes of the shards |
| Telemetry (`parasite.lua`, `api_status.go:160-329`) | environment numbers and boss timers | encode in the game, decode, reset | the game's stdout, the other node |
| Status snapshots (`api_status.go:13-150`, `api.go:148-207`) | a ring of slots, a published pointer, wake-up channels | render, publish, notify; load and write | telemetry, SSE and plain handlers |
| Shard console (`game.go:37-62`, `122-139`, `374-468`, `738-795`) | a command channel per shard, a receiver and a poller per life | post without waiting, flush, take, ask for a sign, inject the script, kill ladder | the game's stdin, everybody who posts |
| Graceful reboot (`game.go:473-569`) | the countdown, the save acknowledgement | announce, count down, save, wait | command channels, output readers |
| Epoch link (`game.go:257-372`, `api.go:209-267`, `1116-1146`) | a stamp per shard, a channel per watcher | stream heartbeats, compare | the other node |
| File API and copies (`api.go:477-690`, `1008-1087`, `update.go:320-446`, `1052-1123`, `file.go`) | a gate, temporary files | read, replace by rename, clone to both shards, read between two stats | the override files, who rewrites them in place |
| Console, listeners, configuration, platform layer | | | |

### Where it is hard

* **Concurrency without locks.** Main, runners, monitors and handlers meet in a
  channel that drops what does not fit, an atomic pointer swapped by
  compare-and-swap, a context and a boolean switch. Each single access is atomic;
  nothing makes a sequence of them so.
* **Goroutines that outlive their life.** Monitors, output readers, command receivers,
  pollers and sensors are not in the WaitGroup and act on the state of the next life.
* **Commands without an address.** The channel to a game's stdin is older and younger than any game;
  what was meant for one may be read for the next.
* **Shared buffers.** Reference counts, a pool with a doubled `Put`, and a ring whose
  readers take no lock.
* **Processes and files outside the program.** Games crash, ignore `c_shutdown` and
  print late; steamcmd is killed half-way; files are unreadable when they are
  wanted, and users edit them meanwhile; a power cut takes what was not flushed.
* **Hand-written codecs.** Seven-bit packets sent as text lines, a scanner for a JSON
  answer, a scanner for Lua tables.

### What makes it correct

* Main: the game is never running while steamcmd writes its files; main never waits for an
  action nobody can send; shards share their fate; a crash, a stop, a restart and an
  interrupt have their effect.
* Monitors: one user of the global mod tables.
* Hubs: exact reference counts; no leak; the hub does not panic; every handler ends.
* Console: no game is told to go or to save by what was left for the one before; an acknowledgement
  is that of the save it is waited for, unless something else prints the word; a cancelled life ends; a
  lost telemetry script comes back.
* Files: an accepted reading is what the file held; a write answered with success is in both
  shards; a mod file is never a part of something.
* Epochs: no stamp is shown after a newer one; a reader that stays is shown the last.
* Endpoints: what reaches the pipe is what was posted; a command never waits for room in a pipe.
* Telemetry: decoded values are those of the world, to their caps, from the right shard.
* Snapshots: a published slot is not overwritten under a reader; no lost wake-up.
* Mods: the list is exact; patching settles; a silent probe is right; updates cover and
  catch up.

## 2. Modules

| Module | Models | Notes |
|---|---|---|
| `Supervisor` | main loop, runners, output lines, monitors, control handlers, watchdog | composes six kinds of goroutine on the shared objects |
| `BinaryStore` | nothing in the code: the abstract specification of who may use the game binaries | `Supervisor` implements it |
| `LogHub` | a log hub, its handlers, the producer, the block pool | the caves' hub is the same code |
| `ApiCommand` | `/api/command`, `/api/update_state`, `ReceiveBufPool`, the pipes | |
| `Telemetry` | the script's encoder, the decoder, the reset, the report of a caves node | |
| `StatusRing` | probe, ring, published pointer, both kinds of handler | |
| `ModSync` | the two parsers, patching, both tables, comparison, download | |
| `ShardConsole` | the command channel of a shard over its lives, receivers, pollers, kill ladder, the graceful reboot | refines what `Supervisor` does in one step (`GraceEnds`) and leaves out (the channel) |
| `FileStore` | the file API, the copies of a boot, snapshots, and who rewrites files in place | |
| `EpochLink` | stamps, heartbeat, stream handlers, readers, sensors | two nodes and the connections between them |
| `SupervisorProofs`, `ApiCommandProofs`, `ShardConsoleProofs`, `FileStoreProofs`, `LogHubProofs`, `TelemetryProofs`, `ModSyncProofs` | | theorems about the module of that name |
| `StreamProofs` | | theorems about `StatusRing` and `EpochLink`, the two streams of the API; it extends both, so `EpochLink` calls its parts `LinkInit`, `LinkNext`, `LinkSpec` |
| `MC*` | | the constants and definitions of the TLC runs |

### How the models correspond to the code

**Supervisor.** One variable for each shared object: `gate` is `ServerRunGate`, `bus` is
`ActionBus`, `killSwitch` says whether `EpochKillSwitch` holds the cancel function of
the current life, `cancelled` and `halted` are the two contexts. `mpc`, `spc`, `mon`
and `hpc` are program counters; one step is one access to a shared object. `proc` is what
a runner can see of its process: `exited` when `Wait` has returned, `gone` when the
exit signal is closed a moment later, `doomed` after SIGKILL. `held` is the pointer a handler
has loaded; it goes stale when the switch is overwritten, and its later
compare-and-swap then fails. A message of the game is one pending `line`. Verdicts of
probes are nondeterministic; what they do with files is `ModSync`. Time is not modelled: a
timeout may fire at any moment. `GraceEnds` is the graceful reboot as one step that may
end whenever the code's countdown may be cut short.

**LogHub.** `free` is the pool, `ref` the counts, `subQ` and `unsubQ` the two
channels of the hub. The fan-out is three steps for each client (count, offer, take
back), because handlers release between them. `HubDone` is the end of the API context
when one listener fails. A `Clients` element is a connection slot; a new connection
takes it only when nothing of the old one is left in the hub's queue or set. `Holders` counts who
uses a block, the streamers, the central pipe, the hub, the channels and the handlers' hands each
by the size of a set; `NamesAssumption` and `FiniteAssumption` say that the two values for nobody are
nobody's and that streamers and connections are finitely many.

**ApiCommand.** The content of a buffer is the name of the request whose bytes were last
read into it, `part` of some, or `zero`. `pool` counts how often each buffer is in `ReceiveBufPool`:
`ReturnBuf`, `NoBody` and `Deferred` all put it there, so one buffer may be lent to two requests. Bodies have
a size in KiB; one of exactly the buffer's is whole. The two handlers differ where a read fails: a
command is refused, of a report what has come is used (`Breaks`). `met` is history: a report had a
buffer while the command was in its own.

**Telemetry.** Packets are sequences of bytes, computed as the script computes them and
taken apart as the decoder does, `% 128` for the mask and the sign rule included. Shards end one by
one: the master's end resets the stored numbers, that of the caves only on a node without a master
(`Resets`). `envOf` and `bossOf` are history: the world the stored numbers came from. `StatesAssumption` is what the game may
tell the script: whole numbers of any size, the names the script knows for seasons and phases (all
others count as the default, which is one of them), and a moon it has checked (`parasite.lua:81`).

**StatusRing.** Snapshots are numbered; a slot being rendered holds `Torn`. `since` counts
the snapshots begun since a reader loaded the pointer. A watcher that connects is sent nothing until
the next snapshot (`api.go:185-196`); `joined` is history: what was
published when it connected. `WatchersCatchUp` is about what is published later.

**ModSync.** An override file is a sequence of entries; `Tokens` gives its braces, ids and
`enabled` fields, seven tokens an entry, and `ParseOverrides` finds what the scanner finds, by brace
depth. A loop that collects what it finds is the set of the places where it finds something (`At`);
`排重字典`, which lets only the first of equal ids through, is `Once`. Depth is a count of the braces
before a token. So nothing here is recursive, and all of it can be proved about. `FilesAssumption`
says that files are such sequences, of any length and with any entries. `Matches` says which id the answer's scanner joins to which time. `cut` says that the setup file's
last line has no newline. `Fails` is the environment: unreadable files, failing queries, a
killed steamcmd; `CalmDown` ends the faults, for the liveness property. `Withdraw` takes a mod from
the workshop, whose record then has no time.

**ShardConsole.** `chan` is the command channel of one shard, `recv`, `poll` and `out` are indexed
by life because nobody joins receivers, pollers and readers: those of an old life run on beside the
new ones. A message carries, as history, the life in which it was ordered. `mpc` follows the main
loop through `执行优雅重启`, with the countdown in `left` and the second of the next announcement in
`nextCall`, both modulo `Word` (2^32 in the code). Time is not modelled: a timer may fire at any
moment. The shard is the master or, with `Role = "caves"`, the caves of a node that has no master.

`Obey` is what a command makes the game do after it has echoed it. The output reader heeds no
echo (`game.go:650-652`, `695-697`; `Heeded`), so an echo is left out when it is printed: without that the final
save, whose command has the word `K_SAVED` in it, would acknowledge itself. Any other line of the
master with the word does acknowledge (`game.go:711`), whoever printed it: players chat and commands
of clients print (`Talks`). `saved` and `stray` are history: the game has carried out the final save of the
reboot under way; something else has printed the word, or left it unread, since the reboot drained the channel.
A final save may also fail or hang after its echo.

**FileStore.** A content is two chunks of one version, so that a torn one can be told. Three paths:
the mod files of the shards, which are only ever renamed over, and a source that others rewrite in
place. `job` is a handler's or the main loop's progress through `原子写文件流`, `复制文件` or `获取文件快照`; the
three share the steps `Before` to `After`. A time of modification is a tick of `clock`, and several
writes may fall into one. `safe` says that a file was flushed; `PowerCut` takes the end of those
that were not. `blurred`, `excuse` and `crossed` are history: why a content may be torn, and that a
boot's copy fell into a clone. Opening a path that is only renamed over is as good as reading it, so
one step takes it all. A snapshot is of the whole file (`"list"`) or of the version (`"number"`), whose
reader stops once it has found the number.

**EpochLink.** `stores` counts the stores into the epoch; the stream carries a stamp, the model its
number, because all ends of lives have the stamp 0. `sends` is what is left of the current beat
(`sync.Map.Range` goes round the watchers one by one). `net` is a connection, which holds `NetCap`
messages; a handler waits in `Write` while it is full. A sensor that has connected has no further
step: see section 5.

## 3. Runs

Every passing run has been explored completely; the runs are small so that they can be
repeated after each change (all below four minutes with two workers).

| Run | Bounds | Shows |
|---|---|---|
| `MCSupervisorShards` | 2 shards, 1 monitor slot, no API | `TypeOK`, `NeverWedged`, `ModTablesExclusive`, `BinariesImplemented` |
| `MCSupervisorLive` | 2 shards | `FateShared`, `CrashRecovered` |
| `MCSupervisorApi` | 1 shard, 1 client with all three requests, interrupts | `BinariesIdle`, `StopTakesEffect`, `RestartRecycles`, `ShutdownCompletes` |
| `MCLogHub` | 1 producer, 2 connections, 2 blocks, channels of 1, a listener that fails | `TypeOK`, `RefExact`, `HubSurvives`, `NoLeak`, `HandlersEnd` |
| `MCApiCommand` | 2 commanders and a report, 2 buffers, channels of 1, bodies empty, just fitting and too long | `TypeOK`, `CommandsFaithful`, `CommandsEnd` |
| `MCTelemetry` | 2 shards and a remote caves, 4 worlds at the limits, 2 lines in flight | `EnvFaithful`, `BossesFaithful`, `WellFramed` |
| `MCStatusRing` | ring of 3, a watcher, a poller, 5 snapshots | `TypeOK`, `SlotStable`, `NothingMissed`, `WatchersCatchUp` |
| `MCModSync` | 2 mods, 2 override files, 2 publication times, all faults, 1 mod that may be withdrawn | `ProbeSound`, `ListExact`, `PatchSettles`, `PlanCovers`, `ModsCatchUp` |
| `MCShardConsole` | 2 lives, a channel of 1, waits of 1 and 8 with 8 for 2^32, announcements every second, `Talkative = FALSE` | `TypeOK`, `OrdersOfThisLife`, `AckHonest`, `LifeEnds`, `ScriptReturns` |
| `MCFileStore` | 2 handlers, 2 tries, 2 versions, 2 ticks of the clock, 3 edits, bodies, boots and snapshots | `Mirrored`, `Intact`, `ReadingReal` |
| `MCEpochLink` | 1 listener, 1 sensor, 3 stores, a connection of 1 | `NeverBack`, `LastShown` |
| `MCEpochSilent` | the same with a connection of 2 | `RestartFollowed` fails: section 5 |

Why the bounds are enough:

* Monitors: one slot is enough for a monitor of a dead life to act in the next one, which is the
  case that matters; with the slot taken `Spawn` waits, so a life without a free slot is not
  explored. The proofs of section 4 have no such bound on their number.
* The supervisor's liveness is checked without monitors, whose ticks only add ways to end a
  life; its API runs have one shard, because no handler looks at more than one.
* Channels of capacity 1 are full and empty within two steps; the real ones (1024, 256,
  128) only delay the same cases. Two connections let one of them leave while the other receives.
* A ring of three slots is lapped by five snapshots; slots only matter modulo the
  depth, and the 32 of the code divides the range of its counter.
* `MaxCopies = 2`: a buffer twice in the pool is what two requests need to share it; the collector may
  take away any further copy.
* Two buffers are fewer than three handlers, so lending one twice and making a new one both happen; a
  third handler of `/api/command` would only be answered 423.
* The four worlds of `MCTelemetry` have each field at, below and above the
  limit of its seven-bit groups, negative temperatures included; the proofs cover all others.
* Two mods are enough for one record to take the place of its neighbour. Two publication times
  give an old and a new version of each. The proofs of section 4 have no bound on files, mods or times.
* Two lives are enough for a goroutine of a dead game to meet the next one; a third only repeats it,
  as the proofs of section 4, without a bound, confirm for the safety properties. A channel of one
  is full after one command. A wait of 8 with a `Word` of 8 is cut to none, a wait of 1 counts
  one second down with one announcement. The same configuration with `Role = "caves"` passes too (736
  thousand states); there no acknowledgement ever comes and every reboot ends by its timeout. `Talkative = FALSE` lets games
  print what nobody asked for only while no line is unread and no acknowledgement is left, so that lines
  of chat do not pile up in every order; with `TRUE` the invariants hold too (1.8 million states), and the
  proofs of section 4 do without it.
* Three operations let a boot's copy meet a handler's write and clone, or an edit meet a copy and a
  snapshot. Two ticks put writes into one and into different ticks; with three the run passes as
  well, in 7.0 million states.
* Three stores are a start, an end and a new start: two stamps that are not 0 with one 0 between.
  With two lives of the watching shard and two stores the run passes as well.

`CHECK_DEADLOCK FALSE` is set where the system may stop: a process that has exited, a hub that has
panicked, a bounded count of snapshots, publications, lives or stores that is used up. `MCFileStore`
is checked for deadlock.

### Fairness

Goroutines that can run are scheduled (weak fairness for their steps). Where a Go
`select` has several ready branches it picks at random, and a branch ready again
and again is taken in the end: strong fairness for the cancelled context seen by main and by a
monitor, and for each of a hub's channels. Senders blocked on a channel queue in order: strong
fairness for subscribing. A process that got SIGKILL ends. Not assumed: that a game crashes,
prints or obeys `c_shutdown`, that a ticker fires at a given moment, that clients call or that a
signal arrives. `ForceExit` is not fair either: `ShutdownCompletes` says that the
process ends without the watchdog's `os.Exit`. `ModSync` assumes that its ticker starts the next
probe. Its liveness holds once faults stop and the file stays as it is.

`ShardConsole`: goroutines run and timers fire; nothing is assumed of the game, of clients and of
readers, so `LifeEnds` holds although a game hangs and nobody reads its output. Receivers and pollers of
dead lives need not run either, but that a receiver whose game is gone takes the signal some time, although
commands keep coming (`select` picks at random). A poller's injections are strongly fair while the channel has
room: its timer is set again each time, and the receiver takes commands in between. `ApiCommand`: a
command whose body is there runs on; bodies need not come and games need not take commands.
`EpochLink`: the ticker ticks, handlers run, a listener reads and a request is answered some time;
connections may break at any moment and nobody has to connect.

## 4. Proofs

The theorems hold for every value of the constants the modules' assumptions allow.

| Theorem | States | Assumes besides the module's assumptions |
|---|---|---|
| `TypeCorrect` | `Spec => []TypeOK` of `Supervisor` | |
| `BinariesAreIdle` | `Spec => []BinariesIdle` | |
| `ImplementsBinaryStore` | `Spec => BinariesImplemented` | |
| `ModTablesAreExclusive` | `Spec => []ModTablesExclusive` | |
| `NeverWedgedWithoutApi` | `Spec => []NeverWedged` | `ApiOps = {}` |
| `BuffersTyped` | `Spec => []TypeOK` of `ApiCommand` | |
| `CommandsAreFaithful` | `Spec => []CommandsFaithful` of `ApiCommand` | |
| `ConsoleTypes`, `OrdersAreOfThisLife`, `AcksAreHonest` | `Spec => []TypeOK`, `[]OrdersOfThisLife`, `[]AckHonest` of `ShardConsole` | |
| `FilesIntact`, `HandlersMirror`, `ReadingsAreReal` | `Spec => []Intact`, `[]Mirrored`, `ReadingReal` of `FileStore` | |
| `StreamNeverGoesBack` | `LinkSpec => NeverBack` of `EpochLink` | |
| `HubTyped`, `ReferencesExact`, `HubPanicsOnlyOvertaken` | `Spec => []TypeOK`, `[]RefExact`, `[]HubSurvives` of `LogHub` | |
| `LinesAreStable` | while the hub is alive, the block a streamer fills is nobody else's | |
| `EnvironmentFaithful`, `TimersFaithful`, `PacketsFramed` | `Spec => []EnvFaithful`, `[]BossesFaithful`, `[]WellFramed` of `Telemetry` | |
| `ProbeIsSound`, `ListIsExact`, `PatchingSettles`, `PlanIsComplete` | `Spec => []ProbeSound`, `ListExact`, `PatchSettles`, `PlanCovers` of `ModSync` | |
| `ParserExact` | the parser of override files finds the mods of `Enabled(file)`, each once, for any sequence of entries | |
| `RingTypes`, `SlotsAreStable`, `NothingIsMissed` | `Spec => []TypeOK`, `[]SlotStable`, `[]NothingMissed` of `StatusRing` | |
| `WatchersNeverGoBack` | no watcher of `StatusRing` is sent an older snapshot after a newer one | |

*The binaries.* `BinariesIdle` says nothing about the control state that makes it true, so it is not
inductive. `LifeInv` adds that runners are off whenever main is outside the part of a life in which they may run
(`RunnersJoined`: what the WaitGroup guarantees) and that a runner that is off has no live
process (`NoProcWithoutRunner`: what the kill ladder guarantees, reaping included). It needs no
fact about the API or the monitors, which is why the theorem has no assumption on them.
The refinement is proved from the same invariant: a runner's start maps to `Enter`, exits to
`Leave`, steamcmd's beginning to `BeginWrite`, everything else to a stutter.

*The mod tables.* `OwnsLock`: whoever is inside holds `ModBusyGate`. It covers monitors of dead
lives, which no test of one life would meet.

*Never wedged.* Without requests, `Signalled` says that while main waits, some runner is still to
act, or the bus holds an action: a runner posts before it leaves, and the bus is drained
only while the runners of the last life are gone. With requests the theorem is false (section 5): a handler cancels
without being a runner.

*Commands.* `CommandInv` is about commands that have met no report: no report then has a buffer while
the command reads or copies, what it has read is its own, and so is its copy afterwards. `Gated` says that commands
exclude each other, so a doubled entry of the pool is taken by nobody else before the copy is made; nothing
is said, or needed, of what the pool holds, so a mix of earlier requests leaves nothing behind. With that,
everything a pipe holds is whole (`PipeInv`).

*The ring.* `RingInv` has three parts: the last `Depth` snapshots are still in their slots, the one
being rendered excepted (`Kept`); the published one is the newest or the one before it (`Newest`); and the
snapshots begun since a reader loaded the pointer bound how far the cursor has gone beyond what it
reads (`Reading`). `Apart` is the arithmetic: numbers less than `Depth` apart have different slots.
`NothingMissed` speaks of a resting probe only. `Owed` holds at every step: what a watcher without a token
has sent, or is sending, is what is published, or the probe still has it on its list. It needs the
registration: a watcher that is not off is an observer, so the list a publication makes has it.
`SentInOrder` (what is sent, being sent and published never falls in this order) gives `WatchersNeverGoBack`,
which no run checks.

*The console.* `OrdersInv`: while a life's receiver serves and its game lives, every order in the
channel is of that life. What carries it is the flush before serving: a receiver that serves has
emptied the channel after its game had started, and whoever posts an order in the meantime belongs
to the current life. `AckInv`: from the drain on, an acknowledgement that is there, and every
line with `K_SAVED` that is still unread, of any life, means that the game has carried out this reboot's final
save, or that the history `stray` is set. `Printed` says what a step prints: of the final save's echo
nothing, of its answer the word (`ObeyAck`), of talk the word and `stray` (`TalksAck`). That the order
was given in this life is `OrdersOfThisLife`.

*Files.* `StoreInv` has four parts. `Fresh`: while the time of modification is that of the first
stat and nobody wrote in that very tick, what has been read is a prefix of the file, and after the
end of the file all of it, but for the reader of the version. `Sound` and `FilesSound`: a copy about to be renamed, and a file, is
whole or has an excuse, and flushed or has an excuse; a power cut keeps it, and without the second
half it would not. `GateHeld`: a handler that is busy holds the gate alone. `Streaming` and
`Cloning`: between its rename and its answer the master's file is the handler's body unless a boot's
copy crossed it. `Alone` treats the many steps that change one job and no file in one way; `Same` is
all that a step may do to the jobs of others.

*Epochs.* `EpochInv`: along the way of a stamp, from the counter through the beat under way, the
channel of capacity one, the handler's hand and the connection to the listener, numbers never rise
(`Ladder`), and there is one beat at a time (`OneBeat`). A listener that loses its connection begins
again at the top.

*The log hub.* `RefExact` by itself is not inductive: nothing in it says that the hub sends only while it
holds a block, nor that a block being filled is nobody else's. `HubInv` has six parts. `Typed`: the types, a
hub that fans out has a block, a handler has one exactly while it writes. `Counted`: the number of
connections is that of the handlers that have counted themselves, so it stays in range.
`Departures`: a departure in the queue is its handler's only one and its channel is still open, a
channel is closed only after its handler has left, a slot used again has an empty channel and is unknown
to the hub, and a closed channel the hub still knows means that some departure was `overtaken`;
this last part gives `Survival`, which is `HubSurvives`. `Filling`: what a streamer fills is not in the
pool, in a queue or in another's hands; without it the count set to 1 at `Offer` could forget holders.
`Exact`: the equation of `RefExact`. The last two hold while the hub is `Alive` only: a panicked hub
never gives back what it held. The counts are cardinalities, and the lemmas `CountOne`, `CountChange`, `CountSend` and
`CountTake` say by how much each changes when one hand, one end of a queue or one channel does, so
no induction over the clients is needed; `HoldersDelta` adds them up, and each action then moves the
reference count by as much as the holders. `Exact` also keeps a block out of
the pool while anybody holds it: a count that falls to 0 has no holder left (`Unheld`).

*Telemetry.* `Carried` is what makes the two faithfulness properties inductive: whatever is under way in
the stream of a shard was packed from a state of `States`, environments in the master's only and bosses
under the number of the shard. The rest is arithmetic of the two codecs, for every value and not only
those at the limits: `DayGroups` and `TempGroups` (seven-bit groups put together again are the number,
the sign bit is apart from them), `SeasonByte` and `StateByte` (fields that share a byte do not spill),
`BossShown` (rounding, cap and the two values for unknown and alive), then `EnvDecoded` and
`BossDecoded` for whole packets. `LineDecoded` says what the decoder makes of a line of either
kind, and the steps that store it follow: a line of bosses sets those of its own shard only
(`BossesOf` is `Home`), so packets of two shards, late lines of dead worlds and reports commute. `EnvExact` and
`BossesExact` say which number is stored in every case, the disputed ones of section 5 included;
the two properties say less there and follow.

*The mods: the parsers.* `ParserExact` is about files of any length. Every entry begins at depth one
(`EntriesBegin`): if some did not, there would be a first that does not (`FirstPlace`, from the
well-foundedness of the natural numbers), but the one before it begins at depth one, goes through the
levels of its seven tokens and ends where it began (`EntryLevels`). Then the kind and the depth of
every token are known (`TokenOf`), the first token of an entry is all that opens one (`FileOpens`),
and its own field is all that can disable it (`FileDisables`): a nested field is a level too deep,
and the field of a later entry lies behind a brace that closed depth two. `Numbered`, `Taken`, `OnceTaken`, `Kept` and
`Merged` say that the lists have the elements they should, none of them twice. `AnswerRead` is the
scanner of the answer: a mod that keeps its time and does not follow one that lost it gets its own.

*The mods: the verdict.* `ModInv` adds to the types what the tables mean while the world moves on.
`Recorded`: until the plan is made, the local table agrees with the copies on the list, since only a
download changes them. `Answered`: the remote table has the times of the moment the workshop was
asked, for the mods still `Legible`; a publication or a withdrawal in between does not disturb it, because
`asked` is history and a withdrawal makes fewer mods legible. `Judged`: a verdict of "none" had both
an answer and nothing outdated. `ProbeIsSound` and `PlanIsComplete` follow; `ListIsExact` and `PatchingSettles` need
the types and the lemmas on lists only (`AppendedLines`: what is appended, and that a line is
swallowed only where the file ends in a comment, the first one and no other).

Only model-checked:

* Everything about liveness (`FateShared`, `CrashRecovered`, `StopTakesEffect`, `RestartRecycles`,
  `ShutdownCompletes`, `NoLeak`, `HandlersEnd`, `WatchersCatchUp`, `ModsCatchUp`, `LifeEnds`,
  `ScriptReturns`, `LastShown`, `CommandsEnd`), which TLAPS does not prove under fairness.

## 5. Where the code and its documents disagree

Shown by a run of its own:

* `MCEpochSilent`: the sensor's inner loop reads `scanner.Bytes()` and never calls `scanner.Scan()`
  (`game.go:325-368`). The line stays empty, no stamp is compared, and the loop, which feeds its own
  watchdog, ends neither with the connection nor with the life. `readme.md:36` says that "a single
  successful API ping is enough for the peer to detect the state mutation and initiate a cascading
  restart"; `api.md:152` describes the stream as its source.

Shown by a passing run when one thing in it is changed:

* A stop between `main.go:159` (the cancel function is published) and `main.go:161` (the bus is
  drained) cancels the new life and loses its action. The runners see a cancelled context and leave
  without posting; main waits for ever, where `api.md:229` promises a restart "without risking it
  staying offline". Add `NeverWedged` to the invariants of `MCSupervisorApi.cfg`.
* Subscriptions and departures of a log client travel in two buffered channels (`api.go:1156-1161`).
  A departure that overtakes its subscription leaves a closed channel in the hub's set; the next
  line panics the process, and `api.md:427` says "The game process will never stall". `HubSurvives`
  excludes the overtaking by the history `overtaken`; replace it by `Alive` in `MCLogHub.cfg`.
* `api.go:348` and the deferred function at `api.go:299` both return the buffer. Two requests of
  different endpoints share it, and a command reaches the pipe with bytes of a report; `api.md:175`
  promises a 1:1 transfer. `CommandsFaithful` excuses it by the history `met`; let `Sent` note `h`
  whatever `met[h]` is.
* A mod without `time_updated` takes the time of the next record (`update.go:1027`); that mod is
  then never compared, and `readme.md:25` says "Automatically detects and updates enabled mods."
  `ProbeSound` and `PlanCovers` speak of the `Legible` mods only; replace `Legible(targets)` by
  `Range(targets)`.
* The copies of a boot do not take the gate (`main.go:144-145`), although `api.md:232` says that all
  file operations share one: a write answered with success may leave the shards with different mod
  files. `Mirrored` excludes a crossing by the history `crossed`; drop it.
* `复制文件` ignores the error of `Sync` (`update.go:1086`), where `原子写文件流` and `原子写文件` fail. `Intact`
  names it as an excuse (`~job[p].safe` in `Excuse`); drop it.
* Any line of the master that contains `K_SAVED` and is no echo acknowledges the save a reboot waits for
  (`game.go:711`): a player's chat, or what a client's command prints, ends the wait early; only the
  line about outdated mods is checked for chat (`game.go:722-728`). A late line of the life before does the same.
  `AckHonest` excuses both by the history `stray`; drop it.
* A second stat cannot see a write in the tick of the first (`update.go:1096`), so a copy may be
  torn after all (`api.md:300-308`). `ReadingReal` excludes it by `blurred`; drop it.

Met while modelling, in the models where they belong, without a run of their own:

* With `crash_restart` off a restart only stops the server: its halt clears the switch it has just set
  (`main.go:208-212`, `api.md:229`).
* A restart's wake-up is not queued: it is dropped when main has read the switch and does not listen
  yet (`api.go:461-464`, `api.md:229`).
* A stop during the updates before a life is drained with the bus, and the switch is not read again before
  the game starts (`main.go:161`, `api.md:222`).
* An output reader may set the ready flag after its runner has cleared it (`game.go:699`, `api.md:63`).
* Nightmare phases are sent as calm 0 to dawn 3, others 4 (`parasite.lua:120-130`); `api.md:85` has none 0 and
  calm 1 to dawn 4. `EnvFaithful` only asks that they are told apart.
* The day count exceeds its documented cap by one (`api_status.go:208`, `api.md:73`); `EnvFaithful` only asks that
  it does not fall below the cap there.
* A boss timer beyond the last number is shown as 126 (`parasite.lua:23`, `29`); `api.md:91-99` says 127.
  `BossesFaithful` allows both.
* Sentinels do not always mean offline (`api_status.go:246-269`, `api.md:56`).
* A command longer than 1 KiB is accepted (`api.go:30`, `api.md:177`).
* The reader of a master's output asks a flag of its own whether a reboot is under way, not the one the reboot
  sets (`game.go:470`, `718`, `474`): a "mod out of date" line during the countdown posts another action. The
  next life drains it, so nothing follows in the models.
* The caves' poller injects its script without asking `enable_parasite` (`game.go:442`, `392`).
* A reboot of a node without a master addresses its first save to the master (`game.go:505`), so it has none.
* A line longer than the console's buffer ends the reading of the console for good (`main.go:245`), as it leaves
  no room for the next read.
* Every result of a racing request sets its timer again (`update.go:608`), so it may take several times its five
  seconds.

## 6. Not modelled, and the plan

Done: `Supervisor` with `BinaryStore` (the core), `LogHub`, `ApiCommand`, `Telemetry`, `StatusRing`,
`ModSync`, then `ShardConsole`, `FileStore`, `EpochLink`, and the proofs of section 4. What could follow:

1. `RacingRequest`: the addresses raced by a request and the timer that every result sets again
   (`update.go:562-625`). Its outcome is in `ModSync` and `Supervisor` as a query that answers or
   fails.
2. `ConsoleReader` (`main.go:235-283`): one loop over one buffer.

Not modelled in the parts that are:

* In `FileStore`: targets with one path (they are the mod file without the clone), the limit of one
  megabyte, the copies of the world and Lua files at a boot, which have the same protocol, and the
  five attempts of a rename.
* In `ShardConsole`: the other shard of a node with both; a command to all is two posts, and the
  shards share nothing else that is modelled there. The 50 ms write deadline to a hung game: the
  command is lost, as in the model.
* In `EpochLink`: the watchdog of five seconds, which the spinning loop feeds for ever, and the
  epochs of the caves, whose code is the same.

Left out for good: the HTML page, the build tools and generated script, the configuration parser (it runs once; its
result is the constants), routing and sockets, installation and environment checks, resource sampling
(the code does not call it). They hold no state that the rest depends on.
