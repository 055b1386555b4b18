# mdt-dialout-collector: TLA+ verification project

Specifications of the collector, from its configuration file to the records it
delivers, checked with TLC on small instances, and TLAPS proofs of the safety
properties of its components for every value of their parameters.

## 1. The system

The collector accepts gRPC dial-out telemetry from Cisco, Juniper, Nokia and
Huawei routers and forwards it to Kafka or ZeroMQ. It runs as a daemon
(`mdt_dialout_collector.cc`) or inside a host process such as pmtelemetryd
(`bridge/grpc_collector_bridge.cc`).

| Component | State | Operations | Talks to |
|---|---|---|---|
| Srv state machines (`core/mdt_dialout_core.cc`) | stream objects (`state_`, `replies_`), completion queue, server, `shutdown_done_` | `XBind`, `RunFsm`, `Spawn`, `Proceed`, `Shutdown` | gRPC (completions), registry, message handling |
| Shutdown registry (same file) | `g_active_servers` under a mutex | `register_server`, `unregister_server`, `initiate_shutdown` | every worker, every stopping thread |
| Library bridge | `g_active_workers`, parameter maps | `start_…`, `LoadOptions`, `LoadThreads`, `InitOptions`, `stop_…` | host threads, registry, configuration |
| Daemon | worker, watcher and poller threads, signal pipe | `main`, thread creation, signal handler, watcher loop, joins | registry, label map, ZeroMQ context |
| Label map | `label_map`, `label_map_mutex` | two loaders, reload (exclusive), lookup (shared) | watcher, all workers, rapidcsv |
| Message handling | per-worker sequence number | `HandleMessage`, decoders, `ParsePeer`, `BuildEnvelope` | label map, delivery |
| Kafka delivery | producer queue, opaques, polling thread | `AsyncKafkaProducer`, callbacks, flush on close | broker |
| ZeroMQ delivery | heap payloads, PUSH and PULL queues | `ZmqPusher`, `ZmqPoller`, free | poller or host |
| Configuration handlers | five maps of strings | `lookup_*_parameters` | start-up, every worker |
| Logging | two named loggers in spdlog's registry | register the boot logger, then the real one | start-up |
| Socket options, TLS | none (files, sockets) | `slurp`, socket mutator | bind |

What is hard here: objects that delete themselves on completion events;
shutdown, which crosses five threads and two libraries and must happen in one
order; raw pointers used after a lock is released; a lock held during a call
that can block; payload pointers and callbacks whose owner changes during a
call; signals that arrive at any time; a configuration file that is read once
per section; and label files written by hand, with positions that must line up
across three columns. `PROJECT.json` lists each hazard at its line, with the
properties that cover it.

What makes each component correct:

* **Srv**: one operation per stream, one armed handler, no operation on a queue
  that is shut down, everything read is handled, shutdown ends the worker.
* **Registry, bridge, daemon**: the registry is exact, no Srv is used after its
  destruction, each worker is drained and joined once, stop and SIGTERM end.
* **Start-up**: sections read from different versions of a file still fit
  together, the threads are the configured ones, a bad file ends in a refusal
  and not in a crash.
* **Label map**: a host gets the names of its own row, whatever the file's shape;
  a message sees one version, a reload catches up with the file.
* **Decoding**: no value of a message gets lost on the way into the record, and
  the record names the router it came from.
* **Delivery**: every payload has one owner or one sequence number, whose fate
  is known; a slow consumer or dead broker never holds a worker for ever.

## 2. Modules

| Module | Models | Uses |
|---|---|---|
| `SrvLife` | the contract of one Srv: bind, serve sessions, drain, close | |
| `SrvFsm` | one Srv in detail | refines `SrvLife` |
| `SrvFsm_proofs` | theorems about `SrvFsm` | extends `SrvFsm` |
| `Registry` | the registry and the workers, each Srv as `SrvLife` | checked against `SrvLife` per worker |
| `Registry_proofs` | lemmas about the registry's operations | extends `Registry` |
| `Bridge` | library mode: start and stop | extends `Registry` |
| `Bridge_proofs` | theorems about `Bridge` | extends `Bridge`, `Registry_proofs` |
| `Collector` | the daemon: main, signals, watcher, reload, poller | extends `Registry` |
| `Collector_proofs` | theorems about `Collector` | extends `Collector`, `Registry_proofs` |
| `Config` | the configuration handlers as functions from a file to a section | |
| `Startup` | daemon and library from the command line to serving workers | extends `Config` |
| `Startup_proofs` | theorems about `Startup` and the lookups of `Config` | extends `Startup` |
| `LabelMap` | the CSV reader and the two label loaders, on symbols | |
| `Decoders` | the JSON decoders, `ParsePeer`, the envelope | |
| `Ingest` | label file and message in, record out | extends `LabelMap`, `Decoders` |
| `Ingest_proofs` | theorems about `Ingest`, the reader, the loaders and the decoders | extends `Ingest` |
| `KafkaPath` | payloads, producer, polling thread, label lock | |
| `KafkaPath_proofs` | theorems about `KafkaPath` | extends `KafkaPath` |
| `ZmqDelivery` | payload ownership over ZeroMQ | |
| `ZmqDelivery_proofs` | theorems about `ZmqDelivery` | extends `ZmqDelivery` |
| `MC*` | instances for TLC | |

An operator named `X_Something` next to `X`, introduced by "Mutant", is a
faulty variant of `X`. It is used by no specification: substituting it for `X`
must make the property that `PROJECT.json` pairs it with fail.

Type correctness is an invariant of its own for `SrvFsm`; in the others `TypeOK` is the first conjunct of an invariant
(`WorkersAccounted`, `LabelsFromOneVersion`, `OneOwner`, `SeqAccounted`,
`WorkersAsConfigured`).

### How state and actions correspond to the code

`SrvFsm`. `Streams` are the addresses stream objects can have: a deleted
stream's address is used again. `ops` and `cq` are the operations started and
the completions not yet returned by `Next()`; `Proceed(s)` is one turn of
`RunFsm`'s loop, from `Next()` through the whole of `Proceed(ok)`, including
`HandleMessage()`. `ok` is the string "true" or "false". The four vendors' code
is the same up to types, hence one module. `Shutdown()` is three steps, as other
threads see it: the exchange and the start of `Server::Shutdown`, its return,
and `cq_->Shutdown()`. The contract assumed of gRPC is in the module's header.
Starting an operation on a shut-down queue makes the worker "aborted".

`Registry`, `Bridge`, `Collector`. One action per lock-protected section or
blocking call. `fault` records how the process died (abort, dangling pointer,
`exit`); then no thread takes a step. Each Srv has at most one session here;
that is sound for what these modules check because the contract only asks
whether sessions remain. `EverySrvKeepsContract` checks that the registry
drives each Srv as `SrvLife` says, and `ImplementsSrvLife` that the detailed Srv
does too. In `Bridge`, `stop` is not held back by a `start` that is
still creating workers; the history variable `missed` keeps the workers that were
not yet in the vector when a stop last took it. In `Collector`, the label map gives for each host the version of the
file its label came from; `RaiseOnWatcher` is a signal whose handler runs on the
watcher's thread and interrupts its `read()`.

`Config`, `Startup`. A file is a function from the keys it sets to values; a
value of another type is `Mistyped`. Each `lookup_*` function is an operator of
the same name, each helper (`LoadOptional`, `LoadMandatory`, …) too; a section
with one failed load is `Failed`. `++` joins the entries that are stored under
different conditions; they have no key in common. `Startup` has one action per section, because
`set_parameters()` opens the file again for each: between two of them the
environment may replace the file or remove a path. `LoadFails` is the
difference between the two programs: `std::exit()`, or a log line and a return.
A worker's `XBind()` and `XFsmCtrl()` are one step, with the parameters they
read (`KeysThere`, of the data manipulation `DataKeys`), the TLS files, the socket options, the address and the
producer's construction in the code's order. The host may call `InitOptions()`
in any state of the library: it takes the values, throws on a key that is not
there, or, next to a start in another thread that is replacing one of the three
maps it reads, meets a data race that may end the process.

`LabelMap`. A file is a sequence of symbols: a character the code looks at is a
symbol (quote, CR, LF, separator, `=`, `%`, `/`), and so is a run of characters
it does not look at. `ParseSymbol` is the body of rapidcsv's loop with the
parameters the loaders pass. `RemoveRow(GetRowCount())` erases one past the
end, which is undefined; the outcome taken is libstdc++'s: the last row goes,
and a file without rows crashes. A node name read past the end of its shorter
vector is `Garbage` or the end of the process. The loops of the code are
recursive functions over the symbols read so far, whose step is an operator of
its own (`ParseSymbol`, `ReplaceSymbol`, `TokenSymbol`).

`Decoders`, `Ingest`. JSON values are tagged records. A Cisco field has any of
name, timestamp, value and sub-fields; a gNMI path element has a name and keys,
and its value is a scalar, JSON text (JSON or JSON_IETF, which parses or does not)
or of another type. `Exceeds` is jsoncpp's limit: its parser throws on a value
that nests `StackLimit` levels deep (1000 in the library), and nothing catches
it. Of rapidcsv's byte order marks only the UTF-8 one is built.
`Ingest` writes a label file as an operator would (style, line ends, byte order
mark, quoting, sentinel, blank line), loads and rewrites it, and delivers
messages of peers in each of gRPC's peer formats. What comes in from outside is
constrained by named assumptions, which TLC checks for the instance:

* `CharactersAssumption`: addresses and names are made of `Characters`, which do
  not include line ends, byte order marks or the word for garbage.
* `FilesAssumption`: rows of text. For a pretag map only, an address is neither
  quoted nor has a `/` of its own, and a name has no `%`; the loader cuts there.
* `InputsAssumption`: gRPC's own spelling of a peer, with a port number that
  `std::stoi` takes (`PortNumbers`) unless the peer is a local socket.
* `FieldsAssumption`, `MessagesAssumption`: what protobuf yields. A field's oneof
  holds nothing or a scalar; sub-fields nest no deeper than `MaxDepth` (protobuf
  refuses deeper messages); `Depth` only names how deep a field nests.
* `LimitsAssumption`: jsoncpp's limit leaves room for a Cisco message as deep as
  protobuf parses it (1000 levels against three for each of 100, and the array
  and objects around them).
* `PlacesAssumption`: `Places` are positions (of a row, of a sub-field, and so on).
  It may be the set of all of them; a run takes the short ones.

`KafkaPath`. A message is what its decoder can tell apart (does it parse, which
parts does it have, which rows decode); a body is empty, raw or JSON with some
rows. `send()` is two steps: the record is in the producer (`SendTaken`) before
the `unique_ptr` releases the opaque (`ReleaseOpaque`), and the polling thread
may run the callback in between. `close()` joins that thread and flushes without
a timeout, so that its `purge()` is never reached. The contract of librdkafka is
in the module's header.

`ZmqDelivery`. A payload is an address; the module follows it through
`ZmqPusher`, the two queues and `ZmqPoller`. An allocation that fails ends the
process and is left out.

## 3. Runs

| Run | Result | What it shows |
|---|---|---|
| `srv` | pass | the Srv disciplines and the refinement of `SrvLife`; shutdown ends the worker; streams of gone clients are reclaimed |
| `bridge_stop` | pass | two stopping threads, any time and again: exact registry, one join each, no worker lost, stop means stopped for every worker it could see, contract kept; a stop that finds the workers serving returns |
| `collector_daemon` | pass | one label version per message, clean exit, reload catches up, SIGTERM ends the daemon |
| `startup` | pass | no missing key, no dummy delivery, threads as configured, known exits and host deaths |
| `ingest` | pass | labels as written, no mixed labels, no value or update lost but in the cases stated, records name their peer, the messages that end the process are known |
| `kafka_delivery` | pass | sequence numbers account for every payload, opaques are freed once, reload and close proceed without a broker |
| `zmq_payloads` | pass | one owner, sent payloads consumed, small backlogs never block shutdown |
| `bridge_early` | violation | a stop before `register_server` never returns |
| `bridge_dangling` | violation | two overlapping stops use a destroyed Srv |
| `collector_eintr` | violation | SIGTERM delivered to the watcher thread is lost, with the watcher |
| `startup_host` | violation | a logging section that does not load crashes the host |
| `ingest_ptm` | violation | the documented pretag map loses its last host |

Each violation contradicts a sentence of the bridge header, the man page, the
changelog or a README, quoted in `PROJECT.json`. What the passing runs bound,
and what they leave open:

* `AbortOnlyAtFirstSpawn`: a Shutdown() that goes through between
  `register_server()` and the first `Spawn()` does abort the process; the
  property says that this is the only place.
* `StopMeansStopped`: when every stop that was called has returned, every worker
  has ended, but for those in `missed`: a start that still runs had created or
  was to create them and had not recorded them. Such
  workers exist: a stop between a `pthread_create()` and its `push_back()` returns
  1 and leaves a worker running, which only a later stop joins, although `stop` is
  documented as safe at any point and as joining all workers. A Srv drained in this way can go away under a later stop,
  hence the second case of `DanglingNeedsTwoStops`.
* A malformed label file on SIGUSR1 ends the daemon with `std::exit()`, from the
  watcher and with the map cleared; `Collector` has it as a fault. SIGTERM
  before a worker has registered hangs the daemon as it hangs `stop()`.
* `ExitUnderWorkers`: bad numbers of a later vendor exit the daemon while the
  workers of earlier vendors run. `HostDeathsKnown`: besides the logging section,
  a second `start` throws from spdlog's registry, and `InitOptions()` throws
  before the sections are loaded (no start yet, one under way, or one that
  failed, which `start` does not report) and when a vendor has no socket, since
  that vendor's keys were never stored.
* `NoMixedLabels` excepts pretag labels without a node name: the names of the
  rows behind them move up to other hosts, and the last are read past the end.
* `GnmiUpdatesVisible` states what is lost: a later Juniper update of a path above
  or below replaces a value or a subtree, and Nokia updates that differ in their
  keys only overwrite each other. A Juniper header extension that does not parse
  costs the whole notification, whose record is delivered with an empty body. Of
  a Nokia value only JSON_IETF text is stored, and as text; a value of any other
  type becomes an empty string.
* `MessageDeathsKnown`: on the Kafka path a peer without a port number (a local
  socket) ends the process, and so does a raw body (a Cisco message that is no
  protobuf, say) or a Juniper update whose path and value together nest as deep as
  jsoncpp's limit; a Juniper JSON value that does so alone ends it on both paths.
  A Cisco GPB-KV or a Nokia message never does.
* `PayloadFromPeer` is about the peers the parser knows: IPv6 peers whose brackets are percent-encoded, as
  newer gRPC releases write them, keep the encoding in the address and so miss
  their label.
* Labels appear under `nkey` and `pkey` for a host of the map and
  under `node_id` and `platform_id` for others, while both READMEs show the
  latter for all.
* The two Cisco toggles have to differ as strings: neither need be "true", and
  then GPB-KV messages are dropped. Library mode reads the label keys and never
  loads a map.
* With endless overlapping traffic (`MaxTraffic = 0`) a reload starves and so
  does a SIGTERM behind it; with a backlog larger than the PULL queue and the
  poller's context shut down, closing a worker's socket lingers for ever.

### Bounds

* `srv`: three stream addresses allow one armed handler and two sessions, one
  ending while another starts, and reuse of an address. Two callers give every
  race on `shutdown_done_`. Three messages with `max_replies` 2 reach the limit
  on one stream while another has one. `Connect` asks for a free address: a
  bound, not the code's.
* `bridge_stop`: with two workers one may still be starting, or be created and
  not recorded, while the other serves, or is drained while the other waits. Two
  stoppers are all a race needs, and a stop may come before, between and after
  the creations. The safety properties are proved for any number of both.
* `collector_daemon`: two signals and two file versions give a reload during a
  rewrite, a SIGTERM behind a SIGUSR1 and a second signal during shutdown. Two
  hosts make a half-filled map; two payloads per message are Huawei's maximum.
* `startup`: two vendors (one before, one behind the other in the order of
  `LoadThreads()`), three good files and every file that differs from one of
  them in one key, in each way the code can tell apart; one edit or removal in
  between; two starts. `Number` is `std::stoi` at the ends of its ranges and on
  a number with a tail.
* `ingest`: up to two rows out of four kinds, three-row files for rows that lack
  a field, every combination of style, line end, mark, sentinel and blank line.
  One message per file, out of fields nested three deep (`MaxDepth`), looked at
  in all places of up to four positions, and up to three updates
  over seven paths that include prefixes of each other; no state but the map and
  the number carries over to the next message. `StackLimit` is 14, the least
  that `LimitsAssumption` allows for `MaxDepth`; messages reach it from below, at
  it and above it, by a value alone and by a path.
* `zmq_payloads`: high-water marks of 2 and 1 with three payloads fill both queues.
* `kafka_delivery`: a queue of two records with up to four payloads fills it and
  leaves room for callbacks out of order. Two rows give a message that decodes
  in part.

Deadlock checking is off where the system may stop: in `zmq_payloads` (payloads
may be left in queues after shutdown, and a worker may linger for ever), in the
`startup` runs (a process that exited, or serves, has no step left here) and in
the `ingest` runs (the bound on messages). Elsewhere the end of a run is an
explicit stuttering step.

### Fairness

* A thread that can take a step takes one in the end (weak fairness per thread).
* gRPC completes what can complete, and its deadline timer fires; nothing is
  assumed of clients: they may keep streams open for ever.
* Nobody is obliged to call start or stop, to raise a signal or to edit a file.
* A session of a draining Srv ends although traffic goes on (strong fairness):
  the deadline cancels it, which `srv` shows in detail.
* A writer that finds the label lock free again and again gets it (strong
  fairness). Nothing holds new readers back, as `std::shared_mutex` does not.
* Every Kafka record is reported: `message.timeout.ms` is finite. No
  acknowledgement is assumed. ZeroMQ's PULL socket serves its peers in turn.

## 4. Proofs

Every theorem below is checked by TLAPS and holds for all values of the
constants that satisfy the named assumptions of its module. Those only say what
a constant is (a finite set, a number, a sequence without repetition), that a
queue holds at least one element, that a label file has a first version, and
that the daemon's only stopping thread is its watcher; for `Ingest` they say
what files, peers and messages are (section 2). The counters that bound a
run (messages, signals, starts, edits) are constants too: each theorem holds for
every bound. Each module proves `Spec => []IInv` first, from `Init => IInv` and a
lemma per action; TLC checked each `IInv` on the instance of the module's run
before it was proved.

### SrvFsm_proofs

| Theorem | Statement |
|---|---|
| `Invariance` | `Spec => []IInv` |
| `TypeCorrect` | `Spec => []TypeOK` |
| `TagSafety` | `Spec => []OneTagPerStream` |
| `AcceptorSafety` | `Spec => []OneAcceptor` |
| `AbortSafety` | `Spec => []AbortOnlyAtFirstSpawn` |
| `RepliesSafety` | `Spec => []RepliesBounded` |
| `DrainSafety` | `Spec => []DrainedAtExit` |
| `DestructorSafety` | `Spec => []DestructorFindsItDone` |
| `NoHandlingAfterShutdown` | `Spec => NothingHandledAfterShutdown` |
| `Refinement` | `Spec => ImplementsSrvLife` |

None of the properties is inductive alone. That no operation is started on a
shut-down queue rests on this chain: the queue is shut down only after the
server is down (`ShutdownInv`); the server goes down only when no RPC is bound
to a stream (`ShutdownInv`); a stream in state Read or Finishing has an RPC
(`CallInv`), so only streams in state Create are left; their request can only
have failed, because the server is not up (`AcceptorInv`); and which stream a
completion belongs to, and in which state it is, is `TagInv`. `TakenInv` counts
the messages between Read and `HandleMessage()` as the completed Reads in the
queue, and is what makes `DrainedAtExit` inductive. Each action preserves each
part of `IInv` by a lemma or step of its own. `DestructorSafety` says that
`~Srv()`, which calls `Shutdown()` too, always finds it done.

### Bridge_proofs, Collector_proofs

| Theorem | Statement | in |
|---|---|---|
| `Invariant` | `Spec => []IInv` | both |
| `RegistryAlwaysExact` | `Spec => []RegistryExact` | both |
| `SrvContractKept` | `Spec => EverySrvKeepsContract` | both |
| `NoWorkerLost` | `Spec => []WorkersAccounted` | `Bridge` |
| `StoppedMeansEnded` | `Spec => []StopMeansStopped` | `Bridge` |
| `OneStopNeverDangles` | `Spec => []DanglingNeedsTwoStops` | `Bridge` |
| `OneVersionPerMessage` | `Spec => []LabelsFromOneVersion` | `Collector` |
| `NothingRunsAtExit` | `Spec => []CleanExit` | `Collector` |
| `DaemonNeverDangles` | `Spec => []NoDanglingSrv` | `Collector` |

`Registry_proofs` has what both need: `RegistryInv` (types, the registry exact
and free of duplicates, `stop[w]` in step with the phase of worker `w`) is kept
by every operation of the registry, and every step of a worker or a stopping
thread is a step of that worker's `SrvLife`, or none of it. The refinement is
proved per worker: the initial state maps to the contract's, and each action
maps to one of the contract's actions or to a stutter.

In `Bridge` the place of a worker is followed from `pthread_create()` to
`pthread_join()`. `WorkersAccounted` counts places; `PlaceInv` says instead that
the vectors are free of duplicates and disjoint, and `JoinedInv` that a worker
is joined once it is in none of them. `MissedInv` ties `missed` to the start:
once a stop has taken the vector of workers, whatever the start has still to
record, and whatever it has recorded since, is a missed worker.
`OneStopNeverDangles` needs `SoleInv`: while a single thread has called stop and
has missed no worker, the Srv objects left in its snapshot have not been told to shut down, so none of them has been
destroyed; a second stop breaks exactly this, as `bridge_dangling` shows. The daemon has one stopping
thread, the watcher, which calls `initiate_shutdown()` once. `OneStopper` says
the same there, and `DaemonNeverDangles` states for the daemon the property that
the library violates.

For the labels, `LockInv` ties the lock to the watcher's program counter and
says that only a worker inside `HandleMessage()` holds labels it looked up;
`LabelInv` says that while the writer is out the whole map, and all that the
readers have seen of it, is of one version. While the watcher inserts, the map
is a mixture, and the lock keeps the readers out. `CleanExit` rests on the order
of `main()`'s joins (`MainInv`, `WatcherInv`).

### ZmqDelivery_proofs

| Theorem | Statement |
|---|---|
| `Invariant` | `Spec => []IInv` |
| `EveryPayloadOwned` | `Spec => []OneOwner` |

`OneOwner` says that there are as many places that hold a payload as there are
payloads. `IInv` has no count: the workers' hands, the two queues and the
poller's hands are disjoint, hold no payload twice, and make up the heap. The
equality of the counts follows from a bijection.

### KafkaPath_proofs

| Theorem | Statement |
|---|---|
| `Invariant` | `Spec => []IInv` |
| `NumbersAccounted` | `Spec => []SeqAccounted` |
| `OpaqueNeverTwice` | `Spec => []OpaqueFreedOnce` |
| `DataYieldsPayload` | `Spec => []DataIsDelivered` |

The five places of a sequence number (with the worker, in the producer, in a
report, acknowledged, lost) are disjoint (`ApartInv`) and cover `1..seq`
(`CoverInv`); a number has one report (`ReportInv`). `FreedInv` says how often
each opaque was freed, in every state, and `EndedInv` that a closed producer has
nothing left. `BodiesInv` bounds the payloads of a message, which keeps numbers
within `MaxSeq`, and `DataInv` follows the bodies of the current message.

### Startup_proofs

| Theorem | Statement |
|---|---|
| `Invariant` | `Spec => []IInv` |
| `NoKeyIsMissing` | `Spec => []KeysAlwaysThere` |
| `TlsFilesWereThere` | `Spec => []CredentialsChecked` |
| `NoDummyDelivery` | `Spec => []RealDelivery` |
| `ThreadsAsConfigured` | `Spec => []WorkersAsConfigured` |
| `ExitsUnderWorkersKnown` | `Spec => []ExitUnderWorkers` |
| `DeathsKnown` | `Spec => []HostDeathsKnown` |

A file is any function from keys to values here, not one of the run's few. The
lemmas `MainLooksUp`, `DataLooksUp` and `KafkaLooksUp` say what a lookup that
succeeded leaves in its map (`MainShape`, `DataShape`, `KafkaShape`).
`SectionsInv` says which shapes hold at which point of the start, the Kafka
section's relative to the main section that was stored, not to the file:
`RealDelivery` follows from that, because the delivery method is not read twice.
`LoadedInv` keeps the shapes of the sections that are loaded (`LogsShape`, from
`LogsLookUp`, for the logging one) in all states after that, failed starts
included: with them `OptionsFound` says which keys `InitOptions()` finds.
`ThreadsInv` says that the workers seen so far belong to vendors that
`LoadThreads()` has passed, once each; without the assumption that `Order` names
no vendor twice a second call would replace a vendor's threads. `LoggersInv`
keeps the loggers in step with the point of the start, and the two starts of a
library apart, for `HostDeathsKnown`.

### Ingest_proofs

| Theorem | Statement |
|---|---|
| `Invariant` | `Spec => []IInv` |
| `LabelsAsWrittenHolds` | `Spec => []LabelsAsWritten` |
| `NoMixedLabelsHolds` | `Spec => []NoMixedLabels` |
| `PayloadFromPeerHolds` | `Spec => []PayloadFromPeer` |
| `MessageDeathsKnownHolds` | `Spec => []MessageDeathsKnown` |
| `GnmiUpdatesVisibleHolds` | `Spec => []GnmiUpdatesVisible` |
| `CiscoLeavesKeptHolds` | `Spec => []CiscoLeavesKept` |

Files of any length, cells of any text, messages of any number of updates, and
fields nested to any depth. `IInv` itself is short: `label_map` is what the loader
makes makes of the loaded file, the process ended as the loader did or with a message
that throws, and the record is the one of the last message under these labels. The work is in
the functions.

*Induction.* The library states induction with an operator as a parameter, which
the provers here cannot instantiate. `Induction` says it of a set: one that
contains 0 and with each number the next contains every number. Otherwise,
subtracting one would map the finite set of the missing numbers up to some number
injectively into itself without reaching that number. `SeqInduction` is the same
for sequences that grow by an element. Each recursive function has a "trace" lemma
(`ParseTrace`, `TokenTrace`, `DownTrace`, …): it is a function, with that value at
the start and that step. What follows is proved about the trace.

*Reading what was written.* `ParseConcat` makes parsing compositional.
`ParseQuotes` and `UnquoteQuoted` say that a cell comes back from its quotes,
doubled quotes included; `ParseField` that a written field becomes its cell;
`CsvLineParsed` and `PtmLineParsed` that a line becomes its row. `LineRead` adds
either line end, `LinesRead` all lines, `FileRead` a last line without an end, and
`WrittenRead` the byte order mark: the reader yields the rows the operator meant,
the blank line and the sentinel as rows of their own.

*Loading.* `TokensOfLabel` and `AddressOfPtm` take a pretag row apart,
`NodeNamesOf` says that node names line up when every row has one, `FillMapRows`
that the last row of a host counts. `CsvLoaded` and `PtmLoaded` give `Loaded`,
from which the first two theorems follow with `IInv`; `NoGarbage` says that no
row's text is what an out-of-bounds read yields, so a well-formed file never ends
the process.

*Peers.* `PeerParsed`: `ParsePeer()` gives back address and port of an IPv4 peer and
of an IPv6 peer in plain brackets, whatever colons the address has. With the
labels theorem this is `PayloadFromPeerHolds`.

*gNMI.* `MetAfter` and `UpdateFound` say that a value is at its path right after
its update, `Untouched` that an update of a path which parts from it somewhere
(`FirstDifference`) leaves it there, by induction down to the parting place.

*Cisco.* `FieldJsonDefined` shows by induction on `Depth` that the recursion over
sub-fields is defined, and `JsonOfPlace` by induction along a place that the JSON
found there is the one of the field found there.

*Depth.* `NestedParts` says that a value nests one level deeper than its parts,
from the two ways to count its levels (`LevelSteps`, `LevelFront`). With it, a
Cisco field adds three levels to its sub-fields at most (`CiscoFieldNested`, by
induction on `Depth`), a Nokia object has two, and an update of Juniper reaches
no deeper than its path and value together (`DownNested`, `SetMetricNested`),
so the tree no deeper than one of them (`JuniperNested`). `LimitsAssumption` and
`PeerParsed` do the rest.

### What stays with TLC

* Liveness, since fairness needs `ENABLED`: `ShutdownEndsWorker`,
  `HangupReclaimed`, `ReadyStopTerminates`, `ReloadCatchesUp`, `TermEndsDaemon`,
  `SmallBacklogEnds`, `ReloadProceeds`, `CloseEnds` and
  `SentIsConsumed`.
* The properties of the runs that expect a violation.
* That percent-encoded IPv6 peers miss their label, and what a malformed label
  file is loaded as, beyond `NoMixedLabels`.

## 5. Not modelled

* `DataManipulation::MetaData()`, `AppendLabelMap()` and
  `DataWrapper::DisplayDataWrapper()`: nothing calls them.
* Of the vendored libraries, what the collector does not run: `KafkaConsumer`,
  `AdminClient`, `KafkaRecoverableProducer`, transactions, rapidcsv's writing and
  its other accessors.
* The spelling of JSON text, the header fields of messages, timestamps and UUIDs;
  the members beside "metrics" of a Juniper body (tags, sensor path, header
  extension), which nest a few levels and replace no update; the type conversions
  of scalar values; the Huawei decoder's field names.
* rapidcsv's UTF-16 input (`HAS_CODECVT`), which is not built.
* Log output, sinks and levels; socket options beyond success and failure.
* Protocol buffer definitions and generated code, build files, packages, images.
* The instant between the worker's last `Next()` and the stopping thread's
  return from `cq_->Shutdown()`: the code touches the Srv no more by then.
* Failing allocations, and threads that cannot be created in the daemon.

## 6. Plan

Done: every module of section 2. Every invariant and every action property that
a passing run checks is proved. Open:

1. `Bridge`: that `HostWaits` excludes the abort of a first `Spawn()` after a
   shutdown, composed from `SrvFsm`'s `AbortSafety` and `SrvContractKept`.
2. The liveness properties, with a prover that handles `ENABLED`.
3. The Huawei decoder's rows as JSON trees, next to the other three decoders.
