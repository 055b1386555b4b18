----------------------------- MODULE Collector -----------------------------
(***************************************************************************)
(* The standalone daemon (mdt_dialout_collector.cc): main() creates the     *)
(* workers, then the signal watcher, then joins everything; the signal      *)
(* handler only writes to a pipe; the watcher reloads the label map on      *)
(* SIGUSR1 and shuts the servers down on SIGTERM or SIGINT.  Workers read   *)
(* the label map under a shared lock for the whole of HandleMessage(); a    *)
(* reload holds the lock exclusively.                                       *)
(***************************************************************************)
EXTENDS Registry

CONSTANTS
    Watcher,            \* the signal_watcher thread, the only stopper
    Order,              \* the workers in the order LoadThreads() creates them
    Hosts,              \* the exporters that every version of the file labels
    MaxSignals,         \* bound: signals raised in one behaviour
    MaxVersions,        \* bound: how often the operator rewrites the file
    MaxTraffic,         \* bound: messages handled; 0 = endless traffic
    MaxPayloads,        \* payloads one HandleMessage() delivers at most (Huawei: 2)
    BadFiles            \* environment: may a rewritten file be malformed

ASSUME StoppersAssumption == Stoppers = {Watcher}
ASSUME OrderAssumption == Order \in Seq(Workers) /\ IsInjective(Order)
ASSUME BoundsAssumption ==
    /\ {MaxSignals, MaxTraffic, MaxPayloads} \subseteq Nat
    /\ MaxVersions \in Nat \ {0}
    /\ BadFiles \in BOOLEAN

VARIABLES
    start,      \* workers main() has still to create
    joinable,   \* workers main() has still to join
    mainpc,     \* where main() is
    pipe,       \* bytes in shutdown_pipe
    signals,    \* signals raised so far
    watcher,    \* where signal_watcher is
    zmqCtx,     \* the poller's ZeroMQ context
    poller,     \* the ZmqSingleThreadPoller thread
    file,       \* the label file: its version, and whether it parses
    label_map,  \* per host: the version its label came from
    image,      \* the version of the file the reload has read
    rows,       \* its rows the reload has yet to insert
    writer,     \* the reload holds label_map_mutex exclusively
    readers,    \* workers that hold it shared
    seen,       \* per worker: the labels used by the message being handled
    traffic     \* messages handled so far

mainVars  == <<start, joinable, mainpc, zmqCtx, poller>>
sigVars   == <<pipe, signals>>
labelVars == <<file, label_map, image, rows, writer>>
readVars  == <<readers, seen, traffic>>
vars == <<registryVars, mainVars, sigVars, watcher, labelVars, readVars>>

Unlabelled == 0     \* no entry in label_map; versions count from 1

TypeOK ==
    /\ RegistryTypeOK
    /\ start \in Seq(Workers) /\ joinable \in Seq(Workers)
    /\ mainpc \in {"create", "watcher", "join", "poller", "last", "exited"}
    /\ pipe \in Seq({"TERM", "USR1"})
    /\ signals \in 0..MaxSignals
    /\ watcher \in {"none", "read", "lock", "load", "insert", "shutdown", "ended",
                   "interrupted"}
    /\ zmqCtx \in {"up", "shutdown"} /\ poller \in {"running", "ended"}
    /\ file \in [version : 1..MaxVersions, parses : BOOLEAN]
    /\ label_map \in [Hosts -> 0..MaxVersions]
    /\ image \in 1..MaxVersions
    /\ rows \in SUBSET Hosts
    /\ writer \in BOOLEAN
    /\ readers \in SUBSET Workers
    /\ seen \in [Workers -> Seq(0..MaxVersions)]
    /\ traffic \in 0..MaxTraffic

\* main() has loaded the configuration and the label map, started the poller
\* and installed the signal handlers.
Init ==
    /\ RegistryInit
    /\ start = Order /\ joinable = <<>>
    /\ mainpc = "create"
    /\ pipe = <<>> /\ signals = 0
    /\ watcher = "none"
    /\ zmqCtx = "up" /\ poller = "running"
    /\ file = [version |-> 1, parses |-> TRUE]
    /\ label_map = [h \in Hosts |-> 1]
    /\ image = 1 /\ rows = {}
    /\ writer = FALSE
    /\ readers = {} /\ seen = [w \in Workers |-> <<>>] /\ traffic = 0

-----------------------------------------------------------------------------
(* main().                                                                 *)

CreateWorker ==
    /\ mainpc = "create"
    /\ start # <<>>
    /\ phase' = [phase EXCEPT ![Head(start)] = "created"]
    /\ start' = Tail(start)
    /\ joinable' = Append(joinable, Head(start))
    /\ UNCHANGED <<stop, session, registry, todo, sd, fault, mainpc, zmqCtx, poller,
                   sigVars, watcher, labelVars, readVars>>

CreateWatcher ==
    /\ mainpc = "create"
    /\ start = <<>>
    /\ watcher' = "read"
    /\ mainpc' = "join"
    /\ UNCHANGED <<registryVars, start, joinable, zmqCtx, poller, sigVars, labelVars, readVars>>

\* Mutant: main() does not wait for the workers.
JoinWorker_NoWait ==
    /\ mainpc = "join"
    /\ mainpc' = "poller"
    /\ UNCHANGED <<registryVars, start, joinable, zmqCtx, poller, sigVars, watcher, labelVars, readVars>>

JoinWorker ==
    /\ mainpc = "join"
    /\ \/ /\ joinable # <<>>
          /\ phase[Head(joinable)] = "destroyed"
          /\ joinable' = Tail(joinable)
          /\ UNCHANGED mainpc
       \/ /\ joinable = <<>>
          /\ mainpc' = "poller"
          /\ UNCHANGED joinable
    /\ UNCHANGED <<registryVars, start, zmqCtx, poller, sigVars, watcher, labelVars, readVars>>

JoinPoller ==
    /\ mainpc = "poller"
    /\ poller = "ended"
    /\ mainpc' = "last"
    /\ UNCHANGED <<registryVars, start, joinable, zmqCtx, poller, sigVars, watcher, labelVars, readVars>>

JoinWatcher ==
    /\ mainpc = "last"
    /\ watcher \in {"ended", "interrupted"}
    /\ mainpc' = "exited"
    /\ UNCHANGED <<registryVars, start, joinable, zmqCtx, poller, sigVars, watcher, labelVars, readVars>>

\* A blocking recv() fails with ETERM once the context is shut down.
PollerEnds ==
    /\ poller = "running"
    /\ zmqCtx = "shutdown"
    /\ poller' = "ended"
    /\ UNCHANGED <<registryVars, start, joinable, mainpc, zmqCtx, sigVars, watcher, labelVars, readVars>>

-----------------------------------------------------------------------------
(* Signals and the watcher.                                                *)

\* The handler writes one byte to the pipe.
Raise(sig) ==
    /\ signals < MaxSignals
    /\ signals' = signals + 1
    /\ pipe' = Append(pipe, sig)
    /\ UNCHANGED <<registryVars, mainVars, watcher, labelVars, readVars>>

\* The handler runs on the watcher's own thread while it waits in read().  It
\* is installed without SA_RESTART, so read() fails with EINTR, the watcher
\* takes that for the end of the pipe and returns; the byte stays unread.
RaiseOnWatcher(sig) ==
    /\ signals < MaxSignals
    /\ watcher = "read"
    /\ pipe = <<>>
    /\ signals' = signals + 1
    /\ pipe' = <<sig>>
    /\ watcher' = "interrupted"
    /\ UNCHANGED <<registryVars, mainVars, labelVars, readVars>>

ReadSignal ==
    /\ watcher = "read"
    /\ pipe # <<>>
    /\ pipe' = Tail(pipe)
    /\ watcher' = IF Head(pipe) = "USR1" THEN "lock" ELSE "shutdown"
    /\ UNCHANGED <<registryVars, mainVars, signals, labelVars, readVars>>

\* Mutant: the reload takes no lock.
LockExclusive_NoLock ==
    /\ watcher = "lock"
    /\ watcher' = "load"
    /\ UNCHANGED <<registryVars, mainVars, sigVars, labelVars, readVars>>

\* ReloadLabelMaps(): std::unique_lock on label_map_mutex.
LockExclusive ==
    /\ watcher = "lock"
    /\ readers = {}
    /\ writer' = TRUE
    /\ watcher' = "load"
    /\ UNCHANGED <<registryVars, mainVars, sigVars, file, label_map, image, rows, readVars>>

\* Mutant: the rows read at the last reload are inserted again.
ReadFile_Stale ==
    /\ watcher = "load"
    /\ label_map' = [h \in Hosts |-> Unlabelled]
    /\ rows' = Hosts
    /\ watcher' = "insert"
    /\ UNCHANGED <<registryVars, mainVars, sigVars, file, image, writer, readVars>>

\* LoadLabelMap() or LoadLabelMapPreTagStyle(): clear, then read the file; one
\* that does not parse ends the process with std::exit().
ReadFile ==
    /\ watcher = "load"
    /\ label_map' = [h \in Hosts |-> Unlabelled]
    /\ \/ /\ file.parses
          /\ rows' = Hosts
          /\ image' = file.version
          /\ watcher' = "insert"
          /\ UNCHANGED fault
       \/ /\ ~file.parses
          /\ fault' = "exit"
          /\ UNCHANGED <<image, rows, watcher>>
    /\ UNCHANGED <<phase, stop, session, registry, todo, sd, mainVars, sigVars,
                   file, writer, readVars>>

\* One row of the vectors read from the file goes into the map.
InsertRow(h) ==
    /\ watcher = "insert"
    /\ h \in rows
    /\ label_map' = [label_map EXCEPT ![h] = image]
    /\ rows' = rows \ {h}
    /\ UNCHANGED <<registryVars, mainVars, sigVars, watcher, file, image, writer, readVars>>

Unlock ==
    /\ watcher = "insert"
    /\ rows = {}
    /\ writer' = FALSE
    /\ watcher' = "read"
    /\ UNCHANGED <<registryVars, mainVars, sigVars, file, label_map, image, rows, readVars>>

\* The operator rewrites the file (external).
Rewrite(parses) ==
    /\ file.version < MaxVersions
    /\ file' = [version |-> file.version + 1, parses |-> parses]
    /\ UNCHANGED <<registryVars, mainVars, sigVars, watcher, label_map, image, rows, writer, readVars>>

RunShutdown ==
    /\ watcher = "shutdown"
    /\ Snapshot(Watcher) \/ ShutdownStep(Watcher)
    /\ UNCHANGED <<mainVars, sigVars, watcher, labelVars, readVars>>

\* Mutant: the watcher returns and leaves the poller blocked in recv().
ShutdownCtx_Missing ==
    /\ watcher = "shutdown"
    /\ sd[Watcher] = "returned"
    /\ watcher' = "ended"
    /\ UNCHANGED <<registryVars, mainVars, sigVars, labelVars, readVars>>

\* zmq_poller.get_zmq_ctx().shutdown(), and the watcher returns.
ShutdownCtx ==
    /\ watcher = "shutdown"
    /\ sd[Watcher] = "returned"
    /\ zmqCtx' = "shutdown"
    /\ watcher' = "ended"
    /\ UNCHANGED <<registryVars, start, joinable, mainpc, poller, sigVars, labelVars, readVars>>

-----------------------------------------------------------------------------
(* A worker handling a message: HandleMessage() under a shared lock.        *)

BeginMessage(w) ==
    /\ session[w]
    /\ w \notin readers
    /\ ~writer
    /\ MaxTraffic > 0 => traffic < MaxTraffic
    /\ traffic' = IF MaxTraffic > 0 THEN traffic + 1 ELSE traffic
    /\ readers' = readers \cup {w}
    /\ seen' = [seen EXCEPT ![w] = <<>>]
    /\ UNCHANGED <<registryVars, mainVars, sigVars, watcher, labelVars>>

\* deliver_payload() -> BuildEnvelope(): the peer's label is looked up.
Lookup(w, h) ==
    /\ w \in readers
    /\ Len(seen[w]) < MaxPayloads
    /\ seen' = [seen EXCEPT ![w] = Append(@, label_map[h])]
    /\ UNCHANGED <<registryVars, mainVars, sigVars, watcher, labelVars, readers, traffic>>

EndMessage(w) ==
    /\ w \in readers
    /\ readers' = readers \ {w}
    /\ seen' = [seen EXCEPT ![w] = <<>>]
    /\ UNCHANGED <<registryVars, mainVars, sigVars, watcher, labelVars, traffic>>

\* A session is disposed of by Proceed(), never inside HandleMessage().
SessionStep(w) ==
    /\ w \notin readers
    /\ Open(w) \/ Dispose(w)
    /\ UNCHANGED <<mainVars, sigVars, watcher, labelVars, readVars>>

ThreadStep(w) ==
    /\ WorkerStep(w)
    /\ UNCHANGED <<mainVars, sigVars, watcher, labelVars, readVars>>

-----------------------------------------------------------------------------
Running == Alive /\ mainpc # "exited"

MainStep ==
    /\ Alive
    /\ CreateWorker \/ CreateWatcher \/ JoinWorker \/ JoinPoller \/ JoinWatcher

PollerStep == Alive /\ PollerEnds

WatcherStep ==
    /\ Alive
    /\ \/ ReadSignal \/ LockExclusive \/ ReadFile \/ Unlock \/ RunShutdown \/ ShutdownCtx
       \/ \E h \in Hosts : InsertRow(h)

WorkerThreadStep(w) == Alive /\ ThreadStep(w)

MessageStep(w) ==
    /\ Alive
    /\ \/ SessionStep(w) \/ BeginMessage(w) \/ EndMessage(w)
       \/ \E h \in Hosts : Lookup(w, h)

EnvironmentStep ==
    /\ Running
    /\ \/ \E sig \in {"TERM", "USR1"} : Raise(sig) \/ RaiseOnWatcher(sig)
       \/ \E parses \in {TRUE, ~BadFiles} : Rewrite(parses)

Ended == ~Running /\ UNCHANGED vars

Next ==
    \/ MainStep
    \/ PollerStep
    \/ WatcherStep
    \/ \E w \in Workers : WorkerThreadStep(w) \/ MessageStep(w)
    \/ EnvironmentStep
    \/ Ended

Spec == Init /\ [][Next]_vars

(***************************************************************************)
(* Fairness.  Every thread keeps running and finishes the message it is     *)
(* handling.  A session ends once its Srv is drained, traffic or not: the   *)
(* deadline cancels it (SrvFsm, ShutdownEndsWorker), hence strong fairness. *)
(* A waiting writer that finds the lock free again and again takes it in    *)
(* the end, but std::shared_mutex does not hold back new readers for it.    *)
(***************************************************************************)
Fairness ==
    /\ WF_vars(MainStep)
    /\ WF_vars(PollerStep)
    /\ WF_vars(WatcherStep)
    /\ SF_vars(Alive /\ LockExclusive)
    /\ \A w \in Workers :
          /\ WF_vars(WorkerThreadStep(w))
          /\ WF_vars(Alive /\ EndMessage(w))
          /\ SF_vars(Alive /\ stop[w] = "draining" /\ SessionStep(w))

FairSpec == Spec /\ Fairness

-----------------------------------------------------------------------------
(* Properties.                                                             *)

\* A message is labelled from one complete version of the file: no lookup
\* falls into the middle of a reload, when the map is cleared and refilled,
\* and the two payloads of one Huawei message carry the same version.
LabelsFromOneVersion ==
    /\ TypeOK
    /\ \A w \in Workers : \A i, j \in DOMAIN seen[w] :
          seen[w][i] = seen[w][j] /\ seen[w][i] # Unlabelled

\* main() returns only when every Srv is destroyed and out of the registry, no
\* message is being handled and the helper threads have ended: nothing runs
\* while static objects (label_map, loggers) are destroyed.
CleanExit ==
    mainpc = "exited" =>
        /\ registry = <<>> /\ readers = {}
        /\ \A i \in 1..Len(Order) : phase[Order[i]] = "destroyed"
        /\ watcher = "ended" /\ poller = "ended"

\* A SIGUSR1 at the head of the pipe brings the map to the version the file
\* has by then, or a later one.
ReloadCatchesUp ==
    \A v \in 1..MaxVersions :
        (watcher = "read" /\ pipe # <<>> /\ Head(pipe) = "USR1" /\ file.version = v)
            ~> (\A h \in Hosts : label_map[h] >= v) \/ fault # "none"

\* SIGTERM ends the daemon: if every worker serves before the watcher acts on a
\* byte in the pipe, main() returns.
Serving == \A i \in 1..Len(Order) : phase[Order[i]] \notin {"none", "created", "registered"}

TermPending == \E i \in DOMAIN pipe : pipe[i] = "TERM"

TermEndsDaemon ==
    (Serving /\ TermPending /\ watcher \in {"none", "read", "lock", "load", "insert"})
        ~> (mainpc = "exited" \/ fault = "exit")

\* A SIGTERM received once the watcher is up and every worker serves ends the
\* daemon, whichever thread the signal is delivered to.
AnyTermEndsDaemon ==
    (Serving /\ TermPending /\ watcher \notin {"shutdown", "ended"})
        ~> (mainpc = "exited" \/ fault = "exit")

=============================================================================
