-------------------------- MODULE Collector_proofs --------------------------
(***************************************************************************)
(* Proofs about Collector, for any workers, exporters, signals, versions of *)
(* the label file and messages: a message is labelled from one version of   *)
(* the file, and main() returns only when nothing runs any more.            *)
(***************************************************************************)
EXTENDS Collector, Registry_proofs

-----------------------------------------------------------------------------
(* The inductive invariant.                                                *)

\* main() has created a worker, or has still to; it joins those it created,
\* and goes on only when they have ended.
MainInv ==
    /\ IsInjective(start) /\ IsInjective(joinable)
    /\ \A w \in ToSet(start) : phase[w] = "none"
    /\ \A w \in ToSet(joinable) : phase[w] # "none"
    /\ \A w \in Workers : phase[w] \in {"none", "destroyed"} \/ w \in ToSet(joinable)
    /\ \A i \in 1..Len(Order) : Order[i] \in ToSet(start) \/ phase[Order[i]] # "none"
    /\ mainpc # "create" => start = <<>>
    /\ mainpc \in {"poller", "last", "exited"} => joinable = <<>>
    /\ mainpc \in {"last", "exited"} => poller = "ended"

\* The poller ends after the watcher has shut the ZeroMQ context down, which
\* is the last thing the watcher does.
WatcherInv ==
    /\ mainpc = "create" => watcher = "none"
    /\ zmqCtx = "shutdown" => watcher = "ended"
    /\ poller = "ended" => zmqCtx = "shutdown"

\* label_map_mutex: held by the reload, or by workers in HandleMessage().
LockInv ==
    /\ writer <=> watcher \in {"load", "insert"}
    /\ writer => readers = {}
    /\ \A w \in readers : session[w]
    /\ \A w \in Workers \ readers : seen[w] = <<>>

\* While no reload holds the lock, the labels are those of one version, and so
\* are the labels that the messages being handled have seen; a reload inserts
\* rows of the version it has read.
LabelInv ==
    /\ ~writer =>
          \E v \in 1..MaxVersions :
              /\ \A h \in Hosts : label_map[h] = v
              /\ \A w \in Workers : \A i \in DOMAIN seen[w] : seen[w][i] = v
    /\ watcher = "insert" => \A h \in Hosts \ rows : label_map[h] = image

IInv ==
    /\ RegistryInv
    /\ TypeOK
    /\ MainInv
    /\ WatcherInv
    /\ LockInv
    /\ LabelInv

-----------------------------------------------------------------------------
(* What the steps have in common.                                          *)

\* main() has created nothing; every exporter has its label.
LEMMA InitIInv == Init => IInv
<1> SUFFICES ASSUME Init PROVE IInv
  OBVIOUS
<1> USE DEF Init
<1>1. RegistryInv /\ \A w \in Workers : phase[w] = "none"
  BY RegistryStarts DEF RegistryInit
<1>2. /\ <<>> \in Seq(Workers) /\ IsInjective(<<>>) /\ ToSet(<<>>) = {}
      /\ <<>> \in Seq({"TERM", "USR1"}) /\ <<>> \in Seq(0..MaxVersions)
      /\ Order \in Seq(Workers) /\ IsInjective(Order)
  BY NoMembers, OrderAssumption
<1>3. MaxVersions \in Nat /\ 1 \in 1..MaxVersions
  BY BoundsAssumption
<1>4. MaxSignals \in Nat /\ MaxTraffic \in Nat
  BY BoundsAssumption
<1>5. TypeOK
  <2>1. file \in [version : 1..MaxVersions, parses : BOOLEAN]
    BY <1>3
  <2>2. label_map \in [Hosts -> 0..MaxVersions]
    BY <1>3
  <2>3. seen \in [Workers -> Seq(0..MaxVersions)]
    BY <1>2
  <2>4. signals \in 0..MaxSignals /\ traffic \in 0..MaxTraffic
    BY <1>4
  <2> QED
    BY <1>1, <1>2, <1>3, <2>1, <2>2, <2>3, <2>4 DEF TypeOK, RegistryInv
<1>6. MainInv
  <2>1. ToSet(Order) \subseteq Workers /\ \A i \in 1..Len(Order) : Order[i] \in ToSet(Order)
    BY <1>2, MembersOf, LenProperties DEF ToSet
  <2> QED
    BY <1>1, <1>2, <2>1 DEF MainInv
<1>7. WatcherInv /\ LockInv
  BY DEF WatcherInv, LockInv
<1>8. LabelInv
  <2>1. \A w \in Workers : DOMAIN seen[w] = {}
    OBVIOUS
  <2> QED
    BY <1>3, <2>1 DEF LabelInv
<1> QED
  BY <1>1, <1>5, <1>6, <1>7, <1>8 DEF IInv

\* A step that neither creates nor joins a thread.
LEMMA MainKept ==
    ASSUME TypeOK, MainInv, UNCHANGED <<start, joinable, mainpc>>,
           poller = "ended" => poller' = "ended",
           \A w \in Workers : /\ phase'[w] = "none" <=> phase[w] = "none"
                              /\ phase[w] = "destroyed" => phase'[w] = "destroyed"
    PROVE  MainInv'
<1>1. ToSet(start) \subseteq Workers /\ ToSet(joinable) \subseteq Workers
  BY MembersOf DEF TypeOK
<1>2. \A i \in 1..Len(Order) : Order[i] \in Workers
  BY OrderAssumption, ElementOfSeq
<1> QED
  BY <1>1, <1>2 DEF MainInv

\* A step that touches neither the lock nor the labels.
LEMMA LabelsKept ==
    ASSUME LockInv, LabelInv, UNCHANGED <<labelVars, readVars>>,
           watcher' \in {"load", "insert"} <=> watcher \in {"load", "insert"},
           watcher' = "insert" => watcher = "insert",
           \A w \in readers : session'[w] = session[w]
    PROVE  LockInv' /\ LabelInv'
<1> USE DEF labelVars, readVars
<1>1. LockInv'
  BY DEF LockInv
<1>2. LabelInv'
  BY DEF LabelInv
<1> QED
  BY <1>1, <1>2

\* A step that leaves the workers and the registry alone.
LEMMA RegistryStill ==
    ASSUME RegistryInv, UNCHANGED registryVars
    PROVE  /\ RegistryInv'
           /\ \A w \in Workers : phase'[w] = phase[w] /\ session'[w] = session[w]
  BY RegistryKept DEF registryVars, RegistryInv, RegistryTypeOK

\* Steps of the registry: a worker, a client, the watcher shutting down.
LEMMA RegistrySteps ==
    ASSUME IInv, UNCHANGED <<mainVars, sigVars, watcher, labelVars, readVars>>, RegistryInv',
           \A w \in Workers : /\ phase'[w] = "none" <=> phase[w] = "none"
                              /\ phase[w] = "destroyed" => phase'[w] = "destroyed",
           \A w \in readers : session'[w] = session[w]
    PROVE  IInv'
<1>1. TypeOK'
  BY DEF IInv, TypeOK, RegistryInv, mainVars, sigVars, labelVars, readVars
<1>2. MainInv'
  BY MainKept DEF IInv, mainVars
<1>3. WatcherInv'
  BY DEF IInv, WatcherInv, mainVars
<1>4. LockInv' /\ LabelInv'
  BY LabelsKept DEF IInv
<1> QED
  BY <1>1, <1>2, <1>3, <1>4 DEF IInv

\* VendorThread(), the sessions, and initiate_shutdown() in the watcher.
LEMMA RegistryStepsIInv ==
    ASSUME IInv,
           \/ \E w \in Workers : ThreadStep(w) \/ SessionStep(w)
           \/ RunShutdown
    PROVE  IInv'
<1>1. phase \in [Workers -> Phases] /\ readers \subseteq Workers /\ session \in [Workers -> BOOLEAN]
  BY DEF IInv, TypeOK, RegistryTypeOK
<1>2. ASSUME NEW w \in Workers, ThreadStep(w) PROVE IInv'
  <2>1. RegistryInv'
    BY <1>2, WorkerStepKeeps DEF ThreadStep, IInv
  <2>2. \A v \in Workers : /\ phase'[v] = "none" <=> phase[v] = "none"
                           /\ phase[v] = "destroyed" => phase'[v] = "destroyed"
    BY <1>1, <1>2 DEF ThreadStep, WorkerStep, Register, Serve, Exit, Unregister, Destroy
  <2>3. session' = session
    BY <1>2 DEF ThreadStep, WorkerStep, Register, Serve, Exit, Unregister, Destroy
  <2> QED
    BY <1>2, <2>1, <2>2, <2>3, RegistrySteps DEF ThreadStep
<1>3. ASSUME NEW w \in Workers, SessionStep(w) PROVE IInv'
  <2>1. RegistryInv'
    BY <1>3, SessionStepKeeps DEF SessionStep, IInv
  <2>2. phase' = phase
    BY <1>3 DEF SessionStep, Open, Dispose
  <2>3. \A v \in readers : session'[v] = session[v]
    BY <1>1, <1>3 DEF SessionStep, Open, Dispose
  <2> QED
    BY <1>3, <2>1, <2>2, <2>3, RegistrySteps DEF SessionStep
<1>4. CASE RunShutdown
  <2>1. Watcher \in Stoppers
    BY StoppersAssumption
  <2>2. RegistryInv'
    BY <1>4, <2>1, ShutdownStepKeeps DEF RunShutdown, IInv
  <2>3. phase' = phase /\ session' = session
    BY <1>4 DEF RunShutdown, Snapshot, ShutdownStep, EnterShutdown, LeaveShutdown, ShutdownReturns
  <2> QED
    BY <1>4, <2>2, <2>3, RegistrySteps DEF RunShutdown
<1> QED
  BY <1>2, <1>3, <1>4

-----------------------------------------------------------------------------
(* main() and the poller.                                                  *)

\* A step of main() that creates no worker, or of the poller.
LEMMA MainMoves ==
    ASSUME IInv, UNCHANGED <<registryVars, start, joinable, zmqCtx, sigVars, watcher, labelVars, readVars>>,
           TypeOK', MainInv', mainpc' = "create" => watcher = "none",
           poller' = "ended" => zmqCtx = "shutdown"
    PROVE  IInv'
<1>1. RegistryInv' /\ \A w \in Workers : phase'[w] = phase[w] /\ session'[w] = session[w]
  BY RegistryStill DEF IInv
<1>2. WatcherInv'
  BY DEF IInv, WatcherInv
<1>3. readers \subseteq Workers
  BY DEF IInv, TypeOK
<1>4. LockInv' /\ LabelInv'
  BY <1>1, <1>3, LabelsKept DEF IInv
<1> QED
  BY <1>1, <1>2, <1>4 DEF IInv

\* pthread_create() of a worker.
LEMMA CreateWorkerIInv == IInv /\ CreateWorker => IInv'
<1> SUFFICES ASSUME IInv, CreateWorker PROVE IInv'
  OBVIOUS
<1> DEFINE w == Head(start)
<1>1. /\ mainpc = "create" /\ start # <<>>
      /\ phase' = [phase EXCEPT ![w] = "created"]
      /\ start' = Tail(start) /\ joinable' = Append(joinable, w)
      /\ UNCHANGED <<stop, session, registry, todo, sd, fault, mainpc, zmqCtx, poller,
                     sigVars, watcher, labelVars, readVars>>
      /\ start \in Seq(Workers) /\ IsInjective(start)
      /\ joinable \in Seq(Workers) /\ IsInjective(joinable)
  BY DEF CreateWorker, IInv, TypeOK, MainInv
<1>2. /\ w \in ToSet(start) /\ w \in Workers
      /\ Tail(start) \in Seq(Workers) /\ IsInjective(Tail(start))
      /\ ToSet(Tail(start)) = ToSet(start) \ {w}
  BY <1>1, Tailed
<1>3. phase[w] = "none" /\ w \notin ToSet(joinable)
  BY <1>2 DEF IInv, MainInv
<1> HIDE DEF w
<1>4. /\ joinable' \in Seq(Workers) /\ IsInjective(joinable')
      /\ ToSet(joinable') = ToSet(joinable) \cup {w}
  BY <1>1, <1>2, <1>3, Appended
<1>5. RegistryInv'
  BY <1>1, <1>2, <1>3, ThreadCreated DEF IInv
<1>6. \A v \in Workers : phase'[v] = IF v = w THEN "created" ELSE phase[v]
  BY <1>1 DEF IInv, RegistryInv, RegistryTypeOK
<1>7. TypeOK'
  BY <1>1, <1>2, <1>4, <1>5 DEF IInv, TypeOK, RegistryInv, sigVars, labelVars, readVars
<1>8. MainInv'
  <2>1. ToSet(start) \subseteq Workers /\ ToSet(joinable) \subseteq Workers
    BY <1>1, MembersOf
  <2>2. \A i \in 1..Len(Order) : Order[i] \in Workers
    BY OrderAssumption, ElementOfSeq
  <2>3. \A v \in ToSet(start') : phase'[v] = "none"
    BY <1>1, <1>2, <1>6, <2>1 DEF IInv, MainInv
  <2>4. \A v \in ToSet(joinable') : phase'[v] # "none"
    BY <1>2, <1>4, <1>6, <2>1 DEF IInv, MainInv
  <2>5. \A v \in Workers : phase'[v] \in {"none", "destroyed"} \/ v \in ToSet(joinable')
    BY <1>4, <1>6 DEF IInv, MainInv
  <2>6. \A i \in 1..Len(Order) : Order[i] \in ToSet(start') \/ phase'[Order[i]] # "none"
    BY <1>1, <1>2, <1>6, <2>2 DEF IInv, MainInv
  <2> QED
    BY <1>1, <1>2, <1>4, <2>3, <2>4, <2>5, <2>6 DEF IInv, MainInv
<1>9. WatcherInv'
  BY <1>1 DEF IInv, WatcherInv
<1>10. LockInv' /\ LabelInv'
  BY <1>1, LabelsKept DEF IInv
<1> QED
  BY <1>5, <1>7, <1>8, <1>9, <1>10 DEF IInv

\* pthread_create() of the watcher.
LEMMA CreateWatcherIInv == IInv /\ CreateWatcher => IInv'
<1> SUFFICES ASSUME IInv, CreateWatcher PROVE IInv'
  OBVIOUS
<1>1. /\ mainpc = "create" /\ start = <<>> /\ watcher' = "read" /\ mainpc' = "join"
      /\ UNCHANGED <<registryVars, start, joinable, zmqCtx, poller, sigVars, labelVars, readVars>>
  BY DEF CreateWatcher
<1>2. RegistryInv' /\ \A w \in Workers : phase'[w] = phase[w] /\ session'[w] = session[w]
  BY <1>1, RegistryStill DEF IInv
<1>3. watcher = "none"
  BY <1>1 DEF IInv, WatcherInv
<1>4. TypeOK'
  BY <1>1, <1>2 DEF IInv, TypeOK, RegistryInv, sigVars, labelVars, readVars
<1>5. MainInv'
  BY <1>1 DEF IInv, MainInv, registryVars
<1>6. WatcherInv'
  BY <1>1, <1>3 DEF IInv, WatcherInv
<1>7. readers \subseteq Workers
  BY DEF IInv, TypeOK
<1>8. LockInv' /\ LabelInv'
  BY <1>1, <1>2, <1>3, <1>7, LabelsKept DEF IInv
<1> QED
  BY <1>2, <1>4, <1>5, <1>6, <1>8 DEF IInv

\* pthread_join() of a worker that has ended; then main() goes on.
LEMMA JoinWorkerIInv == IInv /\ JoinWorker => IInv'
<1> SUFFICES ASSUME IInv, JoinWorker PROVE IInv'
  OBVIOUS
<1>1. /\ mainpc = "join"
      /\ UNCHANGED <<registryVars, start, zmqCtx, poller, sigVars, watcher, labelVars, readVars>>
  BY DEF JoinWorker
<1>2. joinable \in Seq(Workers) /\ IsInjective(joinable)
  BY DEF IInv, TypeOK, MainInv
<1>3. RegistryInv' /\ \A w \in Workers : phase'[w] = phase[w] /\ session'[w] = session[w]
  BY <1>1, RegistryStill DEF IInv
<1>4. CASE /\ joinable # <<>> /\ phase[Head(joinable)] = "destroyed"
           /\ joinable' = Tail(joinable) /\ UNCHANGED mainpc
  <2>1. /\ joinable' \in Seq(Workers) /\ IsInjective(joinable')
        /\ ToSet(joinable') = ToSet(joinable) \ {Head(joinable)}
    BY <1>2, <1>4, Tailed
  <2>2. TypeOK'
    BY <1>1, <1>3, <1>4, <2>1 DEF IInv, TypeOK, RegistryInv, sigVars, labelVars, readVars
  <2>3. phase' = phase
    BY <1>1 DEF registryVars
  <2>4. MainInv'
    BY <1>1, <1>4, <2>1, <2>3 DEF IInv, MainInv
  <2>5. WatcherInv'
    BY <1>1, <1>4 DEF IInv, WatcherInv
  <2>6. readers \subseteq Workers
    BY DEF IInv, TypeOK
  <2>7. LockInv' /\ LabelInv'
    BY <1>1, <1>3, <2>6, LabelsKept DEF IInv
  <2> QED
    BY <1>3, <2>2, <2>4, <2>5, <2>7 DEF IInv
<1>5. CASE joinable = <<>> /\ mainpc' = "poller" /\ UNCHANGED joinable
  <2>1. TypeOK'
    BY <1>1, <1>3, <1>5 DEF IInv, TypeOK, RegistryInv, sigVars, labelVars, readVars
  <2>2. MainInv'
    BY <1>1, <1>5 DEF IInv, MainInv, registryVars
  <2>3. poller' = "ended" => zmqCtx = "shutdown"
    BY <1>1 DEF IInv, WatcherInv
  <2> QED
    BY <1>1, <1>5, <2>1, <2>2, <2>3, MainMoves
<1> QED
  BY <1>4, <1>5 DEF JoinWorker

\* The helper threads end and are joined.
LEMMA HelpersIInv == IInv /\ (JoinPoller \/ JoinWatcher \/ PollerEnds) => IInv'
<1> SUFFICES ASSUME IInv, JoinPoller \/ JoinWatcher \/ PollerEnds PROVE IInv'
  OBVIOUS
<1>1. /\ UNCHANGED <<registryVars, start, joinable, zmqCtx, sigVars, watcher, labelVars, readVars>>
      /\ \/ mainpc = "poller" /\ poller = "ended" /\ mainpc' = "last" /\ UNCHANGED poller
         \/ mainpc = "last" /\ mainpc' = "exited" /\ UNCHANGED poller
         \/ zmqCtx = "shutdown" /\ poller' = "ended" /\ UNCHANGED mainpc
  BY DEF JoinPoller, JoinWatcher, PollerEnds
<1>2. RegistryInv'
  BY <1>1, RegistryStill DEF IInv
<1>3. TypeOK'
  BY <1>1, <1>2 DEF IInv, TypeOK, RegistryInv, sigVars, labelVars, readVars
<1>4. MainInv'
  BY <1>1 DEF IInv, MainInv, registryVars
<1>5. poller' = "ended" => zmqCtx = "shutdown"
  BY <1>1 DEF IInv, WatcherInv
<1>6. mainpc' = "create" => watcher = "none"
  BY <1>1 DEF IInv, WatcherInv
<1> QED
  BY <1>1, <1>3, <1>4, <1>5, <1>6, MainMoves

-----------------------------------------------------------------------------
(* Signals and the watcher.                                                *)

\* A step of the handler or of the watcher that leaves the labels alone.
LEMMA WatcherMoves ==
    ASSUME IInv, UNCHANGED <<registryVars, start, joinable, mainpc, poller, labelVars, readVars>>,
           pipe' \in Seq({"TERM", "USR1"}), signals' \in 0..MaxSignals,
           watcher' \in {"none", "read", "lock", "shutdown", "ended", "interrupted"} \/ watcher' = watcher,
           watcher \notin {"load", "insert"} \/ watcher' = watcher,
           zmqCtx' \in {"up", "shutdown"}, WatcherInv'
    PROVE  IInv'
<1>1. RegistryInv' /\ \A w \in Workers : phase'[w] = phase[w] /\ session'[w] = session[w]
  BY RegistryStill DEF IInv
<1>2. TypeOK'
  BY <1>1 DEF IInv, TypeOK, RegistryInv, labelVars, readVars
<1>3. MainInv'
  BY <1>1, MainKept DEF IInv
<1>4. readers \subseteq Workers
  BY DEF IInv, TypeOK
<1>5. LockInv' /\ LabelInv'
  BY <1>1, <1>4, LabelsKept DEF IInv
<1> QED
  BY <1>1, <1>2, <1>3, <1>5 DEF IInv

\* The handler writes a byte, on some thread or on the watcher's own.
LEMMA RaiseIInv ==
    ASSUME IInv, NEW sig \in {"TERM", "USR1"}, Raise(sig) \/ RaiseOnWatcher(sig)
    PROVE  IInv'
<1>1. pipe \in Seq({"TERM", "USR1"}) /\ signals \in 0..MaxSignals /\ MaxSignals \in Nat
  BY BoundsAssumption DEF IInv, TypeOK
<1>2. signals' \in 0..MaxSignals
  BY <1>1 DEF Raise, RaiseOnWatcher
<1>3. Append(pipe, sig) \in Seq({"TERM", "USR1"}) /\ <<sig>> \in Seq({"TERM", "USR1"})
  BY <1>1, AppendProperties
<1>4. pipe' \in Seq({"TERM", "USR1"})
  BY <1>3 DEF Raise, RaiseOnWatcher
<1>5. zmqCtx' = zmqCtx /\ zmqCtx \in {"up", "shutdown"}
  BY DEF Raise, RaiseOnWatcher, mainVars, IInv, TypeOK
<1>6. WatcherInv'
  BY DEF IInv, WatcherInv, Raise, RaiseOnWatcher, mainVars
<1> QED
  BY <1>2, <1>4, <1>5, <1>6, WatcherMoves DEF Raise, RaiseOnWatcher, mainVars

\* The watcher reads a byte.
LEMMA ReadSignalIInv == IInv /\ ReadSignal => IInv'
<1> SUFFICES ASSUME IInv, ReadSignal PROVE IInv'
  OBVIOUS
<1>1. pipe' \in Seq({"TERM", "USR1"}) /\ signals' \in 0..MaxSignals
  BY HeadTailProperties DEF IInv, TypeOK, ReadSignal
<1>2. zmqCtx' = zmqCtx /\ zmqCtx \in {"up", "shutdown"}
  BY DEF ReadSignal, mainVars, IInv, TypeOK
<1>3. watcher' \in {"lock", "shutdown"} /\ watcher = "read"
  BY DEF ReadSignal
<1>4. WatcherInv'
  BY <1>3 DEF IInv, WatcherInv, ReadSignal, mainVars
<1> QED
  BY <1>1, <1>2, <1>3, <1>4, WatcherMoves DEF ReadSignal, mainVars

\* The watcher ends; the poller may.
LEMMA ShutdownCtxIInv == IInv /\ ShutdownCtx => IInv'
<1> SUFFICES ASSUME IInv, ShutdownCtx PROVE IInv'
  OBVIOUS
<1>1. pipe' \in Seq({"TERM", "USR1"}) /\ signals' \in 0..MaxSignals
  BY DEF IInv, TypeOK, ShutdownCtx, sigVars
<1>2. WatcherInv'
  BY DEF IInv, WatcherInv, ShutdownCtx
<1> QED
  BY <1>1, <1>2, WatcherMoves DEF ShutdownCtx

-----------------------------------------------------------------------------
(* The label file and the reload.                                          *)

\* A step of the reload or the operator.
LEMMA ReloadMoves ==
    ASSUME IInv, RegistryInv', UNCHANGED <<mainVars, sigVars, readVars>>,
           \A w \in Workers : phase'[w] = phase[w] /\ session'[w] = session[w],
           watcher = watcher' \/ (watcher \in {"lock", "load", "insert"} /\ watcher' \in {"load", "insert", "read"}),
           file' \in [version : 1..MaxVersions, parses : BOOLEAN],
           label_map' \in [Hosts -> 0..MaxVersions],
           image' \in 1..MaxVersions, rows' \in SUBSET Hosts,
           writer' <=> watcher' \in {"load", "insert"}, writer' \in BOOLEAN,
           writer' => readers = {}, LabelInv'
    PROVE  IInv'
<1>1. TypeOK'
  BY DEF IInv, TypeOK, RegistryInv, mainVars, sigVars, readVars
<1>2. MainInv'
  BY MainKept DEF IInv, mainVars
<1>3. WatcherInv'
  BY DEF IInv, WatcherInv, mainVars
<1>4. readers \subseteq Workers
  BY DEF IInv, TypeOK
<1>5. LockInv'
  BY <1>4 DEF IInv, LockInv, readVars
<1> QED
  BY <1>1, <1>2, <1>3, <1>5 DEF IInv

\* std::unique_lock: no message is being handled.
LEMMA LockExclusiveIInv == IInv /\ LockExclusive => IInv'
<1> SUFFICES ASSUME IInv, LockExclusive PROVE IInv'
  OBVIOUS
<1>1. RegistryInv' /\ \A w \in Workers : phase'[w] = phase[w] /\ session'[w] = session[w]
  BY RegistryStill DEF IInv, LockExclusive
<1>2. LabelInv'
  BY DEF LabelInv, LockExclusive
<1> QED
  BY <1>1, <1>2, ReloadMoves DEF LockExclusive, IInv, TypeOK

\* The map is cleared and the file read; one that does not parse ends the process.
LEMMA ReadFileIInv == IInv /\ ReadFile => IInv'
<1> SUFFICES ASSUME IInv, ReadFile PROVE IInv'
  OBVIOUS
<1>1. /\ watcher = "load" /\ writer = TRUE /\ readers = {}
      /\ label_map' = [h \in Hosts |-> Unlabelled]
      /\ UNCHANGED <<phase, stop, session, registry, todo, sd, mainVars, sigVars, file, writer, readVars>>
      /\ \/ /\ rows' = Hosts /\ image' = file.version /\ watcher' = "insert" /\ UNCHANGED fault
         \/ fault' = "exit" /\ UNCHANGED <<image, rows, watcher>>
  BY DEF ReadFile, IInv, LockInv, TypeOK
<1>2. fault' \in {"none", "abort", "dangling", "exit"}
  BY <1>1 DEF IInv, RegistryInv, RegistryTypeOK
<1>3. RegistryInv'
  BY <1>1, <1>2, RegistryKept DEF IInv
<1>4. 0 \in 0..MaxVersions
  BY BoundsAssumption
<1>5. /\ label_map' \in [Hosts -> 0..MaxVersions]
      /\ file \in [version : 1..MaxVersions, parses : BOOLEAN]
      /\ image \in 1..MaxVersions /\ rows \in SUBSET Hosts
  BY <1>1, <1>4 DEF Unlabelled, IInv, TypeOK
<1>6. image' \in 1..MaxVersions /\ rows' \in SUBSET Hosts
  BY <1>1, <1>5
<1>7. LabelInv'
  BY <1>1 DEF LabelInv
<1> QED
  BY <1>1, <1>3, <1>5, <1>6, <1>7, ReloadMoves

\* One row of the file.
LEMMA InsertRowIInv ==
    ASSUME IInv, NEW h \in Hosts, InsertRow(h)
    PROVE  IInv'
<1>1. RegistryInv' /\ \A w \in Workers : phase'[w] = phase[w] /\ session'[w] = session[w]
  BY RegistryStill DEF IInv, InsertRow
<1>2. /\ watcher = "insert" /\ writer = TRUE /\ readers = {}
      /\ label_map \in [Hosts -> 0..MaxVersions] /\ image \in 1..MaxVersions
      /\ \A g \in Hosts \ rows : label_map[g] = image
  BY DEF InsertRow, IInv, LockInv, LabelInv, TypeOK
<1>3. image \in 0..MaxVersions
  BY <1>2, BoundsAssumption
<1>4. label_map' \in [Hosts -> 0..MaxVersions]
  BY <1>2, <1>3 DEF InsertRow
<1>5. LabelInv'
  BY <1>2 DEF LabelInv, InsertRow
<1>6. file \in [version : 1..MaxVersions, parses : BOOLEAN] /\ rows' \in SUBSET Hosts
  BY DEF IInv, TypeOK, InsertRow
<1> QED
  BY <1>1, <1>2, <1>4, <1>5, <1>6, ReloadMoves DEF InsertRow

\* The reload is complete: every label is of the version it has read.
LEMMA UnlockIInv == IInv /\ Unlock => IInv'
<1> SUFFICES ASSUME IInv, Unlock PROVE IInv'
  OBVIOUS
<1>1. RegistryInv' /\ \A w \in Workers : phase'[w] = phase[w] /\ session'[w] = session[w]
  BY RegistryStill DEF IInv, Unlock
<1>2. /\ watcher = "insert" /\ rows = {} /\ readers = {}
      /\ UNCHANGED <<label_map, image, readVars>>
      /\ image \in 1..MaxVersions
  BY DEF Unlock, IInv, LockInv, TypeOK
<1>3. \A w \in Workers : seen[w] = <<>>
  BY <1>2 DEF IInv, LockInv
<1>4. DOMAIN <<>> = {}
  OBVIOUS
<1>5. LabelInv'
  <2>1. \A g \in Hosts : label_map'[g] = image
    BY <1>2 DEF IInv, LabelInv
  <2>2. \A w \in Workers : DOMAIN seen'[w] = {}
    BY <1>2, <1>3, <1>4 DEF readVars
  <2>3. watcher' = "read"
    BY DEF Unlock
  <2> QED
    BY <1>2, <2>1, <2>2, <2>3 DEF LabelInv
<1> QED
  BY <1>1, <1>2, <1>5, ReloadMoves DEF Unlock, IInv, TypeOK

\* The operator rewrites the file.
LEMMA RewriteIInv ==
    ASSUME IInv, NEW parses \in BOOLEAN, Rewrite(parses)
    PROVE  IInv'
<1>1. RegistryInv' /\ \A w \in Workers : phase'[w] = phase[w] /\ session'[w] = session[w]
  BY RegistryStill DEF IInv, Rewrite
<1>2. file.version \in 1..MaxVersions /\ MaxVersions \in Nat /\ file.version < MaxVersions
  BY BoundsAssumption DEF IInv, TypeOK, Rewrite
<1>3. file.version + 1 \in 1..MaxVersions
  BY <1>2
<1>4. file' \in [version : 1..MaxVersions, parses : BOOLEAN]
  BY <1>3 DEF Rewrite
<1>5. LabelInv'
  BY DEF IInv, LabelInv, Rewrite, readVars
<1> QED
  BY <1>1, <1>4, <1>5, ReloadMoves DEF Rewrite, IInv, TypeOK, LockInv

-----------------------------------------------------------------------------
(* HandleMessage().                                                        *)

\* A step of HandleMessage() that looks nothing up: the labels seen so far are
\* forgotten, and the lock is held shared only while no reload holds it.
LEMMA MessageMoves ==
    ASSUME IInv, NEW w \in Workers,
           UNCHANGED <<registryVars, mainVars, sigVars, watcher, labelVars>>,
           seen' = [seen EXCEPT ![w] = <<>>], traffic' \in 0..MaxTraffic,
           readers' = readers \ {w} \/ (readers' = readers \cup {w} /\ ~writer /\ session[w])
    PROVE  IInv'
<1>1. /\ RegistryInv' /\ \A v \in Workers : phase'[v] = phase[v] /\ session'[v] = session[v]
      /\ readers \subseteq Workers /\ seen \in [Workers -> Seq(0..MaxVersions)]
      /\ readers' \subseteq Workers
  BY RegistryStill DEF IInv, TypeOK
<1>2. \A v \in Workers : seen'[v] = IF v = w THEN <<>> ELSE seen[v]
  BY <1>1
<1>3. seen' \in [Workers -> Seq(0..MaxVersions)]
  BY <1>1, NoMembers
<1>4. TypeOK'
  BY <1>1, <1>3 DEF IInv, TypeOK, RegistryInv, mainVars, sigVars, labelVars
<1>5. MainInv'
  BY <1>1, MainKept DEF IInv, mainVars
<1>6. WatcherInv'
  BY DEF IInv, WatcherInv, mainVars
<1>7. LockInv'
  <2>1. writer' <=> watcher' \in {"load", "insert"}
    BY DEF IInv, LockInv, labelVars
  <2>2. writer' => readers' = {}
    BY DEF IInv, LockInv, labelVars
  <2>3. \A v \in readers' : session'[v]
    BY <1>1 DEF IInv, LockInv
  <2>4. \A v \in Workers \ readers' : seen'[v] = <<>>
    BY <1>2 DEF IInv, LockInv
  <2> QED
    BY <2>1, <2>2, <2>3, <2>4 DEF LockInv
<1>8. LabelInv'
  <2>1. \A v \in Workers : \A i \in DOMAIN seen'[v] : i \in DOMAIN seen[v] /\ seen'[v][i] = seen[v][i]
    <3>1. DOMAIN <<>> = {}
      OBVIOUS
    <3> QED
      BY <1>2, <3>1
  <2>2. watcher' = watcher /\ writer' = writer /\ label_map' = label_map /\ rows' = rows /\ image' = image
    BY DEF labelVars
  <2>3. ASSUME ~writer'
        PROVE  \E v \in 1..MaxVersions :
                  /\ \A h \in Hosts : label_map'[h] = v
                  /\ \A u \in Workers : \A i \in DOMAIN seen'[u] : seen'[u][i] = v
    BY <2>1, <2>2, <2>3 DEF IInv, LabelInv
  <2>4. watcher' = "insert" => \A h \in Hosts \ rows' : label_map'[h] = image'
    BY <2>2 DEF IInv, LabelInv
  <2> QED
    BY <2>3, <2>4 DEF LabelInv
<1> QED
  BY <1>1, <1>4, <1>5, <1>6, <1>7, <1>8 DEF IInv

\* std::shared_lock on entry, and its release.
LEMMA BeginEndIInv ==
    ASSUME IInv, NEW w \in Workers, BeginMessage(w) \/ EndMessage(w)
    PROVE  IInv'
<1>1. traffic \in 0..MaxTraffic /\ MaxTraffic \in Nat
  BY BoundsAssumption DEF IInv, TypeOK
<1>2. CASE BeginMessage(w)
  <2>1. traffic' \in 0..MaxTraffic
    BY <1>1, <1>2 DEF BeginMessage
  <2> QED
    BY <1>2, <2>1, MessageMoves DEF BeginMessage
<1>3. CASE EndMessage(w)
  BY <1>1, <1>3, MessageMoves DEF EndMessage
<1> QED
  BY <1>2, <1>3

\* A lookup: no reload holds the lock, so the label is of the one version.
LEMMA LookupIInv ==
    ASSUME IInv, NEW w \in Workers, NEW h \in Hosts, Lookup(w, h)
    PROVE  IInv'
<1>1. /\ RegistryInv' /\ \A v \in Workers : phase'[v] = phase[v] /\ session'[v] = session[v]
      /\ UNCHANGED <<registryVars, mainVars, sigVars, watcher, labelVars, readers, traffic>>
      /\ seen' = [seen EXCEPT ![w] = Append(@, label_map[h])]
      /\ w \in readers /\ readers \subseteq Workers
      /\ label_map[h] \in 0..MaxVersions
      /\ seen \in [Workers -> Seq(0..MaxVersions)]
  BY RegistryStill DEF IInv, TypeOK, Lookup
<1> DEFINE now == Append(seen[w], label_map[h])
<1>2. /\ seen[w] \in Seq(0..MaxVersions) /\ now \in Seq(0..MaxVersions)
      /\ DOMAIN seen[w] = 1..Len(seen[w]) /\ DOMAIN now = 1..Len(now)
      /\ Len(seen[w]) \in Nat /\ Len(now) = Len(seen[w]) + 1
      /\ \A i \in 1..Len(seen[w]) : now[i] = seen[w][i]
      /\ now[Len(seen[w]) + 1] = label_map[h]
  BY <1>1, AppendProperties, LenProperties
<1>3. \A i \in DOMAIN now : (i \in DOMAIN seen[w] /\ now[i] = seen[w][i]) \/ now[i] = label_map[h]
  <2> DEFINE n == Len(seen[w])
  <2> HIDE DEF n, now
  <2>1. n \in Nat /\ DOMAIN now = 1..(n + 1) /\ DOMAIN seen[w] = 1..n
    BY <1>2 DEF n
  <2>2. (\A i \in 1..n : now[i] = seen[w][i]) /\ now[n + 1] = label_map[h]
    BY <1>2 DEF n
  <2>3. \A i \in 1..(n + 1) : i \in 1..n \/ i = n + 1
    BY <2>1
  <2> QED
    BY <2>1, <2>2, <2>3
<1>4. \A v \in Workers : seen'[v] = IF v = w THEN now ELSE seen[v]
  BY <1>1
<1>5. seen' \in [Workers -> Seq(0..MaxVersions)]
  BY <1>1, <1>2
<1> HIDE DEF now
<1>6. TypeOK'
  BY <1>1, <1>5 DEF IInv, TypeOK, RegistryInv, mainVars, sigVars, labelVars
<1>7. MainInv'
  BY <1>1, MainKept DEF IInv, mainVars
<1>8. WatcherInv'
  BY <1>1 DEF IInv, WatcherInv, mainVars
<1>9. LockInv'
  BY <1>1, <1>4 DEF IInv, LockInv, labelVars
<1>10. LabelInv'
  <2>1. ~writer /\ watcher \notin {"load", "insert"}
    BY <1>1 DEF IInv, LockInv
  <2>2. PICK x \in 1..MaxVersions :
            /\ \A g \in Hosts : label_map[g] = x
            /\ \A v \in Workers : \A i \in DOMAIN seen[v] : seen[v][i] = x
    BY <2>1 DEF IInv, LabelInv
  <2>3. \A i \in DOMAIN now : now[i] = x
    BY <1>3, <2>2
  <2>4. \A v \in Workers : \A i \in DOMAIN seen'[v] : seen'[v][i] = x
    BY <1>4, <2>2, <2>3
  <2>5. label_map' = label_map /\ watcher' = watcher
    BY <1>1 DEF labelVars
  <2> QED
    BY <2>1, <2>2, <2>4, <2>5 DEF LabelInv
<1> QED
  BY <1>1, <1>6, <1>7, <1>8, <1>9, <1>10 DEF IInv

-----------------------------------------------------------------------------
(* The theorems.                                                           *)

\* Every step of the daemon keeps the inductive invariant.
LEMMA NextIInv == IInv /\ [Next]_vars => IInv'
<1> SUFFICES ASSUME IInv, Next \/ UNCHANGED vars PROVE IInv'
  OBVIOUS
<1>1. CASE UNCHANGED vars
  <2>1. RegistryInv' /\ \A w \in Workers : phase'[w] = phase[w] /\ session'[w] = session[w]
    BY <1>1, RegistryStill DEF vars, IInv
  <2>2. readers \subseteq Workers
    BY DEF IInv, TypeOK
  <2> QED
    BY <1>1, <2>1, <2>2, RegistrySteps DEF vars
<1>2. CASE MainStep
  BY <1>2, CreateWorkerIInv, CreateWatcherIInv, JoinWorkerIInv, HelpersIInv DEF MainStep
<1>3. CASE PollerStep
  BY <1>3, HelpersIInv DEF PollerStep
<1>4. CASE WatcherStep
  BY <1>4, ReadSignalIInv, LockExclusiveIInv, ReadFileIInv, UnlockIInv, RegistryStepsIInv,
     ShutdownCtxIInv, InsertRowIInv DEF WatcherStep
<1>5. ASSUME NEW w \in Workers, WorkerThreadStep(w) \/ MessageStep(w) PROVE IInv'
  BY <1>5, RegistryStepsIInv, BeginEndIInv, LookupIInv DEF WorkerThreadStep, MessageStep
<1>6. CASE EnvironmentStep
  <2>1. ASSUME NEW sig \in {"TERM", "USR1"}, Raise(sig) \/ RaiseOnWatcher(sig) PROVE IInv'
    BY <2>1, RaiseIInv
  <2>2. ASSUME NEW parses \in {TRUE, ~BadFiles}, Rewrite(parses) PROVE IInv'
    BY <2>2, RewriteIInv, BoundsAssumption
  <2> QED
    BY <1>6, <2>1, <2>2 DEF EnvironmentStep
<1> QED
  BY <1>1, <1>2, <1>3, <1>4, <1>5, <1>6 DEF Next, Ended

\* The inductive invariant holds in every state of the daemon: its variables
\* keep their types, main() and its helpers their order, the lock its meaning.
THEOREM Invariant == Spec => []IInv
  BY InitIInv, NextIInv, PTL DEF Spec

\* A message is labelled from one complete version of the file: no lookup of
\* HandleMessage() falls into the middle of ReloadLabelMaps().
THEOREM OneVersionPerMessage == Spec => []LabelsFromOneVersion
<1>1. IInv => LabelsFromOneVersion
  <2> SUFFICES ASSUME IInv, NEW w \in Workers, NEW i \in DOMAIN seen[w], NEW j \in DOMAIN seen[w]
               PROVE  seen[w][i] = seen[w][j] /\ seen[w][i] # Unlabelled
    BY DEF LabelsFromOneVersion, IInv
  <2>1. DOMAIN <<>> = {}
    OBVIOUS
  <2>2. w \in readers
    BY <2>1 DEF IInv, LockInv
  <2>3. ~writer
    BY <2>2 DEF IInv, LockInv
  <2>4. PICK x \in 1..MaxVersions : \A v \in Workers : \A k \in DOMAIN seen[v] : seen[v][k] = x
    BY <2>3 DEF IInv, LabelInv
  <2>5. x # 0
    BY <2>4, BoundsAssumption
  <2> QED
    BY <2>4, <2>5 DEF Unlabelled
<1> QED
  BY <1>1, Invariant, PTL

\* main() returns only when every Srv is destroyed and unregistered, no message
\* is being handled, and the watcher and the poller have ended.
THEOREM NothingRunsAtExit == Spec => []CleanExit
<1>1. IInv => CleanExit
  <2> SUFFICES ASSUME IInv, mainpc = "exited"
               PROVE  /\ registry = <<>> /\ readers = {}
                      /\ \A i \in 1..Len(Order) : phase[Order[i]] = "destroyed"
                      /\ watcher = "ended" /\ poller = "ended"
    BY DEF CleanExit
  <2>1. start = <<>> /\ joinable = <<>> /\ ToSet(<<>>) = {}
    BY NoMembers DEF IInv, MainInv
  <2>2. \A w \in Workers : phase[w] \in {"none", "destroyed"}
    BY <2>1 DEF IInv, MainInv
  <2>3. registry = <<>>
    <3>1. ToSet(registry) = {}
      BY <2>2 DEF IInv, RegistryInv, RegistryExact
    <3> QED
      BY <3>1, NoMembers DEF IInv, RegistryInv, RegistryTypeOK
  <2>4. readers = {}
    BY <2>2 DEF IInv, LockInv, RegistryInv, SessionInv, TypeOK
  <2>5. \A i \in 1..Len(Order) : Order[i] \in Workers
    BY OrderAssumption, ElementOfSeq
  <2>6. \A i \in 1..Len(Order) : phase[Order[i]] = "destroyed"
    BY <2>1, <2>2, <2>5 DEF IInv, MainInv
  <2>7. watcher = "ended" /\ poller = "ended"
    BY DEF IInv, MainInv, WatcherInv
  <2> QED
    BY <2>3, <2>4, <2>6, <2>7
<1> QED
  BY <1>1, Invariant, PTL

\* g_active_servers is exact in the daemon as well.
THEOREM RegistryAlwaysExact == Spec => []RegistryExact
<1>1. IInv => RegistryExact
  BY DEF IInv, RegistryInv
<1> QED
  BY <1>1, Invariant, PTL

\* In the daemon, too, every worker's Srv keeps the contract that SrvFsm_proofs
\* shows the state machines to keep, whatever the signals and the reloads do.
THEOREM SrvContractKept == Spec => EverySrvKeepsContract
<1>1. Init => \A w \in Workers : Life(w)!Init
  BY ContractStarts DEF Init
<1>2. IInv /\ [Next]_vars
        => [\A w \in Workers : Life(w)!Next \/ UNCHANGED Life(w)!vars]_registryVars
  <2> SUFFICES ASSUME IInv, Next, ~UNCHANGED registryVars, NEW v \in Workers
               PROVE  ContractOf(v)
    BY DEF ContractOf, vars
  <2>1. CASE MainStep
    <3>1. Alive /\ CreateWorker
      BY <2>1 DEF MainStep, CreateWatcher, JoinWorker, JoinPoller, JoinWatcher
    <3>2. /\ start # <<>> /\ fault = "none"
          /\ phase' = [phase EXCEPT ![Head(start)] = "created"]
          /\ UNCHANGED <<stop, session, fault>>
      BY <3>1 DEF Alive, CreateWorker
    <3>3. start \in Seq(Workers) /\ IsInjective(start)
      BY DEF IInv, TypeOK, MainInv
    <3>4. Head(start) \in ToSet(start)
      BY <3>2, <3>3, Tailed
    <3>5. phase[Head(start)] = "none"
      BY <3>4 DEF IInv, MainInv
    <3>6. phase'[v] = phase[v] \/ (phase[v] = "none" /\ phase'[v] = "created")
      BY <3>2, <3>5 DEF IInv, RegistryInv, RegistryTypeOK
    <3>7. phaseBar(v)' = phaseBar(v)
      BY <3>2, <3>6, LivingBar, NextBar
    <3> QED
      BY <3>2, <3>7 DEF ContractOf, Life!vars
  <2>2. CASE WatcherStep
    <3>1. Alive /\ (ReadFile \/ RunShutdown)
      BY <2>2 DEF WatcherStep, ReadSignal, LockExclusive, Unlock, ShutdownCtx, InsertRow
    <3>2. CASE ReadFile
      <4>1. /\ UNCHANGED <<phase, stop, session>> /\ fault = "none"
            /\ fault' \in {"none", "exit"}
        BY <3>1, <3>2 DEF ReadFile, Alive
      <4> QED
        BY <4>1, NotItsStep
    <3>3. CASE RunShutdown
      BY <3>1, <3>3, StoppersAssumption, ShutdownStepContract DEF RunShutdown, IInv
    <3> QED
      BY <3>1, <3>2, <3>3
  <2>3. ASSUME NEW w \in Workers, WorkerThreadStep(w) PROVE ContractOf(v)
    BY <2>3, WorkerStepContract DEF WorkerThreadStep, ThreadStep, IInv
  <2>4. ASSUME NEW w \in Workers, MessageStep(w) PROVE ContractOf(v)
    <3>1. Alive /\ (Open(w) \/ Dispose(w))
      BY <2>4 DEF MessageStep, SessionStep, BeginMessage, EndMessage, Lookup
    <3> QED
      BY <3>1, SessionStepContract DEF IInv
  <2>5. ~PollerStep /\ ~EnvironmentStep /\ ~Ended
    BY DEF PollerStep, PollerEnds, EnvironmentStep, Raise, RaiseOnWatcher, Rewrite, Ended, vars
  <2> QED
    BY <2>1, <2>2, <2>3, <2>4, <2>5 DEF Next
<1> QED
  BY <1>1, <1>2, Invariant, PTL DEF Spec, EverySrvKeepsContract

-----------------------------------------------------------------------------
(* The one stopper of the daemon.                                          *)

\* No Srv is stopped before the watcher takes its snapshot, and none of the
\* snapshot but by the watcher itself, in the order of the snapshot.
OneStopper ==
    /\ sd[Watcher] = "idle" => \A w \in Workers : stop[w] = "no"
    /\ \A w \in ToSet(todo[Watcher]) :
          stop[w] = "no" \/ (sd[Watcher] = "inside" /\ w = Head(todo[Watcher]))
    /\ fault # "dangling"

\* The watcher in initiate_shutdown(): no Srv of the snapshot has ended.
LEMMA RunShutdownSole ==
    ASSUME IInv, OneStopper, RunShutdown
    PROVE  OneStopper'
<1> DEFINE list == todo[Watcher]
           w == Head(todo[Watcher])
<1>1. /\ Watcher \in Stoppers
      /\ todo \in [Stoppers -> Seq(Workers)] /\ stop \in [Workers -> {"no", "draining", "closed"}]
      /\ sd \in [Stoppers -> {"idle", "next", "inside", "returned"}]
      /\ registry \in Seq(Workers)
      /\ list \in Seq(Workers) /\ IsInjective(list)
  BY StoppersAssumption DEF IInv, RegistryInv, RegistryTypeOK, TodoInv
<1>2. list # <<>> => /\ w \in ToSet(list) /\ w \in Workers
                     /\ ToSet(Tail(list)) = ToSet(list) \ {w}
  BY <1>1, Tailed
<1>3. ToSet(list) \subseteq Workers /\ ToSet(registry) \subseteq Workers
  BY <1>1, MembersOf
<1>4. CASE Snapshot(Watcher)
  <2>1. /\ sd[Watcher] = "idle" /\ sd'[Watcher] = "next" /\ todo'[Watcher] = registry
        /\ UNCHANGED <<stop, fault>>
    BY <1>1, <1>4 DEF Snapshot
  <2> QED
    BY <1>3, <2>1 DEF OneStopper
<1>5. CASE EnterShutdown(Watcher)
  <2>1. sd[Watcher] = "next" /\ list # <<>> /\ stop[w] = "no"
    BY <1>2, <1>5 DEF EnterShutdown, OneStopper
  <2>2. phase[w] # "destroyed"
    BY <1>2, <2>1 DEF IInv, RegistryInv, StopInv
  <2>3. /\ stop' = [stop EXCEPT ![w] = "draining"]
        /\ sd' = [sd EXCEPT ![Watcher] = "inside"] /\ UNCHANGED <<todo, fault>>
    BY <1>5, <2>1, <2>2 DEF EnterShutdown
  <2>4. sd'[Watcher] = "inside"
    BY <1>1, <2>3
  <2>5. \A v \in ToSet(list) : stop'[v] = "no" \/ v = w
    BY <1>1, <1>3, <2>1, <2>3 DEF OneStopper
  <2> QED
    BY <2>3, <2>4, <2>5 DEF OneStopper
<1>6. CASE LeaveShutdown(Watcher)
  <2>1. list # <<>>
    BY <1>1, <1>6 DEF LeaveShutdown, IInv, RegistryInv, InsideInv
  <2>2. /\ stop' = [stop EXCEPT ![w] = "closed"]
        /\ todo'[Watcher] = Tail(list) /\ sd'[Watcher] = "next" /\ UNCHANGED fault
    BY <1>1, <1>6 DEF LeaveShutdown
  <2>3. \A v \in ToSet(Tail(list)) : stop'[v] = "no"
    BY <1>1, <1>2, <1>3, <2>1, <2>2 DEF OneStopper
  <2> QED
    BY <2>2, <2>3 DEF OneStopper
<1>7. CASE ShutdownReturns(Watcher)
  <2>1. ToSet(<<>>) = {}
    BY NoMembers
  <2>2. list = <<>> /\ sd'[Watcher] = "returned" /\ UNCHANGED <<stop, todo, fault>>
    BY <1>1, <1>7 DEF ShutdownReturns
  <2> QED
    BY <2>1, <2>2 DEF OneStopper
<1> QED
  BY <1>4, <1>5, <1>6, <1>7 DEF RunShutdown, ShutdownStep

\* The watcher is the only thread that calls initiate_shutdown(), once, so the
\* pointers of its snapshot are good: the daemon is free of the fault that two
\* stops of the library can run into.
THEOREM DaemonNeverDangles == Spec => []NoDanglingSrv
<1>1. Init => OneStopper
  <2>1. ToSet(<<>>) = {} /\ Watcher \in Stoppers
    BY NoMembers, StoppersAssumption
  <2> QED
    BY <2>1 DEF Init, RegistryInit, OneStopper
<1>2. IInv /\ OneStopper /\ [Next]_vars => OneStopper'
  <2> SUFFICES ASSUME IInv, OneStopper, [Next]_vars PROVE OneStopper'
    OBVIOUS
  <2>1. ASSUME UNCHANGED <<stop, todo, sd>>, fault' \in {fault, "abort", "exit"}
        PROVE  OneStopper'
    BY <2>1 DEF OneStopper
  <2>2. CASE UNCHANGED registryVars
    BY <2>1, <2>2 DEF registryVars
  <2>3. CASE MainStep
    BY <2>1, <2>2, <2>3 DEF MainStep, CreateWorker, CreateWatcher, JoinWorker, JoinPoller, JoinWatcher
  <2>4. CASE WatcherStep
    <3>1. CASE ReadFile
      BY <2>1, <3>1 DEF ReadFile
    <3> QED
      BY <2>2, <2>4, <3>1, RunShutdownSole
         DEF WatcherStep, ReadSignal, LockExclusive, Unlock, ShutdownCtx, InsertRow
  <2>5. ASSUME NEW w \in Workers, WorkerThreadStep(w) PROVE OneStopper'
    BY <2>1, <2>5 DEF WorkerThreadStep, ThreadStep, WorkerStep, Register, Serve, Exit,
                      Unregister, Destroy
  <2>6. ASSUME NEW w \in Workers, MessageStep(w) PROVE OneStopper'
    BY <2>1, <2>2, <2>6 DEF MessageStep, SessionStep, BeginMessage, EndMessage, Lookup, Open, Dispose
  <2>7. CASE PollerStep \/ EnvironmentStep \/ Ended \/ UNCHANGED vars
    BY <2>2, <2>7 DEF PollerStep, PollerEnds, EnvironmentStep, Raise, RaiseOnWatcher, Rewrite,
                      Ended, vars
  <2> QED
    BY <2>3, <2>4, <2>5, <2>6, <2>7 DEF Next
<1>3. OneStopper => NoDanglingSrv
  BY DEF OneStopper, NoDanglingSrv
<1> QED
  BY <1>1, <1>2, <1>3, Invariant, PTL DEF Spec
=============================================================================
