------------------------------- MODULE Bridge -------------------------------
(***************************************************************************)
(* Library mode (bridge/grpc_collector_bridge.cc): the host calls           *)
(* start_grpc_dialout_collector() once, which creates the workers and       *)
(* records them in g_active_workers, and stop_grpc_dialout_collector()      *)
(* from one or more threads, which drains the registered servers and joins  *)
(* the recorded workers.                                                    *)
(***************************************************************************)
EXTENDS Registry

CONSTANTS
    Order,       \* the workers in the order LoadThreads() creates them
    HostWaits    \* environment: the host calls stop() only once start returned
                 \* and every worker it started serves (TRUE), or at any time,
                 \* also while start is still creating workers (FALSE)

ASSUME OrderAssumption == Order \in Seq(Workers) /\ IsInjective(Order)
ASSUME HostWaitsAssumption == HostWaits \in BOOLEAN

VARIABLES
    start,     \* progress of start_grpc_dialout_collector(): workers to create
    created,   \* pthread_create() done, g_active_workers.push_back() pending
    active,    \* g_active_workers
    joining,   \* per stopper: the rest of its swapped-out vector
    pc,        \* per stopper: where stop_grpc_dialout_collector() is
    joined,    \* how often each thread has been joined
    missed     \* history: the workers start had still to record when a stop
               \* last took g_active_workers

bridgeVars == <<start, created, active, joining, pc, joined, missed>>
vars == <<registryVars, bridgeVars>>

TypeOK ==
    /\ RegistryTypeOK
    /\ start \in Seq(Workers)
    /\ created \in SUBSET Workers
    /\ active \in Seq(Workers)
    /\ joining \in [Stoppers -> Seq(Workers)]
    /\ pc \in [Stoppers -> {"idle", "shutdown", "join", "returned"}]
    /\ joined \in [Workers -> Nat]
    /\ missed \in SUBSET Workers

Init ==
    /\ RegistryInit
    /\ start = Order
    /\ created = {}
    /\ active = <<>>
    /\ joining = [t \in Stoppers |-> <<>>]
    /\ pc = [t \in Stoppers |-> "idle"]
    /\ joined = [w \in Workers |-> 0]
    /\ missed = {}

-----------------------------------------------------------------------------
(* start_grpc_dialout_collector() -> LoadThreads().                        *)

\* pthread_create(): it may fail, and the loop goes on to the next worker.
CreateThread ==
    /\ start # <<>>
    /\ created = {}
    /\ \/ /\ phase' = [phase EXCEPT ![Head(start)] = "created"]
          /\ created' = {Head(start)}
          /\ UNCHANGED start
       \/ /\ start' = Tail(start)
          /\ UNCHANGED <<phase, created>>
    /\ UNCHANGED <<stop, session, registry, todo, sd, fault, active, joining, pc, joined,
                   missed>>

RecordThread ==
    /\ created # {}
    /\ active' = Append(active, Head(start))
    /\ created' = {}
    /\ start' = Tail(start)
    /\ UNCHANGED <<registryVars, joining, pc, joined, missed>>

Started == start = <<>>

-----------------------------------------------------------------------------
(* stop_grpc_dialout_collector(), called by thread t at any time.           *)

Ready == \A w \in Workers : phase[w] \notin {"created", "registered"}

CallStop(t) ==
    /\ HostWaits => Started /\ Ready
    /\ pc[t] \in {"idle", "returned"}
    /\ pc' = [pc EXCEPT ![t] = "shutdown"]
    /\ sd' = [sd EXCEPT ![t] = "idle"]
    /\ UNCHANGED <<phase, stop, session, registry, todo, fault, start, created,
                   active, joining, joined, missed>>

\* initiate_shutdown(), as in Registry.
RunShutdown(t) ==
    /\ pc[t] = "shutdown"
    /\ Snapshot(t) \/ ShutdownStep(t)
    /\ UNCHANGED bridgeVars

\* Mutant: the vector is cleared and what it held is lost.
TakeWorkers_Lose(t) ==
    /\ pc[t] = "shutdown"
    /\ sd[t] = "returned"
    /\ active' = <<>>
    /\ missed' = ToSet(start)
    /\ pc' = [pc EXCEPT ![t] = "join"]
    /\ UNCHANGED <<registryVars, start, created, joining, joined>>

\* snapshot.swap(g_active_workers) under g_workers_mutex.
TakeWorkers(t) ==
    /\ pc[t] = "shutdown"
    /\ sd[t] = "returned"
    /\ joining' = [joining EXCEPT ![t] = active]
    /\ active' = <<>>
    /\ missed' = ToSet(start)
    /\ pc' = [pc EXCEPT ![t] = "join"]
    /\ UNCHANGED <<registryVars, start, created, joined>>

\* Mutant: the workers are detached, not joined.
Join_NoWait(t) ==
    /\ pc[t] = "join"
    /\ joining[t] # <<>>
    /\ joined' = [joined EXCEPT ![Head(joining[t])] = @ + 1]
    /\ joining' = [joining EXCEPT ![t] = Tail(@)]
    /\ UNCHANGED <<registryVars, start, created, active, pc, missed>>

\* pthread_join() returns once the thread has ended.
Join(t) ==
    /\ pc[t] = "join"
    /\ joining[t] # <<>>
    /\ phase[Head(joining[t])] = "destroyed"
    /\ joined' = [joined EXCEPT ![Head(joining[t])] = @ + 1]
    /\ joining' = [joining EXCEPT ![t] = Tail(@)]
    /\ UNCHANGED <<registryVars, start, created, active, pc, missed>>

StopReturns(t) ==
    /\ pc[t] = "join"
    /\ joining[t] = <<>>
    /\ pc' = [pc EXCEPT ![t] = "returned"]
    /\ UNCHANGED <<registryVars, start, created, active, joining, joined, missed>>

StartStep == Alive /\ (CreateThread \/ RecordThread)

StopStep(t) == Alive /\ (RunShutdown(t) \/ TakeWorkers(t) \/ Join(t) \/ StopReturns(t))

ThreadStep(w) == Alive /\ WorkerStep(w) /\ UNCHANGED bridgeVars

ClientStep(w) == Alive /\ (Open(w) \/ Dispose(w)) /\ UNCHANGED bridgeVars

Dead == ~Alive /\ UNCHANGED vars

Next ==
    \/ StartStep
    \/ \E t \in Stoppers : (Alive /\ CallStop(t)) \/ StopStep(t)
    \/ \E w \in Workers : ThreadStep(w) \/ ClientStep(w)
    \/ Dead

Spec == Init /\ [][Next]_vars

(***************************************************************************)
(* Fairness.  Threads keep running; a session ends once its Srv is being    *)
(* drained (the deadline cancels it: SrvFsm, ShutdownEndsWorker).  Nobody   *)
(* is obliged to call stop().                                               *)
(***************************************************************************)
Fairness ==
    /\ WF_vars(StartStep)
    /\ \A w \in Workers : WF_vars(ThreadStep(w))
    /\ \A w \in Workers : WF_vars(stop[w] = "draining" /\ ClientStep(w))
    /\ \A t \in Stoppers : WF_vars(StopStep(t))

FairSpec == Spec /\ Fairness

-----------------------------------------------------------------------------
(* Properties.                                                             *)

\* Every worker ever created is in one place: about to be recorded, recorded,
\* with the one stop() that took it, or joined, once.  None becomes unjoinable
\* and none is joined twice, however many threads call stop().
WorkersAccounted ==
    /\ TypeOK
    /\ \A w \in Workers :
          LET holders == {t \in Stoppers : w \in ToSet(joining[t])}
          IN  phase[w] # "none" =>
                 Cardinality(created \cap {w}) + Cardinality(ToSet(active) \cap {w})
                     + Cardinality(holders) + joined[w] = 1

AllReturned ==
    /\ \E t \in Stoppers : pc[t] = "returned"
    /\ \A t \in Stoppers : pc[t] \in {"idle", "returned"}

\* When every stop_grpc_dialout_collector() that was called has returned 1,
\* every worker that was recorded when one of them took g_active_workers has
\* ended, whichever of them took it.  Left over are the workers start had
\* still to record when the vector was last taken: none, once start returned.
\* Those may go on serving, although grpc_collector_bridge.h:68-69 calls stop
\* "safe to call at any point" and says that it "joins all workers".
StopMeansStopped ==
    AllReturned => \A w \in Workers \ missed : phase[w] \in {"none", "destroyed"}

\* Only a second stop() under way, or an earlier one that overlapped start and
\* left a worker it had drained unjoined, can make a stop() use a Srv that is
\* gone: a host that stops from one thread, however often, and workers that
\* fail to start or have ended leave the pointers of its snapshot good.
DanglingNeedsTwoStops ==
    fault = "dangling" =>
        \/ \E t, u \in Stoppers : t # u /\ pc[t] # "idle" /\ pc[u] # "idle"
        \/ missed # {}

\* stop_grpc_dialout_collector() returns whenever it is called: it drains the
\* servers, joins the workers, and does not wait for ever.
StopTerminates ==
    \A t \in Stoppers : pc[t] = "shutdown" ~> (pc[t] = "returned" \/ fault # "none")

\* A stop() whose snapshot of the registry is still to come when start has
\* returned and every worker created has got past register_server() and its
\* first Spawn() returns, also next to another stop() that came too early and
\* hangs in its join.
ReadyStopTerminates ==
    \A t \in Stoppers :
        (pc[t] = "shutdown" /\ sd[t] = "idle" /\ Started /\ Ready)
            ~> (pc[t] = "returned" \/ fault = "dangling")
=============================================================================
