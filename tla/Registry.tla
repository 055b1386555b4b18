------------------------------ MODULE Registry ------------------------------
(***************************************************************************)
(* The shutdown registry of core/mdt_dialout_core.cc (register_server,      *)
(* unregister_server, initiate_shutdown over g_active_servers) and the      *)
(* worker threads whose Srv objects it points to.  Every Srv is the         *)
(* contract SrvLife, which SrvFsm shows the code's state machines to        *)
(* implement, with at most one session at a time.  Bridge and Collector     *)
(* add the threads that create the workers, stop them and join them.        *)
(***************************************************************************)
EXTENDS Naturals, Sequences, FiniteSets, SequencesExt

CONSTANTS
    Workers,    \* the vendor threads, one Srv each
    Stoppers    \* threads that call initiate_shutdown()

ASSUME WorkersAssumption == IsFiniteSet(Workers)

VARIABLES
    phase,      \* per worker: where VendorThread() is
    stop,       \* per worker: progress of its Srv's Shutdown()
    session,    \* per worker: is an RPC being served
    registry,   \* g_active_servers
    todo,       \* per stopper: the rest of its snapshot
    sd,         \* per stopper: where initiate_shutdown() is
    fault       \* how the process died, "none" while it lives

registryVars == <<phase, stop, session, registry, todo, sd, fault>>

Phases == {"none", "created", "registered", "serving", "exited",
           "unregistered", "destroyed"}

RegistryTypeOK ==
    /\ phase \in [Workers -> Phases]
    /\ stop \in [Workers -> {"no", "draining", "closed"}]
    /\ session \in [Workers -> BOOLEAN]
    /\ registry \in Seq(Workers) /\ Len(registry) <= Cardinality(Workers)
    /\ todo \in [Stoppers -> Seq(Workers)]
    /\ sd \in [Stoppers -> {"idle", "next", "inside", "returned"}]
    /\ fault \in {"none", "abort", "dangling", "exit"}

RegistryInit ==
    /\ phase = [w \in Workers |-> "none"]
    /\ stop = [w \in Workers |-> "no"]
    /\ session = [w \in Workers |-> FALSE]
    /\ registry = <<>>
    /\ todo = [t \in Stoppers |-> <<>>]
    /\ sd = [t \in Stoppers |-> "idle"]
    /\ fault = "none"

\* A process that has died takes no step.
Alive == fault = "none"

-----------------------------------------------------------------------------
(* A worker thread: VendorThread() runs XBind() on its own Srv.            *)

\* XBind() as far as register_server(this).
Register(w) ==
    /\ phase[w] = "created"
    /\ phase' = [phase EXCEPT ![w] = "registered"]
    /\ registry' = Append(registry, w)
    /\ UNCHANGED <<stop, session, todo, sd, fault>>

\* XFsmCtrl() builds its VendorPlumbing and RunFsm() arms the first handler.
Serve(w) ==
    /\ phase[w] = "registered"
    /\ \/ /\ stop[w] = "closed"
          /\ fault' = "abort"
          /\ UNCHANGED phase
       \/ /\ stop[w] # "closed"
          /\ phase' = [phase EXCEPT ![w] = "serving"]
          /\ UNCHANGED fault
    /\ UNCHANGED <<stop, session, registry, todo, sd>>

Open(w) ==
    /\ phase[w] = "serving"
    /\ stop[w] = "no"
    /\ ~session[w]
    /\ session' = [session EXCEPT ![w] = TRUE]
    /\ UNCHANGED <<phase, stop, registry, todo, sd, fault>>

Dispose(w) ==
    /\ session[w]
    /\ session' = [session EXCEPT ![w] = FALSE]
    /\ UNCHANGED <<phase, stop, registry, todo, sd, fault>>

\* Mutant: RunFsm() returns at the end of a session, shut down or not.
Exit_Spontaneous(w) ==
    /\ phase[w] = "serving"
    /\ ~session[w]
    /\ phase' = [phase EXCEPT ![w] = "exited"]
    /\ UNCHANGED <<stop, session, registry, todo, sd, fault>>

\* RunFsm() returns.
Exit(w) ==
    /\ phase[w] = "serving"
    /\ stop[w] = "closed"
    /\ phase' = [phase EXCEPT ![w] = "exited"]
    /\ UNCHANGED <<stop, session, registry, todo, sd, fault>>

\* Mutant: the first server is erased, whoever calls.
Unregister_First(w) ==
    /\ phase[w] = "exited"
    /\ phase' = [phase EXCEPT ![w] = "unregistered"]
    /\ registry' = Tail(registry)
    /\ UNCHANGED <<stop, session, todo, sd, fault>>

\* unregister_server(): std::find() and erase().
Unregister(w) ==
    /\ phase[w] = "exited"
    /\ phase' = [phase EXCEPT ![w] = "unregistered"]
    /\ registry' = RemoveFirst(registry, w)
    /\ UNCHANGED <<stop, session, todo, sd, fault>>

\* VendorThread()'s Srv goes out of scope: ~Srv(), then the thread ends.
Destroy(w) ==
    /\ phase[w] = "unregistered"
    /\ phase' = [phase EXCEPT ![w] = "destroyed"]
    /\ UNCHANGED <<stop, session, registry, todo, sd, fault>>

-----------------------------------------------------------------------------
(* initiate_shutdown(), run by thread t.                                   *)

\* Mutant: only the first registered server is shut down.
Snapshot_First(t) ==
    /\ sd[t] = "idle"
    /\ todo' = [todo EXCEPT ![t] = SubSeq(registry, 1, IF registry = <<>> THEN 0 ELSE 1)]
    /\ sd' = [sd EXCEPT ![t] = "next"]
    /\ UNCHANGED <<phase, stop, session, registry, fault>>

Snapshot(t) ==
    /\ sd[t] = "idle"
    /\ todo' = [todo EXCEPT ![t] = registry]
    /\ sd' = [sd EXCEPT ![t] = "next"]
    /\ UNCHANGED <<phase, stop, session, registry, fault>>

\* s->Shutdown() up to Server::Shutdown(): a no-op on a Srv that another
\* thread is shutting down; a pointer to a Srv that is gone is a fault.
EnterShutdown(t) ==
    /\ sd[t] = "next"
    /\ todo[t] # <<>>
    /\ LET w == Head(todo[t]) IN
       \/ /\ phase[w] = "destroyed"
          /\ fault' = "dangling"
          /\ UNCHANGED <<stop, todo, sd>>
       \/ /\ phase[w] # "destroyed"
          /\ stop[w] # "no"
          /\ todo' = [todo EXCEPT ![t] = Tail(@)]
          /\ UNCHANGED <<stop, sd, fault>>
       \/ /\ phase[w] # "destroyed"
          /\ stop[w] = "no"
          /\ stop' = [stop EXCEPT ![w] = "draining"]
          /\ sd' = [sd EXCEPT ![t] = "inside"]
          /\ UNCHANGED <<todo, fault>>
    /\ UNCHANGED <<phase, session, registry>>

\* Mutant: the drain is not waited for.
LeaveShutdown_NoWait(t) ==
    /\ sd[t] = "inside"
    /\ stop' = [stop EXCEPT ![Head(todo[t])] = "closed"]
    /\ todo' = [todo EXCEPT ![t] = Tail(@)]
    /\ sd' = [sd EXCEPT ![t] = "next"]
    /\ UNCHANGED <<phase, session, registry, fault>>

\* Server::Shutdown() has returned and cq_->Shutdown() has run.
LeaveShutdown(t) ==
    /\ sd[t] = "inside"
    /\ LET w == Head(todo[t]) IN
          /\ ~session[w]
          /\ stop' = [stop EXCEPT ![w] = "closed"]
    /\ todo' = [todo EXCEPT ![t] = Tail(@)]
    /\ sd' = [sd EXCEPT ![t] = "next"]
    /\ UNCHANGED <<phase, session, registry, fault>>

ShutdownReturns(t) ==
    /\ sd[t] = "next"
    /\ todo[t] = <<>>
    /\ sd' = [sd EXCEPT ![t] = "returned"]
    /\ UNCHANGED <<phase, stop, session, registry, todo, fault>>

WorkerStep(w) == Register(w) \/ Serve(w) \/ Exit(w) \/ Unregister(w) \/ Destroy(w)

ShutdownStep(t) == EnterShutdown(t) \/ LeaveShutdown(t) \/ ShutdownReturns(t)

-----------------------------------------------------------------------------
(* Properties of the registry, whoever uses it.                            *)

\* g_active_servers holds each Srv that is between register_server() and
\* unregister_server(), once, and no other: the lock makes the vector exact
\* whatever the order in which workers come and go.
RegistryExact ==
    /\ IsInjective(registry)
    /\ ToSet(registry) =
         {w \in Workers : phase[w] \in {"registered", "serving", "exited"}}

\* No Srv is destroyed while a stopper still has a pointer to it to use.
NoDanglingSrv == fault # "dangling"

\* Each worker's Srv keeps the contract of SrvLife, seen one Srv at a time.
Aborted(w) == fault = "abort" /\ phase[w] = "registered" /\ stop[w] = "closed"

phaseBar(w) ==
    CASE Aborted(w) -> "aborted"
      [] ~Aborted(w) /\ phase[w] \in {"registered", "serving"} -> phase[w]
      [] phase[w] \in {"none", "created"} -> "binding"
      [] OTHER -> "exited"

Life(w) == INSTANCE SrvLife WITH
              Sessions <- {w},
              phase <- phaseBar(w), stop <- stop[w],
              sessions <- IF session[w] THEN {w} ELSE {}

EverySrvKeepsContract ==
    /\ \A w \in Workers : Life(w)!Init
    /\ [][\A w \in Workers : Life(w)!Next \/ UNCHANGED Life(w)!vars]_registryVars
=============================================================================
