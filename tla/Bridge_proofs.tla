--------------------------- MODULE Bridge_proofs ---------------------------
(***************************************************************************)
(* Proofs about Bridge, for any workers, any number of threads that call    *)
(* stop_grpc_dialout_collector(), and a host that waits for its workers,    *)
(* or stops while start is still creating them: the registry is exact,      *)
(* every Srv keeps its contract, every worker is joined once, the workers   *)
(* recorded when the vector was last taken have ended once the stops have   *)
(* returned, and a dangling Srv takes two stops or an overlapped start.     *)
(***************************************************************************)
EXTENDS Bridge, Registry_proofs

-----------------------------------------------------------------------------
(* The inductive invariant.                                                *)

\* The workers still to be created have no thread, but for the one that is
\* about to be recorded.
StartInv ==
    /\ IsInjective(start)
    /\ created = {} \/ (start # <<>> /\ created = {Head(start)})
    /\ \A w \in ToSet(start) : phase[w] = "none" \/ w \in created
    /\ \A w \in created : phase[w] # "none"

Active == ToSet(active)
Taken(t) == ToSet(joining[t])

\* Where a worker that can be joined is: in one place only, ...
PlaceInv ==
    /\ IsInjective(active)
    /\ Active \cap created = {}
    /\ \A w \in Active : phase[w] # "none"
    /\ \A t \in Stoppers :
          /\ IsInjective(joining[t])
          /\ Taken(t) \cap created = {} /\ Taken(t) \cap Active = {}
          /\ \A w \in Taken(t) : phase[w] # "none"
          /\ \A u \in Stoppers \ {t} : Taken(u) \cap Taken(t) = {}

Pending(w) == w \in created \/ w \in Active \/ \E t \in Stoppers : w \in Taken(t)

\* ... until it is joined, once, after its thread ended.
JoinedInv ==
    \A w \in Workers :
        /\ phase[w] = "none" \/ Pending(w) => joined[w] = 0
        /\ phase[w] # "none" /\ ~Pending(w) => joined[w] = 1 /\ phase[w] = "destroyed"

\* What a stop has done by where it is.
FlowInv ==
    \A t \in Stoppers :
        /\ pc[t] # "join" => joining[t] = <<>>
        /\ pc[t] = "idle" => sd[t] = "idle"
        /\ pc[t] # "shutdown" => sd[t] \in {"idle", "returned"}

\* What was neither recorded nor taken when the vector was last taken is what
\* start had still to record then.
MissedInv ==
    \A t \in Stoppers :
        pc[t] \in {"join", "returned"} => ToSet(start) \subseteq missed /\ Active \subseteq missed

\* No Srv is shut down before the first stop.
FirstStopInv ==
    (\A t \in Stoppers : pc[t] = "idle") =>
        missed = {} /\ \A w \in Workers : stop[w] = "no"

Sole(t) == pc[t] # "idle" /\ \A u \in Stoppers \ {t} : pc[u] = "idle"

\* The only thread that ever called stop(), if none of its stops left a worker
\* behind, finds no Srv shut down that it is still to shut down.
SoleInv ==
    \A t \in Stoppers : Sole(t) /\ missed = {} =>
        /\ pc[t] = "shutdown" /\ sd[t] = "idle" =>
              \A w \in Workers : phase[w] = "destroyed" \/ stop[w] = "no"
        /\ sd[t] \in {"next", "inside"} =>
              \A w \in ToSet(todo[t]) :
                  stop[w] = "no" \/ (sd[t] = "inside" /\ w = Head(todo[t]))

IInv ==
    /\ RegistryInv
    /\ TypeOK
    /\ StartInv
    /\ PlaceInv
    /\ JoinedInv
    /\ FlowInv
    /\ MissedInv
    /\ FirstStopInv
    /\ SoleInv
    /\ fault # "exit"
    /\ DanglingNeedsTwoStops

-----------------------------------------------------------------------------
(* What the steps have in common.                                          *)

\* The members of the vectors are workers.
LEMMA Members ==
    ASSUME TypeOK
    PROVE  /\ ToSet(start) \subseteq Workers /\ created \subseteq Workers
           /\ Active \subseteq Workers
           /\ \A t \in Stoppers : Taken(t) \subseteq Workers
  BY MembersOf DEF TypeOK, Active, Taken

\* No thread.
LEMMA InitIInv == Init => IInv
<1> SUFFICES ASSUME Init PROVE IInv
  OBVIOUS
<1> USE DEF Init
<1>1. RegistryInv
  BY RegistryStarts
<1>2. /\ <<>> \in Seq(Workers) /\ IsInjective(<<>>) /\ ToSet(<<>>) = {}
      /\ Order \in Seq(Workers) /\ IsInjective(Order)
  BY NoMembers, OrderAssumption
<1>3. /\ \A w \in Workers : phase[w] = "none" /\ stop[w] = "no"
      /\ \A t \in Stoppers : sd[t] = "idle"
      /\ fault = "none"
  BY DEF RegistryInit
<1>4. TypeOK
  BY <1>1, <1>2 DEF TypeOK, RegistryInv
<1>5. StartInv
  BY <1>2, <1>3, <1>4, Members DEF StartInv
<1>6. PlaceInv
  BY <1>2 DEF PlaceInv, Active, Taken
<1>7. JoinedInv
  BY <1>3 DEF JoinedInv
<1>8. FlowInv
  BY <1>3 DEF FlowInv
<1>9. FirstStopInv
  BY <1>3 DEF FirstStopInv
<1>10. SoleInv
  BY <1>3 DEF SoleInv, Sole
<1>11. MissedInv
  BY DEF MissedInv
<1> QED
  BY <1>1, <1>3, <1>4, <1>5, <1>6, <1>7, <1>8, <1>9, <1>10, <1>11
     DEF IInv, DanglingNeedsTwoStops

\* A step of a worker or a client, or of a stopper in initiate_shutdown():
\* what start and stop have done with the threads stays as it is.
LEMMA ThreadsKept ==
    ASSUME IInv, UNCHANGED bridgeVars, RegistryInv',
           \A w \in Workers : /\ phase'[w] = "none" <=> phase[w] = "none"
                              /\ phase[w] = "destroyed" => phase'[w] = "destroyed"
    PROVE  TypeOK' /\ StartInv' /\ PlaceInv' /\ JoinedInv'
<1> USE DEF bridgeVars
<1>1. TypeOK'
  BY DEF IInv, TypeOK, RegistryInv
<1>2. /\ ToSet(start) \subseteq Workers /\ created \subseteq Workers
      /\ Active \subseteq Workers
      /\ \A t \in Stoppers : Taken(t) \subseteq Workers
  BY Members DEF IInv
<1>3. StartInv'
  BY <1>2 DEF IInv, StartInv
<1>4. PlaceInv'
  <2>1. Active' = Active /\ \A t \in Stoppers : Taken(t)' = Taken(t)
    BY DEF Active, Taken
  <2> QED
    BY <1>2, <2>1 DEF IInv, PlaceInv
<1>5. JoinedInv'
  <2>1. \A w \in Workers : Pending(w)' <=> Pending(w)
    BY DEF Pending, Active, Taken
  <2> QED
    BY <2>1 DEF IInv, JoinedInv
<1> QED
  BY <1>1, <1>3, <1>4, <1>5

\* A worker's or a client's step: the stops stay where they are.
LEMMA StopsKept ==
    ASSUME IInv, UNCHANGED bridgeVars, UNCHANGED <<stop, todo, sd>>,
           fault' # "exit", fault' # "dangling",
           \A w \in Workers : phase[w] = "destroyed" => phase'[w] = "destroyed"
    PROVE  /\ FlowInv' /\ MissedInv' /\ FirstStopInv' /\ SoleInv'
           /\ fault' # "exit" /\ DanglingNeedsTwoStops'
<1> USE DEF bridgeVars, IInv
<1>1. FlowInv'
  BY DEF FlowInv
<1>2. FirstStopInv'
  BY DEF FirstStopInv
<1>3. SoleInv'
  BY DEF SoleInv, Sole
<1>4. DanglingNeedsTwoStops'
  BY DEF DanglingNeedsTwoStops
<1>5. MissedInv'
  BY DEF MissedInv, Active
<1> QED
  BY <1>1, <1>2, <1>3, <1>4, <1>5

\* VendorThread() and the clients.
LEMMA WorkersIInv ==
    ASSUME IInv, NEW w \in Workers, ThreadStep(w) \/ ClientStep(w)
    PROVE  IInv'
<1>1. /\ UNCHANGED bridgeVars /\ UNCHANGED <<stop, todo, sd>>
      /\ fault' \in {"none", "abort"}
  BY DEF ThreadStep, ClientStep, Alive, WorkerStep, Register, Serve, Exit, Unregister, Destroy,
     Open, Dispose
<1>2. RegistryInv'
  BY WorkerStepKeeps, SessionStepKeeps DEF ThreadStep, ClientStep, IInv
<1>3. \A v \in Workers : /\ phase'[v] = "none" <=> phase[v] = "none"
                         /\ phase[v] = "destroyed" => phase'[v] = "destroyed"
  <2>1. phase \in [Workers -> Phases]
    BY DEF IInv, RegistryInv, RegistryTypeOK
  <2> QED
    BY <2>1 DEF ThreadStep, ClientStep, WorkerStep, Register, Serve, Exit, Unregister, Destroy,
       Open, Dispose
<1>4. TypeOK' /\ StartInv' /\ PlaceInv' /\ JoinedInv'
  BY <1>1, <1>2, <1>3, ThreadsKept
<1>5. /\ FlowInv' /\ MissedInv' /\ FirstStopInv' /\ SoleInv'
      /\ fault' # "exit" /\ DanglingNeedsTwoStops'
  BY <1>1, <1>3, StopsKept
<1> QED
  BY <1>2, <1>4, <1>5 DEF IInv

\* No step.
LEMMA StillIInv == IInv /\ UNCHANGED vars => IInv'
<1> SUFFICES ASSUME IInv, UNCHANGED vars PROVE IInv'
  OBVIOUS
<1>1. RegistryInv'
  BY RegistryKept DEF IInv, vars, registryVars, RegistryInv, RegistryTypeOK
<1>2. TypeOK' /\ StartInv' /\ PlaceInv' /\ JoinedInv'
  BY <1>1, ThreadsKept DEF vars, registryVars
<1>3. FlowInv'
  BY DEF IInv, FlowInv, vars, registryVars, bridgeVars
<1>4. FirstStopInv'
  BY DEF IInv, FirstStopInv, vars, registryVars, bridgeVars
<1>5. SoleInv'
  BY DEF IInv, SoleInv, Sole, vars, registryVars, bridgeVars
<1>6. fault' # "exit" /\ DanglingNeedsTwoStops'
  BY DEF IInv, DanglingNeedsTwoStops, vars, registryVars, bridgeVars
<1>7. MissedInv'
  BY DEF IInv, MissedInv, Active, vars, bridgeVars
<1> QED
  BY <1>1, <1>2, <1>3, <1>4, <1>5, <1>6, <1>7 DEF IInv

-----------------------------------------------------------------------------
(* start_grpc_dialout_collector().                                         *)

\* A step of start leaves the stops that are under way where they are; a worker
\* it creates has not been shut down by anyone.
LEMMA StopsAside ==
    ASSUME IInv, UNCHANGED <<pc, sd, joining, stop, todo, missed, fault>>,
           ToSet(start') \subseteq ToSet(start),
           Active' \subseteq Active \cup ToSet(start),
           \A w \in Workers : phase[w] = "destroyed" => phase'[w] = "destroyed"
    PROVE  FlowInv' /\ MissedInv' /\ FirstStopInv' /\ SoleInv' /\ DanglingNeedsTwoStops'
<1>1. FlowInv'
  BY DEF IInv, FlowInv
<1>2. MissedInv'
  BY DEF IInv, MissedInv
<1>3. FirstStopInv'
  BY DEF IInv, FirstStopInv
<1>4. SoleInv'
  BY DEF IInv, SoleInv, Sole
<1>5. DanglingNeedsTwoStops'
  BY DEF IInv, DanglingNeedsTwoStops
<1> QED
  BY <1>1, <1>2, <1>3, <1>4, <1>5

\* pthread_create(): the thread runs, and is about to be recorded; or there is
\* none, and the worker is passed over.
LEMMA CreateThreadIInv == IInv /\ CreateThread => IInv'
<1> SUFFICES ASSUME IInv, CreateThread PROVE IInv'
  OBVIOUS
<1> DEFINE w == Head(start)
<1>1. /\ start \in Seq(Workers) /\ start # <<>> /\ IsInjective(start) /\ created = {}
      /\ UNCHANGED <<stop, session, registry, todo, sd, fault, active, joining, pc, joined, missed>>
  BY DEF IInv, TypeOK, StartInv, CreateThread
<1>2. /\ w \in ToSet(start) /\ w \in Workers
      /\ Tail(start) \in Seq(Workers) /\ IsInjective(Tail(start))
      /\ ToSet(Tail(start)) = ToSet(start) \ {w}
  BY <1>1, Tailed
<1>3. phase[w] = "none" /\ \A v \in ToSet(start) : phase[v] = "none"
  BY <1>1, <1>2 DEF IInv, StartInv
<1>4. ASSUME ToSet(start') \subseteq ToSet(start),
             \A v \in Workers : phase[v] = "destroyed" => phase'[v] = "destroyed"
      PROVE  FlowInv' /\ MissedInv' /\ FirstStopInv' /\ SoleInv' /\ DanglingNeedsTwoStops'
  <2>1. Active' = Active
    BY <1>1 DEF Active
  <2> QED
    BY <1>1, <1>4, <2>1, StopsAside
<1>5. /\ ToSet(start) \subseteq Workers /\ Active \subseteq Workers
      /\ \A t \in Stoppers : Taken(t) \subseteq Workers
  BY Members DEF IInv
<1>6. Active' = Active /\ \A t \in Stoppers : Taken(t)' = Taken(t)
  BY <1>1 DEF Active, Taken
<1> HIDE DEF w
<1>7. CASE /\ phase' = [phase EXCEPT ![w] = "created"] /\ created' = {w}
           /\ UNCHANGED start
  <2>1. RegistryInv'
    BY <1>1, <1>2, <1>3, <1>7, ThreadCreated DEF IInv
  <2>2. \A v \in Workers : phase'[v] = IF v = w THEN "created" ELSE phase[v]
    BY <1>7 DEF IInv, RegistryInv, RegistryTypeOK
  <2>3. TypeOK'
    BY <1>1, <1>2, <1>7, <2>1 DEF IInv, TypeOK, RegistryInv
  <2>4. StartInv'
    BY <1>1, <1>2, <1>3, <1>5, <1>7, <2>2 DEF StartInv, w
  <2>5. w \notin Active /\ \A t \in Stoppers : w \notin Taken(t)
    BY <1>3 DEF IInv, PlaceInv
  <2>6. PlaceInv'
    BY <1>1, <1>5, <1>6, <1>7, <2>2, <2>5 DEF IInv, PlaceInv
  <2>7. \A v \in Workers : Pending(v)' <=> Pending(v) \/ v = w
    BY <1>1, <1>6, <1>7 DEF Pending
  <2>8. JoinedInv'
    BY <1>1, <1>2, <1>3, <2>2, <2>7 DEF IInv, JoinedInv
  <2>9. FlowInv' /\ MissedInv' /\ FirstStopInv' /\ SoleInv' /\ DanglingNeedsTwoStops'
    BY <1>3, <1>4, <1>7, <2>2
  <2> QED
    BY <1>1, <2>1, <2>3, <2>4, <2>6, <2>8, <2>9 DEF IInv
<1>8. CASE start' = Tail(start) /\ UNCHANGED <<phase, created>>
  <2>1. RegistryInv'
    BY <1>1, <1>8, RegistryKept DEF IInv, RegistryInv, RegistryTypeOK
  <2>2. TypeOK'
    BY <1>1, <1>2, <1>8, <2>1 DEF IInv, TypeOK, RegistryInv
  <2>3. StartInv'
    BY <1>1, <1>2, <1>3, <1>8 DEF StartInv
  <2>4. PlaceInv'
    BY <1>1, <1>6, <1>8 DEF IInv, PlaceInv
  <2>5. \A v \in Workers : Pending(v)' <=> Pending(v)
    BY <1>6, <1>8 DEF Pending
  <2>6. JoinedInv'
    BY <1>1, <1>8, <2>5 DEF IInv, JoinedInv
  <2>7. FlowInv' /\ MissedInv' /\ FirstStopInv' /\ SoleInv' /\ DanglingNeedsTwoStops'
    BY <1>2, <1>4, <1>8
  <2> QED
    BY <1>1, <2>1, <2>2, <2>3, <2>4, <2>6, <2>7 DEF IInv
<1> QED
  BY <1>7, <1>8 DEF CreateThread, w

\* g_active_workers.push_back().
LEMMA RecordThreadIInv == IInv /\ RecordThread => IInv'
<1> SUFFICES ASSUME IInv, RecordThread PROVE IInv'
  OBVIOUS
<1> DEFINE w == Head(start)
<1>1. /\ start \in Seq(Workers) /\ start # <<>> /\ IsInjective(start) /\ created = {w}
      /\ active \in Seq(Workers) /\ IsInjective(active)
      /\ active' = Append(active, w) /\ created' = {} /\ start' = Tail(start)
      /\ UNCHANGED <<registryVars, joining, pc, joined, missed>>
  BY DEF IInv, TypeOK, StartInv, PlaceInv, RecordThread
<1>2. /\ w \in ToSet(start) /\ w \in Workers
      /\ Tail(start) \in Seq(Workers) /\ IsInjective(Tail(start))
      /\ ToSet(Tail(start)) = ToSet(start) \ {w}
  BY <1>1, Tailed
<1>3. w \notin Active /\ phase[w] # "none" /\ \A t \in Stoppers : w \notin Taken(t)
  BY <1>1 DEF IInv, StartInv, PlaceInv
<1> HIDE DEF w
<1>4. /\ active' \in Seq(Workers) /\ IsInjective(active')
      /\ ToSet(active') = ToSet(active) \cup {w}
  BY <1>1, <1>2, <1>3, Appended DEF Active
<1>5. /\ UNCHANGED <<phase, stop, session, registry, todo, sd, fault>>
      /\ fault \in {"none", "abort", "dangling", "exit"}
  BY <1>1 DEF registryVars, IInv, RegistryInv, RegistryTypeOK
<1>6. RegistryInv'
  BY <1>5, RegistryKept DEF IInv
<1>7. FlowInv' /\ MissedInv' /\ FirstStopInv' /\ SoleInv' /\ DanglingNeedsTwoStops'
  <2>1. ToSet(start') \subseteq ToSet(start) /\ Active' \subseteq Active \cup ToSet(start)
    BY <1>1, <1>2, <1>4 DEF Active
  <2> QED
    BY <1>1, <1>5, <2>1, StopsAside
<1>8. TypeOK'
  BY <1>1, <1>2, <1>4, <1>6 DEF IInv, TypeOK, RegistryInv
<1>9. StartInv'
  BY <1>1, <1>2, <1>5 DEF IInv, StartInv
<1>10. Active' = Active \cup {w} /\ \A t \in Stoppers : Taken(t)' = Taken(t)
  BY <1>1, <1>4 DEF Active, Taken
<1>11. PlaceInv'
  BY <1>1, <1>3, <1>4, <1>5, <1>10 DEF IInv, PlaceInv
<1>12. \A v \in Workers : Pending(v)' <=> Pending(v)
  BY <1>1, <1>10 DEF Pending
<1>13. JoinedInv'
  BY <1>1, <1>5, <1>12 DEF IInv, JoinedInv
<1> QED
  BY <1>5, <1>6, <1>7, <1>8, <1>9, <1>11, <1>13 DEF IInv

-----------------------------------------------------------------------------
(* stop_grpc_dialout_collector().                                          *)

\* When some stop has returned and none is under way, no thread runs but those
\* the stops missed.
LEMMA NoneRuns ==
    ASSUME IInv, AllReturned
    PROVE  \A w \in Workers \ missed : phase[w] \in {"none", "destroyed"}
<1>1. /\ \A u \in Stoppers : joining[u] = <<>>
      /\ ToSet(start) \subseteq missed /\ Active \subseteq missed
  BY DEF IInv, FlowInv, MissedInv, AllReturned
<1>2. created \subseteq missed
  <2>1. start # <<>> => Head(start) \in ToSet(start)
    BY Tailed DEF IInv, TypeOK, StartInv
  <2> QED
    BY <1>1, <2>1 DEF IInv, StartInv
<1>3. ToSet(<<>>) = {}
  BY NoMembers
<1>4. \A w \in Workers \ missed : ~Pending(w)
  BY <1>1, <1>2, <1>3 DEF Pending, Taken
<1> QED
  BY <1>4 DEF IInv, JoinedInv

\* The host calls stop(), for the first time in this thread or again.
LEMMA CallStopIInv ==
    ASSUME IInv, NEW t \in Stoppers, CallStop(t)
    PROVE  IInv'
<1>1. /\ pc[t] \in {"idle", "returned"}
      /\ pc' = [pc EXCEPT ![t] = "shutdown"]
      /\ sd' = [sd EXCEPT ![t] = "idle"]
      /\ UNCHANGED <<phase, stop, session, registry, todo, fault, start, created,
                     active, joining, joined, missed>>
  BY DEF CallStop
<1>2. sd[t] \in {"idle", "returned"}
  BY <1>1 DEF IInv, FlowInv
<1>3. RegistryInv'
  BY <1>1, <1>2, ShutdownCalled DEF IInv
<1>4. /\ pc \in [Stoppers -> {"idle", "shutdown", "join", "returned"}]
      /\ sd \in [Stoppers -> {"idle", "next", "inside", "returned"}]
  BY DEF IInv, TypeOK, RegistryInv, RegistryTypeOK
<1>5. \A u \in Stoppers : /\ pc'[u] = IF u = t THEN "shutdown" ELSE pc[u]
                          /\ sd'[u] = IF u = t THEN "idle" ELSE sd[u]
  BY <1>1, <1>4
<1>6. TypeOK'
  BY <1>1, <1>3, <1>4 DEF IInv, TypeOK, RegistryInv
<1>7. StartInv'
  BY <1>1 DEF IInv, StartInv
<1>8. PlaceInv'
  BY <1>1 DEF IInv, PlaceInv, Active, Taken
<1>9. JoinedInv'
  <2>1. \A w \in Workers : Pending(w)' <=> Pending(w)
    BY <1>1 DEF Pending, Active, Taken
  <2> QED
    BY <1>1, <2>1 DEF IInv, JoinedInv
<1>10. FlowInv'
  BY <1>1, <1>5 DEF IInv, FlowInv
<1>11. FirstStopInv'
  BY <1>5 DEF FirstStopInv
<1>12. SoleInv'
  <2> SUFFICES ASSUME NEW u \in Stoppers, Sole(u)', missed = {}
               PROVE  /\ \A w \in Workers : phase[w] = "destroyed" \/ stop[w] = "no"
                      /\ sd'[u] = "idle"
    BY <1>1 DEF SoleInv
  <2>1. u = t /\ \A x \in Stoppers \ {t} : pc[x] = "idle"
    BY <1>5 DEF Sole
  <2>2. CASE pc[t] = "idle"
    BY <1>5, <2>1, <2>2 DEF IInv, FirstStopInv
  <2>3. CASE pc[t] = "returned"
    <3>1. \A w \in Workers : phase[w] \in {"none", "destroyed"}
      BY <2>1, <2>3, NoneRuns DEF AllReturned
    <3> QED
      BY <1>5, <2>1, <3>1 DEF IInv, RegistryInv, StopInv
  <2> QED
    BY <1>1, <2>2, <2>3
<1>13. fault' # "exit" /\ DanglingNeedsTwoStops'
  <2>1. \A u \in Stoppers : pc[u] # "idle" => pc'[u] # "idle"
    BY <1>5
  <2> QED
    BY <1>1, <2>1 DEF IInv, DanglingNeedsTwoStops
<1>14. MissedInv'
  BY <1>1, <1>5 DEF IInv, MissedInv, Active
<1> QED
  BY <1>3, <1>6, <1>7, <1>8, <1>9, <1>10, <1>11, <1>12, <1>13, <1>14 DEF IInv

\* initiate_shutdown(): the only thread that ever stopped finds every Srv of
\* its snapshot in place, for none that it has yet to shut down has exited.
LEMMA RunShutdownIInv ==
    ASSUME IInv, NEW t \in Stoppers, RunShutdown(t)
    PROVE  IInv'
<1>1. /\ pc[t] = "shutdown" /\ UNCHANGED bridgeVars /\ UNCHANGED <<phase, session, registry>>
      /\ Snapshot(t) \/ ShutdownStep(t)
      /\ fault' = fault \/ (EnterShutdown(t) /\ fault' = "dangling")
  BY DEF RunShutdown, Snapshot, ShutdownStep, EnterShutdown, LeaveShutdown, ShutdownReturns
<1>2. RegistryInv'
  BY <1>1, ShutdownStepKeeps DEF IInv
<1>3. TypeOK' /\ StartInv' /\ PlaceInv' /\ JoinedInv'
  BY <1>1, <1>2, ThreadsKept
<1>4. /\ sd \in [Stoppers -> {"idle", "next", "inside", "returned"}]
      /\ todo \in [Stoppers -> Seq(Workers)]
      /\ stop \in [Workers -> {"no", "draining", "closed"}]
  BY DEF IInv, RegistryInv, RegistryTypeOK
<1>5. \A u \in Stoppers \ {t} : sd'[u] = sd[u] /\ todo'[u] = todo[u]
  BY <1>4 DEF RunShutdown, Snapshot, ShutdownStep, EnterShutdown, LeaveShutdown, ShutdownReturns
<1>6. FlowInv'
  BY <1>1, <1>5 DEF IInv, FlowInv, bridgeVars
<1>7. FirstStopInv'
  BY <1>1 DEF FirstStopInv, bridgeVars
<1>8. ASSUME Sole(t), missed = {}, EnterShutdown(t)
      PROVE  /\ Head(todo[t]) \in ToSet(todo[t]) /\ Head(todo[t]) \in Workers
             /\ stop[Head(todo[t])] = "no" /\ phase[Head(todo[t])] # "destroyed"
  <2>1. todo[t] \in Seq(Workers) /\ todo[t] # <<>> /\ IsInjective(todo[t]) /\ sd[t] = "next"
    BY <1>4, <1>8 DEF EnterShutdown, IInv, RegistryInv, TodoInv
  <2>2. Head(todo[t]) \in ToSet(todo[t]) /\ Head(todo[t]) \in Workers
    BY <2>1, Tailed
  <2>3. stop[Head(todo[t])] = "no"
    BY <1>8, <2>1, <2>2 DEF IInv, SoleInv
  <2> QED
    BY <2>2, <2>3 DEF IInv, RegistryInv, StopInv
<1>9. SoleInv'
  <2> SUFFICES ASSUME NEW u \in Stoppers, Sole(u)', missed = {}
               PROVE  /\ sd'[u] = "idle" =>
                            \A w \in Workers : phase[w] = "destroyed" \/ stop'[w] = "no"
                      /\ sd'[u] \in {"next", "inside"} =>
                            \A w \in ToSet(todo'[u]) :
                                stop'[w] = "no" \/ (sd'[u] = "inside" /\ w = Head(todo'[u]))
    BY <1>1 DEF SoleInv, bridgeVars
  <2>1. u = t /\ Sole(t)
    BY <1>1 DEF Sole, bridgeVars
  <2>2. CASE Snapshot(t)
    <3>1. sd'[t] = "next" /\ todo'[t] = registry /\ stop' = stop /\ sd[t] = "idle"
      BY <1>4, <2>2 DEF Snapshot
    <3>2. \A w \in ToSet(registry) : w \in Workers /\ phase[w] # "destroyed"
      BY DEF IInv, RegistryInv, RegistryExact
    <3> QED
      BY <1>1, <2>1, <3>1, <3>2 DEF IInv, SoleInv
  <2>3. CASE EnterShutdown(t)
    <3>1. /\ Head(todo[t]) \in ToSet(todo[t]) /\ Head(todo[t]) \in Workers
          /\ stop[Head(todo[t])] = "no" /\ phase[Head(todo[t])] # "destroyed"
      BY <1>8, <2>1, <2>3
    <3>2. /\ sd[t] = "next" /\ stop' = [stop EXCEPT ![Head(todo[t])] = "draining"]
          /\ sd' = [sd EXCEPT ![t] = "inside"] /\ todo' = todo
      BY <2>3, <3>1 DEF EnterShutdown
    <3>3. sd'[t] = "inside" /\ \A w \in Workers \ {Head(todo[t])} : stop'[w] = stop[w]
      BY <1>4, <3>2
    <3>4. ToSet(todo[t]) \subseteq Workers
      BY <1>4, MembersOf
    <3> QED
      BY <2>1, <3>2, <3>3, <3>4 DEF IInv, SoleInv
  <2>4. CASE LeaveShutdown(t)
    <3>1. /\ todo[t] \in Seq(Workers) /\ todo[t] # <<>> /\ IsInjective(todo[t]) /\ sd[t] = "inside"
      BY <1>4, <2>4 DEF LeaveShutdown, IInv, RegistryInv, TodoInv, InsideInv
    <3>2. /\ sd'[t] = "next" /\ todo'[t] = Tail(todo[t])
          /\ \A w \in Workers \ {Head(todo[t])} : stop'[w] = stop[w]
      BY <1>4, <2>4 DEF LeaveShutdown
    <3>3. ToSet(Tail(todo[t])) = ToSet(todo[t]) \ {Head(todo[t])}
      BY <3>1, Tailed
    <3>4. ToSet(todo[t]) \subseteq Workers
      BY <1>4, MembersOf
    <3>5. \A w \in ToSet(todo[t]) : stop[w] = "no" \/ w = Head(todo[t])
      BY <2>1, <3>1 DEF IInv, SoleInv
    <3> QED
      BY <2>1, <3>2, <3>3, <3>4, <3>5
  <2>5. CASE ShutdownReturns(t)
    <3>1. sd'[t] = "returned"
      BY <1>4, <2>5 DEF ShutdownReturns
    <3> QED
      BY <2>1, <3>1
  <2> QED
    BY <1>1, <2>2, <2>3, <2>4, <2>5 DEF ShutdownStep
<1>10. fault' # "exit" /\ DanglingNeedsTwoStops'
  <2>1. CASE fault' = fault
    BY <1>1, <2>1 DEF IInv, DanglingNeedsTwoStops, bridgeVars
  <2>2. CASE EnterShutdown(t) /\ fault' = "dangling" /\ fault' # fault
    <3>1. phase[Head(todo[t])] = "destroyed"
      BY <2>2 DEF EnterShutdown
    <3>2. Sole(t) /\ missed = {} => phase[Head(todo[t])] # "destroyed"
      BY <1>8, <2>2
    <3>3. pc[t] # "idle" /\ pc' = pc /\ missed' = missed
      BY <1>1 DEF bridgeVars
    <3>4. CASE missed # {}
      BY <2>2, <3>3, <3>4 DEF DanglingNeedsTwoStops
    <3>5. CASE missed = {}
      <4>1. PICK u \in Stoppers \ {t} : pc[u] # "idle"
        BY <3>1, <3>2, <3>3, <3>5 DEF Sole
      <4> QED
        BY <2>2, <3>3, <4>1 DEF DanglingNeedsTwoStops
    <3> QED
      BY <3>4, <3>5
  <2> QED
    BY <1>1, <2>1, <2>2
<1>11. MissedInv'
  BY <1>1 DEF IInv, MissedInv, Active, bridgeVars
<1> QED
  BY <1>2, <1>3, <1>6, <1>7, <1>9, <1>10, <1>11 DEF IInv

\* A stop that is past its initiate_shutdown() moves on.
LEMMA StopMoves ==
    ASSUME IInv, NEW t \in Stoppers, pc[t] # "idle", UNCHANGED registryVars,
           pc' = pc \/ \E p \in {"join", "returned"} : pc' = [pc EXCEPT ![t] = p],
           missed' = missed \/ (fault = "none" /\ sd[t] = "returned")
    PROVE  RegistryInv' /\ FirstStopInv' /\ SoleInv' /\ fault' # "exit" /\ DanglingNeedsTwoStops'
<1>1. /\ UNCHANGED <<phase, stop, session, registry, todo, sd, fault>>
      /\ fault \in {"none", "abort", "dangling", "exit"}
  BY DEF registryVars, IInv, RegistryInv, RegistryTypeOK
<1>2. RegistryInv'
  BY <1>1, RegistryKept DEF IInv
<1>3. pc \in [Stoppers -> {"idle", "shutdown", "join", "returned"}]
  BY DEF IInv, TypeOK
<1>4. \A u \in Stoppers : /\ pc'[u] = "idle" <=> pc[u] = "idle"
                          /\ pc'[u] = "shutdown" => pc[u] = "shutdown"
  BY <1>3
<1>5. FirstStopInv'
  BY <1>1, <1>4 DEF IInv, FirstStopInv
<1>6. SoleInv'
  <2>1. \A u \in Stoppers : Sole(u)' => Sole(u)
    BY <1>4 DEF Sole
  <2>2. CASE missed' = missed
    BY <1>1, <1>4, <2>1, <2>2 DEF IInv, SoleInv
  <2>3. CASE sd[t] = "returned"
    <3>1. \A u \in Stoppers : Sole(u)' => u = t
      BY <1>4 DEF Sole
    <3> QED
      BY <1>1, <2>3, <3>1 DEF SoleInv
  <2> QED
    BY <2>2, <2>3
<1>7. fault' # "exit" /\ DanglingNeedsTwoStops'
  BY <1>1, <1>4 DEF IInv, DanglingNeedsTwoStops
<1> QED
  BY <1>2, <1>5, <1>6, <1>7

\* snapshot.swap(g_active_workers): what was recorded is this stop's to join.
LEMMA TakeWorkersIInv ==
    ASSUME IInv, NEW t \in Stoppers, Alive, TakeWorkers(t)
    PROVE  IInv'
<1>1. /\ pc[t] = "shutdown" /\ sd[t] = "returned"
      /\ joining' = [joining EXCEPT ![t] = active] /\ active' = <<>>
      /\ missed' = ToSet(start) /\ fault = "none"
      /\ pc' = [pc EXCEPT ![t] = "join"]
      /\ UNCHANGED <<registryVars, start, created, joined>>
  BY DEF TakeWorkers, Alive
<1>2. RegistryInv' /\ FirstStopInv' /\ SoleInv' /\ fault' # "exit" /\ DanglingNeedsTwoStops'
  BY <1>1, StopMoves
<1>3. /\ pc \in [Stoppers -> {"idle", "shutdown", "join", "returned"}]
      /\ joining \in [Stoppers -> Seq(Workers)] /\ active \in Seq(Workers)
  BY DEF IInv, TypeOK
<1>4. /\ <<>> \in Seq(Workers) /\ IsInjective(<<>>) /\ ToSet(<<>>) = {}
  BY NoMembers
<1>5. \A u \in Stoppers : /\ pc'[u] = IF u = t THEN "join" ELSE pc[u]
                          /\ joining'[u] = IF u = t THEN active ELSE joining[u]
  BY <1>1, <1>3
<1>6. TypeOK'
  BY <1>1, <1>2, <1>3, <1>4, Members DEF IInv, TypeOK, RegistryInv
<1>7. StartInv'
  BY <1>1 DEF IInv, StartInv, registryVars
<1>8. joining[t] = <<>>
  BY <1>1 DEF IInv, FlowInv
<1>9. /\ Active' = {} /\ Taken(t) = {} /\ Taken(t)' = Active
      /\ \A u \in Stoppers \ {t} : Taken(u)' = Taken(u)
  BY <1>1, <1>4, <1>5, <1>8 DEF Active, Taken
<1>10. PlaceInv'
  <2>1. IsInjective(active') /\ \A u \in Stoppers : IsInjective(joining'[u])
    BY <1>1, <1>4, <1>5 DEF IInv, PlaceInv
  <2>2. \A u \in Stoppers : Taken(u)' \cap created = {} /\ \A w \in Taken(u)' : phase[w] # "none"
    BY <1>9 DEF IInv, PlaceInv
  <2>3. \A u, x \in Stoppers : u # x => Taken(u)' \cap Taken(x)' = {}
    BY <1>9 DEF IInv, PlaceInv
  <2> QED
    BY <1>1, <1>9, <2>1, <2>2, <2>3 DEF PlaceInv, registryVars
<1>11. JoinedInv'
  <2>1. \A w \in Workers : Pending(w)' <=> Pending(w)
    BY <1>1, <1>9 DEF Pending
  <2> QED
    BY <1>1, <2>1 DEF IInv, JoinedInv, registryVars
<1>12. FlowInv'
  BY <1>1, <1>5, <1>8 DEF IInv, FlowInv, registryVars
<1>13. MissedInv'
  BY <1>1, <1>9 DEF MissedInv
<1> QED
  BY <1>2, <1>6, <1>7, <1>10, <1>11, <1>12, <1>13 DEF IInv

\* pthread_join() of a thread that has ended.
LEMMA JoinIInv ==
    ASSUME IInv, NEW t \in Stoppers, Join(t)
    PROVE  IInv'
<1> DEFINE w == Head(joining[t])
<1>1. /\ pc[t] = "join" /\ joining[t] # <<>> /\ phase[w] = "destroyed"
      /\ joined' = [joined EXCEPT ![w] = @ + 1]
      /\ joining' = [joining EXCEPT ![t] = Tail(@)]
      /\ UNCHANGED <<registryVars, start, created, active, pc, missed>>
  BY DEF Join
<1>2. RegistryInv' /\ FirstStopInv' /\ SoleInv' /\ fault' # "exit" /\ DanglingNeedsTwoStops'
  BY <1>1, StopMoves
<1>3. /\ joining \in [Stoppers -> Seq(Workers)] /\ joining[t] \in Seq(Workers)
      /\ IsInjective(joining[t]) /\ joined \in [Workers -> Nat]
  BY DEF IInv, TypeOK, PlaceInv
<1>4. /\ w \in Taken(t) /\ w \in Workers
      /\ Tail(joining[t]) \in Seq(Workers) /\ IsInjective(Tail(joining[t]))
      /\ ToSet(Tail(joining[t])) = Taken(t) \ {w}
  BY <1>1, <1>3, Tailed DEF Taken
<1> HIDE DEF w
<1>5. \A u \in Stoppers : joining'[u] = IF u = t THEN Tail(joining[t]) ELSE joining[u]
  BY <1>1, <1>3
<1>6. TypeOK'
  <2>1. joining' \in [Stoppers -> Seq(Workers)]
    BY <1>1, <1>3, <1>4
  <2>2. joined' \in [Workers -> Nat]
    BY <1>1, <1>3, <1>4
  <2> QED
    BY <1>1, <1>2, <2>1, <2>2 DEF IInv, TypeOK, RegistryInv
<1>7. StartInv'
  BY <1>1 DEF IInv, StartInv, registryVars
<1>8. /\ Active' = Active /\ Taken(t)' = Taken(t) \ {w}
      /\ \A u \in Stoppers \ {t} : Taken(u)' = Taken(u)
  BY <1>1, <1>4, <1>5 DEF Active, Taken
<1>9. PlaceInv'
  <2>1. \A u \in Stoppers : IsInjective(joining'[u]) /\ Taken(u)' \subseteq Taken(u)
    BY <1>4, <1>5, <1>8 DEF IInv, PlaceInv
  <2> QED
    BY <1>1, <1>8, <2>1 DEF IInv, PlaceInv, registryVars
<1>10. w \notin created /\ w \notin Active /\ \A u \in Stoppers \ {t} : w \notin Taken(u)
  BY <1>4 DEF IInv, PlaceInv
<1>11. JoinedInv'
  <2>1. \A v \in Workers : Pending(v)' <=> Pending(v) /\ v # w
    BY <1>1, <1>4, <1>8, <1>10 DEF Pending
  <2>2. Pending(w) /\ joined[w] = 0
    BY <1>4 DEF Pending, IInv, JoinedInv
  <2>3. joined'[w] = 1 /\ \A v \in Workers \ {w} : joined'[v] = joined[v]
    BY <1>1, <1>3, <1>4, <2>2
  <2>4. phase' = phase
    BY <1>1 DEF registryVars
  <2> QED
    BY <1>1, <1>4, <2>1, <2>3, <2>4 DEF IInv, JoinedInv
<1>12. FlowInv'
  BY <1>1, <1>5 DEF IInv, FlowInv, registryVars
<1>13. MissedInv'
  BY <1>1, <1>8 DEF IInv, MissedInv
<1> QED
  BY <1>2, <1>6, <1>7, <1>9, <1>11, <1>12, <1>13 DEF IInv

\* stop returns 1.
LEMMA StopReturnsIInv ==
    ASSUME IInv, NEW t \in Stoppers, StopReturns(t)
    PROVE  IInv'
<1>1. /\ pc[t] = "join" /\ joining[t] = <<>> /\ pc' = [pc EXCEPT ![t] = "returned"]
      /\ UNCHANGED <<registryVars, start, created, active, joining, joined, missed>>
  BY DEF StopReturns
<1>2. RegistryInv' /\ FirstStopInv' /\ SoleInv' /\ fault' # "exit" /\ DanglingNeedsTwoStops'
  BY <1>1, StopMoves
<1>3. \A u \in Stoppers : pc'[u] = IF u = t THEN "returned" ELSE pc[u]
  BY <1>1 DEF IInv, TypeOK
<1>4. TypeOK'
  BY <1>1, <1>2 DEF IInv, TypeOK, RegistryInv
<1>5. StartInv'
  BY <1>1 DEF IInv, StartInv, registryVars
<1>6. PlaceInv'
  BY <1>1 DEF IInv, PlaceInv, Active, Taken, registryVars
<1>7. JoinedInv'
  <2>1. \A w \in Workers : Pending(w)' <=> Pending(w)
    BY <1>1 DEF Pending, Active, Taken
  <2> QED
    BY <1>1, <2>1 DEF IInv, JoinedInv, registryVars
<1>8. FlowInv'
  BY <1>1, <1>3 DEF IInv, FlowInv, registryVars
<1>9. MissedInv'
  BY <1>1, <1>3 DEF IInv, MissedInv, Active
<1> QED
  BY <1>2, <1>4, <1>5, <1>6, <1>7, <1>8, <1>9 DEF IInv

\* The inductive invariant is one.
LEMMA NextIInv == IInv /\ [Next]_vars => IInv'
<1> SUFFICES ASSUME IInv, [Next]_vars PROVE IInv'
  OBVIOUS
<1>1. CASE StartStep
  BY <1>1, CreateThreadIInv, RecordThreadIInv DEF StartStep
<1>2. ASSUME NEW t \in Stoppers, CallStop(t) PROVE IInv'
  BY <1>2, CallStopIInv
<1>3. ASSUME NEW t \in Stoppers, StopStep(t) PROVE IInv'
  BY <1>3, RunShutdownIInv, TakeWorkersIInv, JoinIInv, StopReturnsIInv DEF StopStep
<1>4. ASSUME NEW w \in Workers, ThreadStep(w) \/ ClientStep(w) PROVE IInv'
  BY <1>4, WorkersIInv
<1>5. CASE Dead \/ UNCHANGED vars
  BY <1>5, StillIInv DEF Dead
<1> QED
  BY <1>1, <1>2, <1>3, <1>4, <1>5 DEF Next

-----------------------------------------------------------------------------
(* The theorems.                                                           *)

\* The inductive invariant holds in every reachable state.
THEOREM Invariant == Spec => []IInv
<1> QED
  BY InitIInv, NextIInv, PTL DEF Spec

\* register_server() and unregister_server() keep g_active_servers exact, in
\* whatever order the workers come and go and whoever shuts them down.
THEOREM RegistryAlwaysExact == Spec => []RegistryExact
<1>1. IInv => RegistryExact
  BY DEF IInv, RegistryInv
<1> QED
  BY <1>1, Invariant, PTL

\* pthread_create() to pthread_join(): every worker created is about to be
\* recorded, recorded, with one stop, or joined once.
THEOREM NoWorkerLost == Spec => []WorkersAccounted
<1>1. IInv => WorkersAccounted
  <2> SUFFICES ASSUME IInv, NEW w \in Workers, phase[w] # "none"
               PROVE  Cardinality(created \cap {w}) + Cardinality(Active \cap {w})
                          + Cardinality({t \in Stoppers : w \in Taken(t)}) + joined[w] = 1
    BY DEF WorkersAccounted, Active, Taken, IInv
  <2> DEFINE holders == {t \in Stoppers : w \in Taken(t)}
  <2>1. Cardinality({}) = 0 /\ Cardinality({w}) = 1
    BY FS_EmptySet, FS_Singleton
  <2>2. CASE ~Pending(w)
    <3>1. created \cap {w} = {} /\ Active \cap {w} = {} /\ holders = {} /\ joined[w] = 1
      BY <2>2 DEF Pending, IInv, JoinedInv
    <3> QED
      BY <2>1, <3>1, SMTT(30)
  <2>3. CASE w \in created
    <3>1. created \cap {w} = {w} /\ Active \cap {w} = {} /\ holders = {} /\ joined[w] = 0
      BY <2>3 DEF Pending, IInv, PlaceInv, JoinedInv
    <3>2. /\ Cardinality(created \cap {w}) = 1 /\ Cardinality(Active \cap {w}) = 0
          /\ Cardinality(holders) = 0
      BY <2>1, <3>1
    <3> DEFINE i == Cardinality(created \cap {w})
               j == Cardinality(Active \cap {w})
               k == Cardinality(holders)
    <3> HIDE DEF i, j, k
    <3>3. i + j + k + joined[w] = 1
      BY <3>1, <3>2 DEF i, j, k
    <3> QED
      BY <3>3 DEF i, j, k
  <2>4. CASE w \in Active
    <3>1. created \cap {w} = {} /\ Active \cap {w} = {w} /\ holders = {} /\ joined[w] = 0
      BY <2>4 DEF Pending, IInv, PlaceInv, JoinedInv
    <3> QED
      BY <2>1, <3>1, SMTT(30)
  <2>5. ASSUME NEW t \in Stoppers, w \in Taken(t)
        PROVE  Cardinality(created \cap {w}) + Cardinality(Active \cap {w})
                   + Cardinality(holders) + joined[w] = 1
    <3>1. created \cap {w} = {} /\ Active \cap {w} = {} /\ holders = {t} /\ joined[w] = 0
      BY <2>5 DEF Pending, IInv, PlaceInv, JoinedInv
    <3>2. Cardinality({t}) = 1
      BY FS_Singleton
    <3> QED
      BY <2>1, <3>1, <3>2
  <2> QED
    BY <2>2, <2>3, <2>4, <2>5 DEF Pending
<1> QED
  BY <1>1, Invariant, PTL

\* When every stop that was called has returned 1, every worker recorded when
\* the vector was last taken has ended, also if start was still under way.
THEOREM StoppedMeansEnded == Spec => []StopMeansStopped
<1>1. IInv => StopMeansStopped
  BY NoneRuns DEF StopMeansStopped
<1> QED
  BY <1>1, Invariant, PTL

\* initiate_shutdown() uses a Srv that is gone only next to a second stop.
THEOREM OneStopNeverDangles == Spec => []DanglingNeedsTwoStops
<1>1. IInv => DanglingNeedsTwoStops
  BY DEF IInv
<1> QED
  BY <1>1, Invariant, PTL

\* In library mode every worker's Srv keeps the contract that SrvFsm_proofs
\* shows the state machines to keep: bound, registered, serving, drained
\* before it is closed, and aborted only by a shutdown before its first handler.
THEOREM SrvContractKept == Spec => EverySrvKeepsContract
<1>1. Init => \A w \in Workers : Life(w)!Init
  BY ContractStarts DEF Init
<1>2. IInv /\ [Next]_vars
        => [\A w \in Workers : Life(w)!Next \/ UNCHANGED Life(w)!vars]_registryVars
  <2> SUFFICES ASSUME IInv, Next, ~UNCHANGED registryVars, NEW v \in Workers
               PROVE  ContractOf(v)
    BY DEF ContractOf, vars
  <2>1. CASE StartStep
    <3>1. /\ Alive /\ CreateThread
      BY <2>1 DEF StartStep, RecordThread
    <3>2. /\ start # <<>> /\ created = {} /\ fault = "none"
          /\ phase' = [phase EXCEPT ![Head(start)] = "created"]
          /\ UNCHANGED <<stop, session, fault>>
      BY <3>1 DEF Alive, CreateThread, registryVars
    <3>3. start \in Seq(Workers) /\ IsInjective(start)
      BY DEF IInv, TypeOK, StartInv
    <3>4. Head(start) \in ToSet(start)
      BY <3>2, <3>3, Tailed
    <3>5. phase[Head(start)] = "none"
      BY <3>2, <3>4 DEF IInv, StartInv
    <3>6. phase'[v] = phase[v] \/ (phase[v] = "none" /\ phase'[v] = "created")
      BY <3>2, <3>5 DEF IInv, RegistryInv, RegistryTypeOK
    <3>7. phaseBar(v)' = phaseBar(v)
      BY <3>2, <3>6, LivingBar, NextBar
    <3> QED
      BY <3>2, <3>7 DEF ContractOf, Life!vars
  <2>2. ASSUME NEW t \in Stoppers, Alive, CallStop(t) PROVE ContractOf(v)
    <3>1. UNCHANGED <<phase, stop, session, fault>> /\ fault = "none"
      BY <2>2 DEF CallStop, Alive
    <3> QED
      BY <3>1, NotItsStep
  <2>3. ASSUME NEW t \in Stoppers, StopStep(t) PROVE ContractOf(v)
    <3>1. Alive /\ RunShutdown(t)
      BY <2>3 DEF StopStep, TakeWorkers, Join, StopReturns
    <3> QED
      BY <3>1, ShutdownStepContract DEF RunShutdown, IInv
  <2>4. ASSUME NEW w \in Workers, ThreadStep(w) \/ ClientStep(w) PROVE ContractOf(v)
    BY <2>4, WorkerStepContract, SessionStepContract DEF ThreadStep, ClientStep, IInv
  <2>5. ~Dead
    BY DEF Dead, vars
  <2> QED
    BY <2>1, <2>2, <2>3, <2>4, <2>5 DEF Next
<1> QED
  BY <1>1, <1>2, Invariant, PTL DEF Spec, EverySrvKeepsContract
=============================================================================
