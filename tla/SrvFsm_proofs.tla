--------------------------- MODULE SrvFsm_proofs ---------------------------
(***************************************************************************)
(* Proofs about SrvFsm, for every set of streams and callers and every      *)
(* value of max_replies: the inductive invariant IInv, the safety           *)
(* properties it implies, and the refinement of SrvLife.                    *)
(***************************************************************************)
EXTENDS SrvFsm, FiniteSetTheorems, TLAPS

USE MaxRepliesAssumption, MaxMsgsAssumption

\* The records that stand for operations and completions.
LEMMA OpRecord ==
    ASSUME NEW s \in Streams, NEW k \in Kinds
    PROVE  Op(s, k) \in Ops /\ Op(s, k).tag = s /\ Op(s, k).kind = k
  BY DEF Op, Ops

\* An operation is told by its tag and its kind.
LEMMA OpIs ==
    ASSUME NEW o \in Ops
    PROVE  o.tag \in Streams /\ o.kind \in Kinds /\ o = Op(o.tag, o.kind)
  BY DEF Op, Ops

\* An event of the queue: the tag, the kind and whether it went well.
LEMMA EventRecord ==
    ASSUME NEW s \in Streams, NEW k \in Kinds, NEW ok \in OkValues
    PROVE  /\ Event(s, k, ok) \in Events
           /\ Event(s, k, ok).tag = s
           /\ Event(s, k, ok).kind = k
           /\ Event(s, k, ok).ok = ok
  BY DEF Event, Events

\* An event is told by these three.
LEMMA EventIs ==
    ASSUME NEW e \in Events
    PROVE  /\ e.tag \in Streams /\ e.kind \in Kinds /\ e.ok \in OkValues
           /\ e = Event(e.tag, e.kind, e.ok)
  BY DEF Event, Events

\* The initial state: nothing is started.
LEMMA InitIInv == Init => IInv
<1> SUFFICES ASSUME Init PROVE IInv
  OBVIOUS
<1> USE DEF Init
<1>1. TypeOK
  BY DEF TypeOK, States
<1>2. TagInv /\ AcceptorInv /\ CallInv /\ WorkerInv /\ ShutdownInv /\ RepliesInv
  BY DEF TagInv, AcceptorInv, CallInv, WorkerInv, ShutdownInv, RepliesInv, RepliesBounded
<1>3. TakenInv
  <2>1. Unhandled = {}
    BY DEF Unhandled
  <2> QED
    BY <2>1, FS_EmptySet DEF TakenInv
<1> QED
  BY <1>1, <1>2, <1>3 DEF IInv

\* register_server(): no stream yet, the server is up.
LEMMA BindStep ==
    ASSUME IInv, Bind
    PROVE  IInv'
<1> USE DEF IInv, Bind, fsmVars, stopVars
<1>1. TypeOK'
  BY DEF TypeOK, States, Ops, Events, Kinds, OkValues, Op, Event, Free, ArmedOps, FailedArm
<1>2. TagInv'
  BY DEF TagInv, Expected, TypeOK, Ops, Events, Op, Event, Free, ArmedOps, FailedArm, WorkerInv, AcceptorInv
<1>3. AcceptorInv'
  BY DEF AcceptorInv, TagInv, Expected, WorkerInv, TypeOK, Ops, Events, Op, Event, Free, ArmedOps, FailedArm, ShutdownInv
<1>4. CallInv'
  BY DEF CallInv, TagInv, Expected, TypeOK, Ops, Events, Op, Event, Free, ArmedOps, FailedArm
<1>5. WorkerInv'
  BY DEF WorkerInv, TypeOK, TagInv, ShutdownInv, CallInv
<1>6. ShutdownInv'
  BY DEF ShutdownInv, WorkerInv, TypeOK, CallInv
<1>7. TakenInv'
  BY DEF TakenInv, Unhandled
<1>8. RepliesInv'
  BY DEF RepliesInv, RepliesBounded, TypeOK, Free
<1> QED
  BY <1>1, <1>2, <1>3, <1>4, <1>5, <1>6, <1>7, <1>8

\* The first handler, or the abort when the queue is already shut down.
LEMMA FirstSpawnStep ==
    ASSUME IInv, FirstSpawn
    PROVE  IInv'
<1> USE DEF IInv, FirstSpawn, netVars, stopVars
<1>1. TypeOK'
  <2>1. CASE cqShut
    BY <2>1 DEF TypeOK
  <2>2. CASE ~cqShut
    <3>1. PICK s \in Free :
            /\ state' = [state EXCEPT ![s] = "Create"]
            /\ replies' = [replies EXCEPT ![s] = 0]
            /\ ops' = ops \cup ArmedOps(s)
            /\ cq' = cq \cup FailedArm(s)
      BY <2>2
    <3>2. ArmedOps(s) \subseteq Ops /\ FailedArm(s) \subseteq Events
      BY OpRecord, EventRecord DEF ArmedOps, FailedArm, Free, Kinds, OkValues
    <3> QED
      BY <2>2, <3>1, <3>2 DEF TypeOK, States, Free
  <2> QED
    BY <2>1, <2>2
<1>2. TagInv'
  <2>1. ops = {} /\ cq = {} /\ \A s \in Streams : state[s] = "free"
    BY OpIs, EventIs DEF TagInv, WorkerInv, TypeOK
  <2>2. CASE cqShut
    BY <2>1, <2>2 DEF TagInv
  <2>3. CASE ~cqShut
    <3>1. PICK s \in Free :
            /\ state' = [state EXCEPT ![s] = "Create"]
            /\ ops' = ops \cup ArmedOps(s)
            /\ cq' = cq \cup FailedArm(s)
      BY <2>3
    <3>2. s \in Streams /\ state'[s] = "Create"
      BY <3>1 DEF Free, TypeOK
    <3>3. CASE server = "up"
      BY <2>1, <3>1, <3>2, <3>3, OpRecord DEF TagInv, Expected, ArmedOps, FailedArm, Kinds, OkValues, TypeOK
    <3>4. CASE server # "up"
      BY <2>1, <3>1, <3>2, <3>4, EventRecord DEF TagInv, Expected, ArmedOps, FailedArm, Kinds, OkValues, TypeOK
    <3> QED
      BY <3>3, <3>4
  <2> QED
    BY <2>2, <2>3
<1>3. AcceptorInv'
  BY DEF AcceptorInv, TagInv, Expected, WorkerInv, TypeOK, Ops, Events, Op, Event, Free, ArmedOps, FailedArm, ShutdownInv
<1>4. CallInv'
  BY DEF CallInv, TagInv, Expected, TypeOK, Ops, Events, Op, Event, Free, ArmedOps, FailedArm
<1>5. WorkerInv'
  BY DEF WorkerInv, TypeOK, TagInv, ShutdownInv, CallInv
<1>6. ShutdownInv'
  BY DEF ShutdownInv, WorkerInv, TypeOK, CallInv
<1>7. TakenInv'
  <2>1. Unhandled' = Unhandled
    BY DEF Unhandled, TagInv, Expected, Events, Op, Event, Free, ArmedOps, FailedArm, TypeOK
  <2> QED
    BY <2>1 DEF TakenInv
<1>8. RepliesInv'
  BY DEF RepliesInv, RepliesBounded, TypeOK, Free
<1> QED
  BY <1>1, <1>2, <1>3, <1>4, <1>5, <1>6, <1>7, <1>8

\* Leaving the loop, with nothing outstanding.
LEMMA ExitLoopStep ==
    ASSUME IInv, ExitLoop
    PROVE  IInv'
<1> USE DEF IInv, ExitLoop, fsmVars, netVars, stopVars
<1>1. TypeOK'
  BY DEF TypeOK, States, Ops, Events, Kinds, OkValues, Op, Event, Free, ArmedOps, FailedArm
<1>2. TagInv'
  BY DEF TagInv, Expected, TypeOK, Ops, Events, Op, Event, Free, ArmedOps, FailedArm, WorkerInv, AcceptorInv
<1>3. AcceptorInv'
  BY DEF AcceptorInv, TagInv, Expected, WorkerInv, TypeOK, Ops, Events, Op, Event, Free, ArmedOps, FailedArm, ShutdownInv
<1>4. CallInv'
  BY DEF CallInv, TagInv, Expected, TypeOK, Ops, Events, Op, Event, Free, ArmedOps, FailedArm
<1>5. WorkerInv'
  BY DEF WorkerInv, TypeOK, TagInv, ShutdownInv, CallInv
<1>6. ShutdownInv'
  BY DEF ShutdownInv, WorkerInv, TypeOK, CallInv
<1>7. TakenInv'
  BY DEF TakenInv, Unhandled
<1>8. RepliesInv'
  BY DEF RepliesInv, RepliesBounded, TypeOK, Free
<1> QED
  BY <1>1, <1>2, <1>3, <1>4, <1>5, <1>6, <1>7, <1>8

\* unregister_server().
LEMMA UnregisterStep ==
    ASSUME IInv, Unregister
    PROVE  IInv'
<1> USE DEF IInv, Unregister, fsmVars, netVars, stopVars
<1>1. TypeOK'
  BY DEF TypeOK, States, Ops, Events, Kinds, OkValues, Op, Event, Free, ArmedOps, FailedArm
<1>2. TagInv'
  BY DEF TagInv, Expected, TypeOK, Ops, Events, Op, Event, Free, ArmedOps, FailedArm, WorkerInv, AcceptorInv
<1>3. AcceptorInv'
  BY DEF AcceptorInv, TagInv, Expected, WorkerInv, TypeOK, Ops, Events, Op, Event, Free, ArmedOps, FailedArm, ShutdownInv
<1>4. CallInv'
  BY DEF CallInv, TagInv, Expected, TypeOK, Ops, Events, Op, Event, Free, ArmedOps, FailedArm
<1>5. WorkerInv'
  BY DEF WorkerInv, TypeOK, TagInv, ShutdownInv, CallInv
<1>6. ShutdownInv'
  BY DEF ShutdownInv, WorkerInv, TypeOK, CallInv
<1>7. TakenInv'
  BY DEF TakenInv, Unhandled
<1>8. RepliesInv'
  BY DEF RepliesInv, RepliesBounded, TypeOK, Free
<1> QED
  BY <1>1, <1>2, <1>3, <1>4, <1>5, <1>6, <1>7, <1>8

\* ~Srv().
LEMMA DestroyStep ==
    ASSUME IInv, Destroy
    PROVE  IInv'
<1> USE DEF IInv, Destroy, fsmVars, netVars, stopVars
<1>1. TypeOK'
  BY DEF TypeOK, States, Ops, Events, Kinds, OkValues, Op, Event, Free, ArmedOps, FailedArm
<1>2. TagInv'
  BY DEF TagInv, Expected, TypeOK, Ops, Events, Op, Event, Free, ArmedOps, FailedArm, WorkerInv, AcceptorInv
<1>3. AcceptorInv'
  BY DEF AcceptorInv, TagInv, Expected, WorkerInv, TypeOK, Ops, Events, Op, Event, Free, ArmedOps, FailedArm, ShutdownInv
<1>4. CallInv'
  BY DEF CallInv, TagInv, Expected, TypeOK, Ops, Events, Op, Event, Free, ArmedOps, FailedArm
<1>5. WorkerInv'
  BY DEF WorkerInv, TypeOK, TagInv, ShutdownInv, CallInv
<1>6. ShutdownInv'
  BY DEF ShutdownInv, WorkerInv, TypeOK, CallInv
<1>7. TakenInv'
  BY DEF TakenInv, Unhandled
<1>8. RepliesInv'
  BY DEF RepliesInv, RepliesBounded, TypeOK, Free
<1> QED
  BY <1>1, <1>2, <1>3, <1>4, <1>5, <1>6, <1>7, <1>8

\* The drain deadline.
LEMMA DeadlineStep ==
    ASSUME IInv, Deadline
    PROVE  IInv'
<1> USE DEF IInv, Deadline, fsmVars, stopVars
<1>1. TypeOK'
  BY DEF TypeOK, States, Ops, Events, Kinds, OkValues, Op, Event, Free, ArmedOps, FailedArm
<1>2. TagInv'
  BY DEF TagInv, Expected, TypeOK, Ops, Events, Op, Event, Free, ArmedOps, FailedArm, WorkerInv, AcceptorInv
<1>3. AcceptorInv'
  BY DEF AcceptorInv, TagInv, Expected, WorkerInv, TypeOK, Ops, Events, Op, Event, Free, ArmedOps, FailedArm, ShutdownInv
<1>4. CallInv'
  BY DEF CallInv, TagInv, Expected, TypeOK, Ops, Events, Op, Event, Free, ArmedOps, FailedArm
<1>5. WorkerInv'
  BY DEF WorkerInv, TypeOK, TagInv, ShutdownInv, CallInv
<1>6. ShutdownInv'
  BY DEF ShutdownInv, WorkerInv, TypeOK, CallInv
<1>7. TakenInv'
  BY DEF TakenInv, Unhandled
<1>8. RepliesInv'
  BY DEF RepliesInv, RepliesBounded, TypeOK, Free
<1> QED
  BY <1>1, <1>2, <1>3, <1>4, <1>5, <1>6, <1>7, <1>8

\* A thread enters Shutdown(): the armed handler fails.
LEMMA EnterShutdownStep ==
    ASSUME IInv, NEW c \in Callers, EnterShutdown(c)
    PROVE  IInv'
<1> USE DEF IInv, EnterShutdown
<1>1. TypeOK'
  <2>1. \A o \in ops : Event(o.tag, "Request", "false") \in Events
    BY OpIs, EventRecord DEF TypeOK, Kinds, OkValues
  <2>2. ops' \subseteq Ops /\ cq' \subseteq Events
    BY <2>1 DEF TypeOK
  <2> QED
    BY <2>2 DEF TypeOK
<1>2. TagInv'
  <2>1. CASE shutdown_done
    BY <2>1 DEF TagInv, Expected
  <2>2. CASE ~shutdown_done
    <3>1. \A o \in ops : /\ o.tag \in Streams
                         /\ Event(o.tag, "Request", "false").tag = o.tag
                         /\ Event(o.tag, "Request", "false").kind = "Request"
      BY OpIs, EventRecord DEF TypeOK, Kinds, OkValues
    <3>2. ops' \subseteq ops /\ state' = state
      BY <2>2
    <3>3. \A e \in cq' : \/ e \in cq
                         \/ \E o \in ops : /\ o.kind = "Request" /\ o \notin ops'
                                           /\ e = Event(o.tag, "Request", "false")
      BY <2>2
    <3>4. cq \subseteq cq'
      BY <2>2
    <3>5. \A o \in ops : o \in ops' \/ Event(o.tag, "Request", "false") \in cq'
      BY <2>2
    <3>6. \A o, p \in ops : o.tag = p.tag => o = p
      BY OpIs DEF TagInv, TypeOK
    <3>7. \A o \in ops' : state'[o.tag] # "free" /\ o.kind = Expected(o.tag)'
      BY <3>2 DEF TagInv, Expected
    <3>8. \A e \in cq' : state'[e.tag] # "free" /\ e.kind = Expected(e.tag)'
      BY <3>1, <3>2, <3>3 DEF TagInv, Expected
    <3>9. \A e, f \in cq' : e.tag = f.tag => e = f
      BY <3>1, <3>3 DEF TagInv
    <3>10. \A o \in ops', e \in cq' : o.tag # e.tag
      BY <3>1, <3>2, <3>3, <3>6 DEF TagInv
    <3>11. \A s \in Streams :
             state'[s] # "free" => (\E o \in ops' : o.tag = s) \/ (\E e \in cq' : e.tag = s)
      BY <3>1, <3>2, <3>4, <3>5 DEF TagInv
    <3> QED
      BY <3>7, <3>8, <3>9, <3>10, <3>11 DEF TagInv
  <2> QED
    BY <2>1, <2>2
<1>3. AcceptorInv'
  BY DEF AcceptorInv, TagInv, Expected, WorkerInv, TypeOK, Ops, Events, Op, Event, Free, ArmedOps, FailedArm, ShutdownInv
<1>4. CallInv'
  BY DEF CallInv, TagInv, Expected, TypeOK, Ops, Events, Op, Event, Free, ArmedOps, FailedArm
<1>5. WorkerInv'
  BY DEF WorkerInv, TypeOK, TagInv, ShutdownInv, CallInv
<1>6. ShutdownInv'
  BY DEF ShutdownInv, WorkerInv, TypeOK, CallInv
<1>7. TakenInv'
  <2>1. \A o \in ops : Event(o.tag, "Request", "false").kind = "Request"
    BY OpIs, EventRecord DEF TypeOK, Kinds, OkValues
  <2>2. Unhandled' = Unhandled
    BY <2>1 DEF Unhandled
  <2> QED
    BY <2>2 DEF TakenInv
<1>8. RepliesInv'
  BY DEF RepliesInv, RepliesBounded, TypeOK, Free
<1> QED
  BY <1>1, <1>2, <1>3, <1>4, <1>5, <1>6, <1>7, <1>8

\* Server::Shutdown() returns.
LEMMA ServerDrainedStep ==
    ASSUME IInv, NEW c \in Callers, ServerDrained(c)
    PROVE  IInv'
<1> USE DEF IInv, ServerDrained, fsmVars
<1>1. TypeOK'
  BY DEF TypeOK, States, Ops, Events, Kinds, OkValues, Op, Event, Free, ArmedOps, FailedArm
<1>2. TagInv'
  BY DEF TagInv, Expected, TypeOK, Ops, Events, Op, Event, Free, ArmedOps, FailedArm, WorkerInv, AcceptorInv
<1>3. AcceptorInv'
  BY DEF AcceptorInv, TagInv, Expected, WorkerInv, TypeOK, Ops, Events, Op, Event, Free, ArmedOps, FailedArm, ShutdownInv
<1>4. CallInv'
  BY DEF CallInv, TagInv, Expected, TypeOK, Ops, Events, Op, Event, Free, ArmedOps, FailedArm
<1>5. WorkerInv'
  BY DEF WorkerInv, TypeOK, TagInv, ShutdownInv, CallInv
<1>6. ShutdownInv'
  BY DEF ShutdownInv, WorkerInv, TypeOK, CallInv
<1>7. TakenInv'
  BY DEF TakenInv, Unhandled
<1>8. RepliesInv'
  BY DEF RepliesInv, RepliesBounded, TypeOK, Free
<1> QED
  BY <1>1, <1>2, <1>3, <1>4, <1>5, <1>6, <1>7, <1>8

\* cq_->Shutdown().
LEMMA ShutdownCqStep ==
    ASSUME IInv, NEW c \in Callers, ShutdownCq(c)
    PROVE  IInv'
<1> USE DEF IInv, ShutdownCq, fsmVars, netVars
<1>1. TypeOK'
  BY DEF TypeOK, States, Ops, Events, Kinds, OkValues, Op, Event, Free, ArmedOps, FailedArm
<1>2. TagInv'
  BY DEF TagInv, Expected, TypeOK, Ops, Events, Op, Event, Free, ArmedOps, FailedArm, WorkerInv, AcceptorInv
<1>3. AcceptorInv'
  BY DEF AcceptorInv, TagInv, Expected, WorkerInv, TypeOK, Ops, Events, Op, Event, Free, ArmedOps, FailedArm, ShutdownInv
<1>4. CallInv'
  BY DEF CallInv, TagInv, Expected, TypeOK, Ops, Events, Op, Event, Free, ArmedOps, FailedArm
<1>5. WorkerInv'
  BY DEF WorkerInv, TypeOK, TagInv, ShutdownInv, CallInv
<1>6. ShutdownInv'
  BY DEF ShutdownInv, WorkerInv, TypeOK, CallInv
<1>7. TakenInv'
  BY DEF TakenInv, Unhandled
<1>8. RepliesInv'
  BY DEF RepliesInv, RepliesBounded, TypeOK, Free
<1> QED
  BY <1>1, <1>2, <1>3, <1>4, <1>5, <1>6, <1>7, <1>8

\* A completion moves a stream's one tag from ops to cq.
LEMMA Completion ==
    ASSUME TypeOK, TagInv, NEW s \in Streams, NEW k \in Kinds, NEW ok \in OkValues,
           Op(s, k) \in ops,
           ops' = ops \ {Op(s, k)},
           cq' = cq \cup {Event(s, k, ok)},
           state' = state
    PROVE  TagInv'
<1>1. /\ Op(s, k).tag = s /\ Op(s, k).kind = k
      /\ Event(s, k, ok).tag = s /\ Event(s, k, ok).kind = k
  BY OpRecord, EventRecord
<1>2. state[s] # "free" /\ k = Expected(s)
  BY <1>1 DEF TagInv
<1>3. \A o \in ops : o.tag = s => o = Op(s, k)
  BY <1>2, OpIs DEF TagInv, TypeOK
<1>4. \A e \in cq : e.tag # s
  BY <1>1 DEF TagInv
<1>5. \A o \in ops' : state'[o.tag] # "free" /\ o.kind = Expected(o.tag)'
  BY DEF TagInv, Expected
<1>6. \A e \in cq' : state'[e.tag] # "free" /\ e.kind = Expected(e.tag)'
  BY <1>1, <1>2 DEF TagInv, Expected
<1>7. \A e, f \in cq' : e.tag = f.tag => e = f
  BY <1>1, <1>4 DEF TagInv
<1>8. \A o \in ops', e \in cq' : o.tag # e.tag
  BY <1>1, <1>3 DEF TagInv
<1>9. \A r \in Streams :
        state'[r] # "free" => (\E o \in ops' : o.tag = r) \/ (\E e \in cq' : e.tag = r)
  <2> SUFFICES ASSUME NEW r \in Streams, state'[r] # "free"
               PROVE  (\E o \in ops' : o.tag = r) \/ (\E e \in cq' : e.tag = r)
    OBVIOUS
  <2>1. CASE r = s
    BY <2>1, <1>1
  <2>2. CASE r # s
    BY <2>2, <1>1 DEF TagInv
  <2> QED
    BY <2>1, <2>2
<1> QED
  BY <1>5, <1>6, <1>7, <1>8, <1>9 DEF TagInv

\* A call meets the armed handler.
LEMMA ConnectStep ==
    ASSUME IInv, NEW s \in Streams, Connect(s)
    PROVE  IInv'
<1> USE DEF IInv, Connect, stopVars
<1>1. TypeOK'
  <2>1. Op(s, "Request") \in Ops /\ Event(s, "Request", "true") \in Events
    BY OpRecord, EventRecord DEF Kinds, OkValues
  <2> QED
    BY <2>1 DEF TypeOK
<1>2. TagInv'
  BY Completion DEF Kinds, OkValues
<1>3. AcceptorInv'
  BY DEF AcceptorInv, TagInv, Expected, WorkerInv, TypeOK, Ops, Events, Op, Event, Free, ArmedOps, FailedArm, ShutdownInv
<1>4. CallInv'
  <2>1. LET e == Event(s, "Request", "true")
        IN  e.tag = s /\ e.kind = "Request" /\ e.ok = "true"
    BY EventRecord DEF Kinds, OkValues
  <2>2. call'[s] # "none" /\ \A r \in Streams : r # s => call'[r] = call[r]
    BY DEF TypeOK
  <2> QED
    BY <2>1, <2>2 DEF CallInv
<1>5. WorkerInv'
  BY DEF WorkerInv, TypeOK, TagInv, ShutdownInv, CallInv
<1>6. ShutdownInv'
  BY DEF ShutdownInv, WorkerInv, TypeOK, CallInv
<1>7. TakenInv'
  <2>1. Unhandled' = Unhandled
    BY DEF Unhandled, TagInv, Expected, Events, Op, Event, Free, ArmedOps, FailedArm, TypeOK
  <2> QED
    BY <2>1 DEF TakenInv
<1>8. RepliesInv'
  BY DEF RepliesInv, RepliesBounded, TypeOK, Free
<1> QED
  BY <1>1, <1>2, <1>3, <1>4, <1>5, <1>6, <1>7, <1>8

\* A client sends.
LEMMA SendStep ==
    ASSUME IInv, NEW s \in Streams, Send(s)
    PROVE  IInv'
<1> USE DEF IInv, Send, fsmVars, stopVars
<1>1. TypeOK'
  BY DEF TypeOK, States, Ops, Events, Kinds, OkValues, Op, Event, Free, ArmedOps, FailedArm
<1>2. TagInv'
  BY DEF TagInv, Expected, TypeOK, Ops, Events, Op, Event, Free, ArmedOps, FailedArm, WorkerInv, AcceptorInv
<1>3. AcceptorInv'
  BY DEF AcceptorInv, TagInv, Expected, WorkerInv, TypeOK, Ops, Events, Op, Event, Free, ArmedOps, FailedArm, ShutdownInv
<1>4. CallInv'
  BY DEF CallInv, TagInv, Expected, TypeOK, Ops, Events, Op, Event, Free, ArmedOps, FailedArm
<1>5. WorkerInv'
  BY DEF WorkerInv, TypeOK, TagInv, ShutdownInv, CallInv
<1>6. ShutdownInv'
  BY DEF ShutdownInv, WorkerInv, TypeOK, CallInv
<1>7. TakenInv'
  BY DEF TakenInv, Unhandled
<1>8. RepliesInv'
  BY DEF RepliesInv, RepliesBounded, TypeOK, Free
<1> QED
  BY <1>1, <1>2, <1>3, <1>4, <1>5, <1>6, <1>7, <1>8

\* A client hangs up.
LEMMA HangupStep ==
    ASSUME IInv, NEW s \in Streams, Hangup(s)
    PROVE  IInv'
<1> USE DEF IInv, Hangup, fsmVars, stopVars
<1>1. TypeOK'
  BY DEF TypeOK, States, Ops, Events, Kinds, OkValues, Op, Event, Free, ArmedOps, FailedArm
<1>2. TagInv'
  BY DEF TagInv, Expected, TypeOK, Ops, Events, Op, Event, Free, ArmedOps, FailedArm, WorkerInv, AcceptorInv
<1>3. AcceptorInv'
  BY DEF AcceptorInv, TagInv, Expected, WorkerInv, TypeOK, Ops, Events, Op, Event, Free, ArmedOps, FailedArm, ShutdownInv
<1>4. CallInv'
  BY DEF CallInv, TagInv, Expected, TypeOK, Ops, Events, Op, Event, Free, ArmedOps, FailedArm
<1>5. WorkerInv'
  BY DEF WorkerInv, TypeOK, TagInv, ShutdownInv, CallInv
<1>6. ShutdownInv'
  BY DEF ShutdownInv, WorkerInv, TypeOK, CallInv
<1>7. TakenInv'
  BY DEF TakenInv, Unhandled
<1>8. RepliesInv'
  BY DEF RepliesInv, RepliesBounded, TypeOK, Free
<1> QED
  BY <1>1, <1>2, <1>3, <1>4, <1>5, <1>6, <1>7, <1>8

\* A Read completes.
LEMMA ReadDoneStep ==
    ASSUME IInv, NEW s \in Streams, ReadDone(s)
    PROVE  IInv'
<1> USE DEF IInv, ReadDone, stopVars
<1>1. TypeOK'
  <2>1. /\ Op(s, "Read") \in Ops
        /\ Event(s, "Read", "true") \in Events /\ Event(s, "Read", "false") \in Events
    BY OpRecord, EventRecord DEF Kinds, OkValues
  <2>2. ops' \subseteq Ops /\ cq' \subseteq Events
    BY <2>1 DEF TypeOK
  <2>3. inbox' \in [Streams -> Nat] /\ taken' \in Nat
    BY DEF TypeOK
  <2> QED
    BY <2>2, <2>3 DEF TypeOK
<1>2. TagInv'
  BY Completion DEF Kinds, OkValues
<1>3. AcceptorInv'
  BY DEF AcceptorInv, TagInv, Expected, WorkerInv, TypeOK, Ops, Events, Op, Event, Free, ArmedOps, FailedArm, ShutdownInv
<1>4. CallInv'
  <2>1. Event(s, "Read", "true").kind = "Read" /\ Event(s, "Read", "false").kind = "Read"
    BY EventRecord DEF Kinds, OkValues
  <2>2. \A e : e.kind = "Request" => (e \in cq' <=> e \in cq)
    BY <2>1
  <2> QED
    BY <2>2 DEF CallInv
<1>5. WorkerInv'
  <2>1. worker = "loop"
    BY OpRecord DEF TagInv, WorkerInv, TypeOK, Kinds
  <2> QED
    BY <2>1 DEF WorkerInv
<1>6. ShutdownInv'
  BY DEF ShutdownInv, WorkerInv, TypeOK, CallInv
<1>7. TakenInv'
  <2>1. /\ Event(s, "Read", "true").tag = s /\ Event(s, "Read", "true").kind = "Read"
        /\ Event(s, "Read", "true").ok = "true" /\ Event(s, "Read", "false").ok = "false"
    BY EventRecord DEF Kinds, OkValues
  <2>2. CASE taken' = taken + 1 /\ cq' = cq \cup {Event(s, "Read", "true")}
    <3>1. Event(s, "Read", "true") \notin cq
      BY <2>1, OpRecord DEF TagInv, Kinds, OkValues
    <3>2. Unhandled' = Unhandled \cup {Event(s, "Read", "true")}
      BY <2>1, <2>2 DEF Unhandled
    <3>3. Event(s, "Read", "true") \notin Unhandled
      BY <3>1 DEF Unhandled
    <3>4. /\ IsFiniteSet(Unhandled')
          /\ Cardinality(Unhandled') = Cardinality(Unhandled) + 1
      BY <3>2, <3>3, FS_AddElement DEF TakenInv
    <3>5. Cardinality(Unhandled) \in Nat
      BY FS_CardinalityType DEF TakenInv
    <3> QED
      BY <2>2, <3>4, <3>5 DEF TakenInv, TypeOK
  <2>3. CASE taken' = taken /\ cq' = cq \cup {Event(s, "Read", "false")}
    <3>1. Unhandled' = Unhandled
      BY <2>1, <2>3 DEF Unhandled
    <3> QED
      BY <2>3, <3>1 DEF TakenInv
  <2> QED
    BY <2>2, <2>3
<1>8. RepliesInv'
  BY DEF RepliesInv, RepliesBounded, TypeOK, Free
<1> QED
  BY <1>1, <1>2, <1>3, <1>4, <1>5, <1>6, <1>7, <1>8

\* A Finish completes.
LEMMA FinishDoneStep ==
    ASSUME IInv, NEW s \in Streams, FinishDone(s)
    PROVE  IInv'
<1> USE DEF IInv, FinishDone, netVars, stopVars
<1>1. TypeOK'
  <2>1. Op(s, "Finish") \in Ops /\ Event(s, "Finish", IF call[s] = "cancelled" THEN "false" ELSE "true") \in Events
    BY OpRecord, EventRecord DEF Kinds, OkValues
  <2> QED
    BY <2>1 DEF TypeOK
<1>2. TagInv'
  BY Completion DEF Kinds, OkValues
<1>3. AcceptorInv'
  BY DEF AcceptorInv, TagInv, Expected, WorkerInv, TypeOK, Ops, Events, Op, Event, Free, ArmedOps, FailedArm, ShutdownInv
<1>4. CallInv'
  BY DEF CallInv, TagInv, Expected, TypeOK, Ops, Events, Op, Event, Free, ArmedOps, FailedArm
<1>5. WorkerInv'
  BY DEF WorkerInv, TypeOK, TagInv, ShutdownInv, CallInv
<1>6. ShutdownInv'
  BY DEF ShutdownInv, WorkerInv, TypeOK, CallInv
<1>7. TakenInv'
  <2>1. Unhandled' = Unhandled
    BY DEF Unhandled, TagInv, Expected, Events, Op, Event, Free, ArmedOps, FailedArm, TypeOK
  <2> QED
    BY <2>1 DEF TakenInv
<1>8. RepliesInv'
  BY DEF RepliesInv, RepliesBounded, TypeOK, Free
<1> QED
  BY <1>1, <1>2, <1>3, <1>4, <1>5, <1>6, <1>7, <1>8

\* An event for a stream says which state it is in and that nothing else is
\* under way for it.
LEMMA EventOfStream ==
    ASSUME IInv, NEW e \in cq
    PROVE  /\ e \in Events /\ e.tag \in Streams
           /\ state[e.tag] # "free" /\ e.kind = Expected(e.tag)
           /\ \A o \in ops : o.tag # e.tag
           /\ \A f \in cq \ {e} : f.tag # e.tag
           /\ worker = "loop"
<1>1. e \in Events /\ e.tag \in Streams
  BY EventIs DEF IInv, TypeOK
<1> QED
  BY <1>1 DEF IInv, TagInv, WorkerInv

\* delete this: the stream's event was its only tag.
LEMMA Deletion ==
    ASSUME IInv, NEW e \in cq, Delete(e.tag), cq' = cq \ {e},
           UNCHANGED <<worker, replies, ops, handled, server, sent, taken, cqShut,
                       shutdown_done, pc>>,
           e.kind # "Read" \/ e.ok # "true",
           e.kind = "Request" => e.ok = "false"
    PROVE  IInv'
<1>1. /\ e \in Events /\ e.tag \in Streams
      /\ state[e.tag] # "free" /\ e.kind = Expected(e.tag)
      /\ \A o \in ops : o.tag # e.tag
      /\ \A f \in cq \ {e} : f.tag # e.tag
      /\ worker = "loop"
  BY EventOfStream
<1>2. /\ state' = [state EXCEPT ![e.tag] = "free"]
      /\ call' = [call EXCEPT ![e.tag] = "none"]
      /\ inbox' = [inbox EXCEPT ![e.tag] = 0]
  BY DEF Delete
<1>3. /\ state'[e.tag] = "free" /\ call'[e.tag] = "none"
      /\ \A s \in Streams : s # e.tag => state'[s] = state[s] /\ call'[s] = call[s]
  BY <1>1, <1>2 DEF IInv, TypeOK
<1>4. TypeOK'
  BY <1>1, <1>2 DEF IInv, TypeOK, States
<1>5. TagInv'
  <2>1. \A o \in ops : o.tag \in Streams
    BY OpIs DEF IInv, TypeOK
  <2>2. \A f \in cq : f.tag \in Streams
    BY EventIs DEF IInv, TypeOK
  <2> QED
    BY <1>1, <1>3, <2>1, <2>2 DEF IInv, TagInv, Expected
<1>6. AcceptorInv'
  <2>1. server = "up" => e.kind # "Request"
    BY DEF IInv, AcceptorInv
  <2>2. server = "up" => state[e.tag] # "Create"
    BY <1>1, <2>1 DEF Expected
  <2> QED
    BY <1>1, <1>3, <2>2 DEF IInv, AcceptorInv
<1>7. CallInv'
  BY <1>1, <1>3 DEF IInv, CallInv
<1>8. WorkerInv'
  BY <1>1 DEF IInv, WorkerInv
<1>9. ShutdownInv'
  BY <1>3 DEF IInv, ShutdownInv
<1>10. TakenInv'
  <2>1. Unhandled' = Unhandled
    BY DEF Unhandled
  <2> QED
    BY <2>1 DEF IInv, TakenInv
<1>11. RepliesInv'
  BY <1>3 DEF IInv, RepliesInv, RepliesBounded
<1> QED
  BY <1>4, <1>5, <1>6, <1>7, <1>8, <1>9, <1>10, <1>11 DEF IInv

\* Proceed() in state Create: the stream is deleted, or it becomes a reader
\* and another takes its place.
LEMMA ProceedCreateStep ==
    ASSUME IInv, NEW e \in cq, ProceedCreate(e), UNCHANGED <<server, sent, taken, stopVars>>
    PROVE  IInv'
<1>1. /\ e \in Events /\ e.tag \in Streams
      /\ state[e.tag] = "Create" /\ e.kind = "Request"
      /\ \A o \in ops : o.tag # e.tag
      /\ \A f \in cq \ {e} : f.tag # e.tag
      /\ worker = "loop"
  BY EventOfStream DEF ProceedCreate, Expected
<1>2. CASE e.ok = "false"
  BY <1>1, <1>2, Deletion DEF ProceedCreate, stopVars
<1>3. CASE e.ok = "true"
  <2>1. PICK s \in Free :
          /\ state' = [state EXCEPT ![s] = "Create", ![e.tag] = "Read"]
          /\ replies' = [replies EXCEPT ![s] = 0]
          /\ ops' = ops \cup ArmedOps(s) \cup {Op(e.tag, "Read")}
          /\ cq' = (cq \ {e}) \cup FailedArm(s)
    BY <1>3 DEF ProceedCreate
  <2>2. s \in Streams /\ state[s] = "free" /\ s # e.tag
    BY <1>1 DEF Free
  <2>3. call[e.tag] # "none" /\ server # "down" /\ ~cqShut
    BY <1>1, <1>3 DEF IInv, CallInv, ShutdownInv
  <2>4. UNCHANGED <<worker, call, inbox, handled, server, sent, taken, cqShut,
                    shutdown_done, pc>>
    BY <1>3, <2>3 DEF ProceedCreate, stopVars
  <2>5. /\ state'[s] = "Create" /\ state'[e.tag] = "Read"
        /\ \A r \in Streams : r # s /\ r # e.tag => state'[r] = state[r]
    BY <1>1, <2>1, <2>2 DEF IInv, TypeOK
  <2>6. /\ Op(s, "Request") \in Ops /\ Op(s, "Request").tag = s
        /\ Op(s, "Request").kind = "Request"
        /\ Op(e.tag, "Read") \in Ops /\ Op(e.tag, "Read").tag = e.tag
        /\ Op(e.tag, "Read").kind = "Read"
        /\ Event(s, "Request", "false") \in Events
        /\ Event(s, "Request", "false").tag = s
        /\ Event(s, "Request", "false").kind = "Request"
        /\ Event(s, "Request", "false").ok = "false"
    BY <1>1, <2>2, OpRecord, EventRecord DEF Kinds, OkValues
  <2>7. /\ \A o \in ops : o.tag \in Streams /\ o.tag # s /\ o.tag # e.tag
        /\ \A f \in cq \ {e} : f.tag \in Streams /\ f.tag # s /\ f.tag # e.tag
    BY <1>1, <2>2, OpIs, EventIs DEF IInv, TypeOK, TagInv
  <2>8. TypeOK'
    BY <1>1, <2>1, <2>2, <2>4, <2>6 DEF IInv, TypeOK, States, ArmedOps, FailedArm
  <2>9. TagInv'
    <3>1. \A o \in ops : state'[o.tag] = state[o.tag]
      BY <2>5, <2>7
    <3>2. \A f \in cq \ {e} : state'[f.tag] = state[f.tag]
      BY <2>5, <2>7
    <3>3. CASE server = "up"
      <4>1. ops' = ops \cup {Op(s, "Request"), Op(e.tag, "Read")} /\ cq' = cq \ {e}
        BY <2>1, <3>3 DEF ArmedOps, FailedArm
      <4> QED
        BY <1>1, <2>2, <2>5, <2>6, <2>7, <3>1, <3>2, <4>1 DEF IInv, TagInv, Expected
    <3>4. CASE server # "up"
      <4>1. /\ ops' = ops \cup {Op(e.tag, "Read")}
            /\ cq' = (cq \ {e}) \cup {Event(s, "Request", "false")}
        BY <2>1, <3>4 DEF ArmedOps, FailedArm
      <4> QED
        BY <1>1, <2>2, <2>5, <2>6, <2>7, <3>1, <3>2, <4>1 DEF IInv, TagInv, Expected
    <3> QED
      BY <3>3, <3>4
  <2>10. AcceptorInv'
    BY <1>1, <2>1, <2>2, <2>4, <2>5, <2>6 DEF IInv, AcceptorInv, ArmedOps, FailedArm
  <2>11. CallInv'
    <3>1. \A r \in Streams : (\E f \in cq' : f.tag = r /\ f.kind = "Request" /\ f.ok = "true")
                <=> (r # e.tag /\ \E f \in cq : f.tag = r /\ f.kind = "Request" /\ f.ok = "true")
      BY <1>1, <2>1, <2>6 DEF FailedArm
    <3> QED
      BY <1>1, <1>3, <2>2, <2>3, <2>4, <2>5, <2>7, <3>1 DEF IInv, CallInv
  <2>12. WorkerInv'
    BY <1>1, <2>4 DEF IInv, WorkerInv
  <2>13. ShutdownInv'
    BY <2>4 DEF IInv, ShutdownInv
  <2>14. TakenInv'
    <3>1. Unhandled' = Unhandled
      BY <1>1, <2>1, <2>6 DEF Unhandled, FailedArm
    <3> QED
      BY <2>4, <3>1 DEF IInv, TakenInv
  <2>15. RepliesInv'
    <3>1. /\ replies'[s] = 0
          /\ \A r \in Streams : r # s => replies'[r] = replies[r]
      BY <2>1, <2>2 DEF IInv, TypeOK
    <3> QED
      BY <1>1, <2>2, <2>5, <3>1 DEF IInv, RepliesInv, RepliesBounded
  <2> QED
    BY <2>8, <2>9, <2>10, <2>11, <2>12, <2>13, <2>14, <2>15 DEF IInv
<1> QED
  BY <1>2, <1>3 DEF ProceedCreate

\* Proceed() in state Read: the message is handled, and another operation of
\* the same stream is started; its RPC is alive, so the queue is not shut down.
LEMMA ProceedReadStep ==
    ASSUME IInv, NEW e \in cq, ProceedRead(e), UNCHANGED <<server, sent, taken, stopVars>>
    PROVE  IInv'
<1> DEFINE s == e.tag
           last == e.ok = "false" \/ LastReply(s)
           st == IF last THEN "Finishing" ELSE "Read"
           k == IF last THEN "Finish" ELSE "Read"
<1>1. /\ e \in Events /\ s \in Streams /\ e.ok \in OkValues
      /\ state[s] = "Read" /\ e.kind = "Read"
      /\ \A o \in ops : o.tag # s
      /\ \A f \in cq \ {e} : f.tag # s
      /\ worker = "loop"
  BY EventOfStream, EventIs DEF ProceedRead, Expected
<1>2. call[s] # "none" /\ ~cqShut
  BY <1>1 DEF IInv, CallInv, ShutdownInv
<1>3. /\ cq' = cq \ {e}
      /\ ops' = ops \cup {Op(s, k)}
      /\ state' = [state EXCEPT ![s] = st]
      /\ replies' = [replies EXCEPT ![s] = IF e.ok = "true" THEN @ + 1 ELSE @]
      /\ handled' = IF e.ok = "true" THEN handled + 1 ELSE handled
      /\ UNCHANGED <<worker, call, inbox, server, sent, taken, cqShut, shutdown_done, pc>>
  BY <1>2 DEF ProceedRead, stopVars
<1>4. Op(s, k) \in Ops /\ Op(s, k).tag = s /\ Op(s, k).kind = k
  <2>1. k \in Kinds
    BY DEF Kinds
  <2> QED
    BY <1>1, <2>1, OpRecord
<1>5. /\ state'[s] = st
      /\ \A r \in Streams : r # s => state'[r] = state[r]
  BY <1>1, <1>3 DEF IInv, TypeOK
<1>6. /\ \A o \in ops : o.tag \in Streams
      /\ \A f \in cq : f.tag \in Streams
  BY OpIs, EventIs DEF IInv, TypeOK
<1>7. st \in {"Read", "Finishing"} /\ (st = "Read" <=> k = "Read") /\ (st = "Finishing" <=> k = "Finish")
  OBVIOUS
<1> HIDE DEF k, st
<1>8. TypeOK'
  BY <1>1, <1>3, <1>4, <1>7 DEF IInv, TypeOK, States
<1>9. TagInv'
  BY <1>1, <1>3, <1>4, <1>5, <1>6, <1>7 DEF IInv, TagInv, Expected
<1>10. AcceptorInv'
  BY <1>1, <1>3, <1>4, <1>5, <1>7 DEF IInv, AcceptorInv
<1>11. CallInv'
  BY <1>1, <1>2, <1>3, <1>5, <1>7 DEF IInv, CallInv
<1>12. WorkerInv'
  BY <1>1, <1>3 DEF IInv, WorkerInv
<1>13. ShutdownInv'
  BY <1>3 DEF IInv, ShutdownInv
<1>14. TakenInv'
  <2>1. IsFiniteSet(Unhandled) /\ Cardinality(Unhandled) \in Nat
    BY FS_CardinalityType DEF IInv, TakenInv
  <2>2. CASE e.ok = "true"
    <3>1. e \in Unhandled /\ Unhandled' = Unhandled \ {e}
      BY <1>1, <1>3, <2>2 DEF Unhandled
    <3>2. /\ IsFiniteSet(Unhandled')
          /\ Cardinality(Unhandled') = Cardinality(Unhandled) - 1
      BY <2>1, <3>1, FS_RemoveElement
    <3> QED
      BY <1>3, <2>1, <2>2, <3>2 DEF IInv, TakenInv, TypeOK
  <2>3. CASE e.ok = "false"
    <3>1. Unhandled' = Unhandled
      BY <1>3, <2>3 DEF Unhandled
    <3> QED
      BY <1>3, <2>3, <3>1 DEF IInv, TakenInv
  <2> QED
    BY <1>1, <2>2, <2>3 DEF OkValues
<1>15. RepliesInv'
  <2>1. /\ replies'[s] = IF e.ok = "true" THEN replies[s] + 1 ELSE replies[s]
        /\ \A r \in Streams : r # s => replies'[r] = replies[r]
    BY <1>1, <1>3 DEF IInv, TypeOK
  <2>2. MaxReplies > 0 => replies[s] < MaxReplies /\ replies[s] \in Nat
    BY <1>1 DEF IInv, TypeOK, RepliesInv, RepliesBounded
  <2>3. MaxReplies > 0 => replies'[s] <= MaxReplies
    BY <2>1, <2>2
  <2>4. MaxReplies > 0 /\ st = "Read" => replies'[s] < MaxReplies
    BY <1>1, <2>1, <2>2 DEF st, LastReply, OkValues
  <2> QED
    BY <1>1, <1>5, <1>7, <2>1, <2>3, <2>4 DEF IInv, RepliesInv, RepliesBounded
<1> QED
  BY <1>8, <1>9, <1>10, <1>11, <1>12, <1>13, <1>14, <1>15 DEF IInv

\* Proceed() in state Finishing.
LEMMA ProceedFinishingStep ==
    ASSUME IInv, NEW e \in cq, ProceedFinishing(e), UNCHANGED <<server, sent, taken, stopVars>>
    PROVE  IInv'
<1>1. e.kind = "Finish"
  BY EventOfStream DEF ProceedFinishing, Expected
<1> QED
  BY <1>1, Deletion DEF ProceedFinishing, stopVars

\* Every step preserves the invariant.
LEMMA NextIInv == IInv /\ [Next]_vars => IInv'
<1> SUFFICES ASSUME IInv, [Next]_vars PROVE IInv'
  OBVIOUS
<1>1. CASE ThreadStep
  BY <1>1, BindStep, FirstSpawnStep, ExitLoopStep, UnregisterStep, DestroyStep DEF ThreadStep
<1>2. CASE Deadline
  BY <1>2, DeadlineStep
<1>3. ASSUME NEW c \in Callers, ShutdownStep(c) PROVE IInv'
  BY <1>3, EnterShutdownStep, ServerDrainedStep, ShutdownCqStep DEF ShutdownStep
<1>4. ASSUME NEW s \in Streams, Proceed(s) PROVE IInv'
  <2>1. PICK e \in cq : ProceedCreate(e) \/ ProceedRead(e) \/ ProceedFinishing(e)
    BY <1>4 DEF Proceed
  <2>2. UNCHANGED <<server, sent, taken, stopVars>>
    BY <1>4 DEF Proceed
  <2> QED
    BY <2>1, <2>2, ProceedCreateStep, ProceedReadStep, ProceedFinishingStep
<1>5. ASSUME NEW s \in Streams, GrpcStep(s) \/ ClientStep(s) PROVE IInv'
  BY <1>5, ReadDoneStep, FinishDoneStep, ConnectStep, SendStep, HangupStep
     DEF GrpcStep, ClientStep
<1>6. CASE UNCHANGED vars
  <2> USE <1>6 DEF vars, fsmVars, netVars, stopVars
  <2>1. TypeOK' /\ TagInv' /\ AcceptorInv'
    BY DEF IInv, TypeOK, TagInv, AcceptorInv, Expected
  <2>2. CallInv' /\ WorkerInv' /\ ShutdownInv' /\ RepliesInv'
    BY DEF IInv, CallInv, WorkerInv, ShutdownInv, RepliesInv, RepliesBounded
  <2>3. TakenInv'
    BY DEF IInv, TakenInv, Unhandled
  <2> QED
    BY <2>1, <2>2, <2>3 DEF IInv
<1> QED
  BY <1>1, <1>2, <1>3, <1>4, <1>5, <1>6 DEF Next, Done

\* The invariant holds in every reachable state.
THEOREM Invariance == Spec => []IInv
  BY InitIInv, NextIInv, PTL DEF Spec

\* Type correctness of the state machine.
THEOREM TypeCorrect == Spec => []TypeOK
<1>1. IInv => TypeOK
  BY DEF IInv
<1> QED
  BY Invariance, <1>1, PTL

\* Each stream object is the tag of exactly one operation, of the kind its
\* state expects (XStream::Proceed): no use after delete, no stream leaked.
THEOREM TagSafety == Spec => []OneTagPerStream
<1>1. IInv => OneTagPerStream
  <2> SUFFICES ASSUME IInv, NEW s \in Streams
               PROVE  IF state[s] = "free"
                      THEN Outstanding(s) = {} /\ Completed(s) = {}
                      ELSE \/ /\ Outstanding(s) = {Op(s, Expected(s))}
                              /\ Completed(s) = {}
                           \/ /\ Outstanding(s) = {}
                              /\ \E ok \in OkValues :
                                    Completed(s) = {Event(s, Expected(s), ok)}
    BY DEF OneTagPerStream
  <2>1. CASE state[s] = "free"
    BY <2>1 DEF IInv, TagInv, Outstanding, Completed
  <2>2. CASE state[s] # "free" /\ \E o \in ops : o.tag = s
    <3>1. PICK o \in ops : o.tag = s
      BY <2>2
    <3>2. \A p \in ops : p.tag = s => p = Op(s, Expected(s))
      BY OpIs DEF IInv, TypeOK, TagInv
    <3>3. Outstanding(s) = {Op(s, Expected(s))}
      BY <3>1, <3>2 DEF Outstanding
    <3>4. Completed(s) = {}
      BY <3>1 DEF IInv, TagInv, Completed
    <3> QED
      BY <2>2, <3>3, <3>4
  <2>3. CASE state[s] # "free" /\ \E e \in cq : e.tag = s
    <3>1. PICK e \in cq : e.tag = s
      BY <2>3
    <3>2. Outstanding(s) = {}
      BY <3>1 DEF IInv, TagInv, Outstanding
    <3>3. e.ok \in OkValues /\ e = Event(s, Expected(s), e.ok)
      BY <3>1, EventIs DEF IInv, TypeOK, TagInv
    <3>4. Completed(s) = {e}
      BY <3>1 DEF IInv, TagInv, Completed
    <3> QED
      BY <2>3, <3>2, <3>3, <3>4
  <2> QED
    BY <2>1, <2>2, <2>3 DEF IInv, TagInv
<1> QED
  BY Invariance, <1>1, PTL

\* One armed handler while the server runs, never two (Spawn in Proceed).
THEOREM AcceptorSafety == Spec => []OneAcceptor
<1>1. IInv => OneAcceptor
  BY DEF IInv, AcceptorInv, OneAcceptor
<1> QED
  BY Invariance, <1>1, PTL

\* No Proceed() starts an operation on a queue that is shut down: the first
\* Spawn() of a worker is the only place where Shutdown() can make it abort.
THEOREM AbortSafety == Spec => []AbortOnlyAtFirstSpawn
<1>1. IInv => AbortOnlyAtFirstSpawn
  BY DEF IInv, WorkerInv, AbortOnlyAtFirstSpawn
<1> QED
  BY Invariance, <1>1, PTL

\* max_replies bounds what a stream handles, for every value of max_replies.
THEOREM RepliesSafety == Spec => []RepliesBounded
<1>1. IInv => RepliesBounded
  BY DEF IInv, RepliesInv
<1> QED
  BY Invariance, <1>1, PTL

\* When RunFsm() has returned no stream is left and no message that was read
\* is unhandled.
THEOREM DrainSafety == Spec => []DrainedAtExit
<1>1. IInv => DrainedAtExit
  <2> SUFFICES ASSUME IInv, worker \in {"exited", "unregistered", "destroyed"}
               PROVE  (\A s \in Streams : state[s] = "free") /\ taken = handled
    BY DEF DrainedAtExit
  <2>1. \A s \in Streams : state[s] = "free"
    BY DEF IInv, WorkerInv
  <2>2. cq = {}
    BY <2>1, EventIs DEF IInv, TypeOK, TagInv
  <2>3. Unhandled = {}
    BY <2>2 DEF Unhandled
  <2>4. Cardinality(Unhandled) = 0
    BY <2>3, FS_EmptySet
  <2> QED
    BY <2>1, <2>4 DEF IInv, TakenInv, TypeOK
<1> QED
  BY Invariance, <1>1, PTL

\* ~Srv() finds the shutdown done by another thread.
THEOREM DestructorSafety == Spec => []DestructorFindsItDone
<1>1. IInv => DestructorFindsItDone
  BY DEF IInv, WorkerInv, ShutdownInv, DestructorFindsItDone
<1> QED
  BY Invariance, <1>1, PTL

\* After cq_->Shutdown() no message is handled: Read completions belong to
\* live RPCs, and Server::Shutdown() waited for the last of them.
THEOREM NoHandlingAfterShutdown == Spec => NothingHandledAfterShutdown
<1>1. ASSUME IInv, [Next]_vars, cqShut PROVE handled' = handled
  <2>1. \A s \in Streams : state[s] # "Read"
    BY <1>1 DEF IInv, ShutdownInv, CallInv
  <2>2. ASSUME NEW s \in Streams, Proceed(s) PROVE handled' = handled
    <3>1. PICK e \in cq : ProceedCreate(e) \/ ProceedRead(e) \/ ProceedFinishing(e)
      BY <2>2 DEF Proceed
    <3>2. e.tag \in Streams
      BY <1>1, EventOfStream
    <3> QED
      BY <2>1, <3>1, <3>2 DEF ProceedCreate, ProceedRead, ProceedFinishing
  <2>3. CASE ThreadStep
    BY <2>3 DEF ThreadStep, Bind, FirstSpawn, ExitLoop, Unregister, Destroy, fsmVars
  <2>4. CASE Deadline \/ Done \/ UNCHANGED vars
    BY <2>4 DEF Deadline, Done, vars, fsmVars
  <2>5. ASSUME NEW c \in Callers, ShutdownStep(c) PROVE handled' = handled
    BY <2>5 DEF ShutdownStep, EnterShutdown, ServerDrained, ShutdownCq, fsmVars
  <2>6. ASSUME NEW s \in Streams, GrpcStep(s) \/ ClientStep(s) PROVE handled' = handled
    BY <2>6 DEF GrpcStep, ReadDone, FinishDone, ClientStep, Connect, Send, Hangup, fsmVars
  <2> QED
    BY <1>1, <2>2, <2>3, <2>4, <2>5, <2>6 DEF Next
<1>2. IInv /\ [Next]_vars => [cqShut => handled' = handled]_vars
  BY <1>1
<1> QED
  BY Invariance, <1>2, PTL DEF Spec, NothingHandledAfterShutdown

\* SrvFsm implements SrvLife: a step of the code's state machines is a step of
\* the contract on phaseBar, stopBar and sessionsBar, or leaves them alone.
THEOREM Refinement == Spec => ImplementsSrvLife
<1> USE DEF phaseBar, stopBar, sessionsBar
<1>1. Init => Life!Init
  BY DEF Init, Life!Init
<1>2. ASSUME IInv, [Next]_vars PROVE [Life!Next]_(Life!vars)
  <2>1. CASE Bind
    <3>1. Life!Register
      BY <1>2, <2>1 DEF Bind, Life!Register, stopVars
    <3> QED
      BY <3>1 DEF Life!Next
  <2>2. CASE FirstSpawn
    <3>1. Life!Serve
      BY <1>2, <2>2 DEF FirstSpawn, Life!Serve, netVars, stopVars, IInv, ShutdownInv
    <3> QED
      BY <3>1 DEF Life!Next
  <2>3. CASE ExitLoop
    <3>1. Life!Exit
      BY <1>2, <2>3 DEF ExitLoop, Life!Exit, netVars, stopVars
    <3> QED
      BY <3>1 DEF Life!Next
  <2>4. CASE Unregister \/ Destroy
    BY <2>4 DEF Unregister, Destroy, netVars, stopVars, Life!vars
  <2>5. CASE Deadline
    <3>1. sessionsBar' = sessionsBar
      BY <1>2, <2>5 DEF Deadline, IInv, TypeOK
    <3> QED
      BY <2>5, <3>1 DEF Deadline, stopVars, Life!vars
  <2>6. ASSUME NEW c \in Callers, EnterShutdown(c) PROVE [Life!Next]_(Life!vars)
    <3>1. CASE shutdown_done
      BY <2>6, <3>1 DEF EnterShutdown, Life!vars
    <3>2. CASE ~shutdown_done
      <4>1. ~cqShut /\ worker \in {"registered", "loop"}
        BY <1>2, <2>6, <3>2 DEF EnterShutdown, IInv, ShutdownInv, WorkerInv
      <4>2. Life!Drain
        BY <2>6, <3>2, <4>1 DEF EnterShutdown, Life!Drain
      <4> QED
        BY <4>2 DEF Life!Next
    <3> QED
      BY <1>2, <3>1, <3>2 DEF IInv, TypeOK
  <2>7. ASSUME NEW c \in Callers, ServerDrained(c) PROVE [Life!Next]_(Life!vars)
    BY <2>7 DEF ServerDrained, Life!vars
  <2>8. ASSUME NEW c \in Callers, ShutdownCq(c) PROVE [Life!Next]_(Life!vars)
    <3>1. shutdown_done /\ ~cqShut /\ server = "down"
      BY <1>2, <2>8 DEF ShutdownCq, IInv, ShutdownInv
    <3>2. sessionsBar = {}
      BY <1>2, <3>1 DEF IInv, ShutdownInv
    <3>3. Life!Close
      BY <2>8, <3>1, <3>2 DEF ShutdownCq, netVars, Life!Close
    <3> QED
      BY <3>3 DEF Life!Next
  <2>9. ASSUME NEW s \in Streams, Proceed(s) PROVE [Life!Next]_(Life!vars)
    <3>1. PICK e \in cq : ProceedCreate(e) \/ ProceedRead(e) \/ ProceedFinishing(e)
      BY <2>9 DEF Proceed
    <3>2. worker = "loop" /\ e.tag \in Streams /\ UNCHANGED <<server, sent, taken, stopVars>>
      BY <1>2, <2>9, EventOfStream DEF Proceed
    <3>3. CASE Delete(e.tag) /\ worker' = worker
      <4>1. sessionsBar' = sessionsBar \ {e.tag}
        BY <1>2, <3>2, <3>3 DEF Delete, IInv, TypeOK
      <4>2. CASE e.tag \in sessionsBar
        <5>1. Life!Dispose(e.tag)
          BY <3>2, <3>3, <4>1, <4>2 DEF Life!Dispose, stopVars
        <5> QED
          BY <3>2, <5>1 DEF Life!Next
      <4>3. CASE e.tag \notin sessionsBar
        BY <3>2, <3>3, <4>1, <4>3 DEF Life!vars, stopVars
      <4> QED
        BY <4>2, <4>3
    <3>4. CASE UNCHANGED <<worker, call>>
      BY <3>2, <3>4 DEF Life!vars, stopVars
    <3>5. IInv'
      BY <1>2, NextIInv
    <3>6. worker' # "aborted"
      BY <1>2, <3>1, <3>2, <3>5, EventOfStream DEF IInv, WorkerInv, CallInv, ShutdownInv,
         ProceedCreate, ProceedRead, ProceedFinishing, Expected
    <3> QED
      BY <3>1, <3>2, <3>3, <3>4, <3>6 DEF ProceedCreate, ProceedRead, ProceedFinishing
  <2>10. ASSUME NEW s \in Streams, Connect(s) PROVE [Life!Next]_(Life!vars)
    <3>1. Op(s, "Request").tag = s /\ Op(s, "Request").kind = "Request"
      BY OpRecord DEF Kinds
    <3>2. state[s] = "Create" /\ worker = "loop"
      BY <1>2, <2>10, <3>1 DEF Connect, IInv, TagInv, WorkerInv, Expected
    <3>3. s \notin sessionsBar
      BY <1>2, <2>10, <3>1, <3>2 DEF Connect, IInv, TagInv, CallInv
    <3>4. ~shutdown_done /\ ~cqShut
      BY <1>2, <2>10 DEF Connect, IInv, ShutdownInv
    <3>5. sessionsBar' = sessionsBar \cup {s}
      BY <1>2, <2>10 DEF Connect, IInv, TypeOK
    <3>6. Life!Open(s)
      BY <2>10, <3>2, <3>3, <3>4, <3>5 DEF Connect, stopVars, Life!Open
    <3> QED
      BY <3>6 DEF Life!Next
  <2>11. ASSUME NEW s \in Streams, Hangup(s) PROVE [Life!Next]_(Life!vars)
    <3>1. sessionsBar' = sessionsBar
      BY <1>2, <2>11 DEF Hangup, IInv, TypeOK
    <3> QED
      BY <2>11, <3>1 DEF Hangup, stopVars, Life!vars
  <2>12. ASSUME NEW s \in Streams, Send(s) \/ ReadDone(s) \/ FinishDone(s)
         PROVE  [Life!Next]_(Life!vars)
    BY <2>12 DEF Send, ReadDone, FinishDone, netVars, stopVars, Life!vars
  <2>13. CASE UNCHANGED vars
    BY <2>13 DEF vars, netVars, stopVars, Life!vars
  <2> QED
    BY <1>2, <2>1, <2>2, <2>3, <2>4, <2>5, <2>6, <2>7, <2>8, <2>9, <2>10, <2>11, <2>12, <2>13
       DEF Next, ThreadStep, ShutdownStep, GrpcStep, ClientStep, Done
<1> QED
  BY <1>1, <1>2, Invariance, PTL DEF Spec, ImplementsSrvLife, Life!Spec

=============================================================================
