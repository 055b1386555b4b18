------------------------------- MODULE SrvFsm -------------------------------
(***************************************************************************)
(* One Srv of core/mdt_dialout_core.cc: the worker thread that binds a      *)
(* vendor's server, arms stream handlers and drives their state machine     *)
(* from the completion queue (XBind, RunFsm, XStream::Proceed), the threads *)
(* that call Srv::Shutdown(), and the gRPC runtime between them.  The four  *)
(* vendors' Bind, FsmCtrl, Spawn and Proceed are the same code up to types, *)
(* so one module stands for each of them.                                   *)
(*                                                                         *)
(* gRPC is external and modelled by the contract the code relies on:        *)
(*   - Server::Shutdown(deadline) fails the armed handler, takes no new     *)
(*     call, cancels the calls left at the deadline and returns when no     *)
(*     call is being serviced;                                              *)
(*   - a handler armed on a server that is shutting down completes with     *)
(*     ok = false;                                                          *)
(*   - starting an operation on a completion queue that is shut down        *)
(*     aborts the process;                                                  *)
(*   - CompletionQueue::Next returns false once the queue is shut down and  *)
(*     every operation started on it has been returned.                     *)
(***************************************************************************)
EXTENDS Naturals, FiniteSets

CONSTANTS
    Streams,      \* addresses a stream object can have; a freed one is reused
    Callers,      \* threads that may call Srv::Shutdown() (signal watcher, stop())
    MaxReplies,   \* Context::max_replies, 0 = unlimited
    MaxMsgs       \* bound: messages all clients send in one behaviour

ASSUME StreamsAssumption == IsFiniteSet(Streams)
ASSUME MaxRepliesAssumption == MaxReplies \in Nat
ASSUME MaxMsgsAssumption == MaxMsgs \in Nat

VARIABLES
    worker,         \* the worker thread: XBind() and what it calls
    state,          \* XStream::state_, "free" when no object is at the address
    replies,        \* XStream::replies_
    ops,            \* operations started on the queue and not completed
    cq,             \* completions Next() has yet to return
    cqShut,         \* cq_->Shutdown() was called
    server,         \* the grpc::Server
    call,           \* the RPC bound to a stream's ServerContext
    inbox,          \* messages of that RPC no Read has taken
    sent,           \* messages sent by all clients (bounded by MaxMsgs)
    taken,          \* messages Reads have taken off the wire
    handled,        \* messages HandleMessage() has processed
    shutdown_done,  \* Srv::shutdown_done_
    pc              \* per caller: progress inside Srv::Shutdown()

netVars  == <<server, call, inbox, sent, taken>>
fsmVars  == <<state, replies, ops, cq, handled>>
stopVars == <<cqShut, shutdown_done, pc>>
vars     == <<worker, fsmVars, netVars, stopVars>>

Kinds  == {"Request", "Read", "Finish"}
States == {"Create", "Read", "Finishing"}
OkValues == {"true", "false"}     \* the ok of CompletionQueue::Next()
Ops    == [tag : Streams, kind : Kinds]
Events == [tag : Streams, kind : Kinds, ok : OkValues]

Op(s, k)        == [tag |-> s, kind |-> k]
Event(s, k, ok) == [tag |-> s, kind |-> k, ok |-> ok]

Free == {s \in Streams : state[s] = "free"}

TypeOK ==
    /\ worker \in {"binding", "registered", "loop", "exited", "unregistered",
                   "destroyed", "aborted"}
    /\ state \in [Streams -> States \cup {"free"}]
    /\ replies \in [Streams -> Nat]
    /\ ops \in SUBSET Ops
    /\ cq \in SUBSET Events
    /\ cqShut \in BOOLEAN
    /\ server \in {"none", "up", "draining", "cancelled", "down"}
    /\ call \in [Streams -> {"none", "open", "closed", "cancelled"}]
    /\ inbox \in [Streams -> Nat]
    /\ sent \in Nat
    /\ taken \in Nat
    /\ handled \in Nat
    /\ shutdown_done \in BOOLEAN
    /\ pc \in [Callers -> {"idle", "server", "cq", "returned"}]

Init ==
    /\ worker = "binding"
    /\ state = [s \in Streams |-> "free"]
    /\ replies = [s \in Streams |-> 0]
    /\ ops = {}
    /\ cq = {}
    /\ cqShut = FALSE
    /\ server = "none"
    /\ call = [s \in Streams |-> "none"]
    /\ inbox = [s \in Streams |-> 0]
    /\ sent = 0
    /\ taken = 0
    /\ handled = 0
    /\ shutdown_done = FALSE
    /\ pc = [c \in Callers |-> "idle"]

-----------------------------------------------------------------------------
(* The worker thread.                                                      *)

\* XBind() up to register_server(this): the server listens, the queue exists.
Bind ==
    /\ worker = "binding"
    /\ worker' = "registered"
    /\ server' = "up"
    /\ UNCHANGED <<fsmVars, call, inbox, sent, taken, stopVars>>

\* Where RequestX(tag) ends up: armed on a running server, completed with
\* ok = false on one that is shutting down.
ArmedOps(s)  == IF server = "up" THEN {Op(s, "Request")} ELSE {}
FailedArm(s) == IF server = "up" THEN {} ELSE {Event(s, "Request", "false")}

\* Mutant: the stream's constructor leaves replies_ uninitialised.
FirstSpawn_Garbage ==
    /\ worker = "registered"
    /\ ~cqShut
    /\ worker' = "loop"
    /\ \E s \in Free :
          /\ state' = [state EXCEPT ![s] = "Create"]
          /\ replies' = [replies EXCEPT ![s] = 0 - 1]
          /\ ops' = ops \cup ArmedOps(s)
          /\ cq' = cq \cup FailedArm(s)
    /\ UNCHANGED <<handled, netVars, stopVars>>

\* RunFsm() before its loop: Spawn() constructs the first stream.
FirstSpawn ==
    /\ worker = "registered"
    /\ \/ /\ cqShut
          /\ worker' = "aborted"
          /\ UNCHANGED <<state, replies, ops, cq>>
       \/ /\ ~cqShut
          /\ worker' = "loop"
          /\ \E s \in Free :
                /\ state' = [state EXCEPT ![s] = "Create"]
                /\ replies' = [replies EXCEPT ![s] = 0]
                /\ ops' = ops \cup ArmedOps(s)
                /\ cq' = cq \cup FailedArm(s)
    /\ UNCHANGED <<handled, netVars, stopVars>>

\* delete this: the stream and its ServerContext, hence its RPC, are gone.
Delete(s) ==
    /\ state' = [state EXCEPT ![s] = "free"]
    /\ call' = [call EXCEPT ![s] = "none"]
    /\ inbox' = [inbox EXCEPT ![s] = 0]

\* Mutant: the first Read is issued and no next handler is spawned.
ProceedCreate_NoSpawn(e) ==
    /\ state[e.tag] = "Create"
    /\ cq' = cq \ {e}
    /\ \/ /\ e.ok = "false"
          /\ Delete(e.tag)
          /\ UNCHANGED <<worker, replies, ops>>
       \/ /\ e.ok = "true"
          /\ state' = [state EXCEPT ![e.tag] = "Read"]
          /\ ops' = ops \cup {Op(e.tag, "Read")}
          /\ worker' = IF cqShut THEN "aborted" ELSE worker
          /\ UNCHANGED <<call, inbox, replies>>
    /\ UNCHANGED handled

\* Proceed() in state Create: a new handler is armed before the first Read.
ProceedCreate(e) ==
    /\ state[e.tag] = "Create"
    /\ \/ /\ e.ok = "false"
          /\ Delete(e.tag)
          /\ cq' = cq \ {e}
          /\ UNCHANGED <<worker, replies, ops>>
       \/ /\ e.ok = "true"
          /\ \E s \in Free :
                /\ state' = [state EXCEPT ![s] = "Create", ![e.tag] = "Read"]
                /\ replies' = [replies EXCEPT ![s] = 0]
                /\ ops' = ops \cup ArmedOps(s) \cup {Op(e.tag, "Read")}
                /\ cq' = (cq \ {e}) \cup FailedArm(s)
          /\ worker' = IF cqShut THEN "aborted" ELSE worker
          /\ UNCHANGED <<call, inbox>>
    /\ UNCHANGED handled

\* Mutant: off by one, replies_ compared after it should have stopped.
LastReply_OffByOne(s) == MaxReplies > 0 /\ replies[s] >= MaxReplies

\* Proceed() in state Read: end of stream, or one message and the next Read,
\* or the message that reaches max_replies.
LastReply(s) == MaxReplies > 0 /\ replies[s] + 1 >= MaxReplies

\* Mutant: no return after Finish, so the next Read is started as well.
ProceedRead_BothOps(e) ==
    /\ state[e.tag] = "Read"
    /\ cq' = cq \ {e}
    /\ handled' = IF e.ok = "true" THEN handled + 1 ELSE handled
    /\ replies' = [replies EXCEPT ![e.tag] = IF e.ok = "true" THEN @ + 1 ELSE @]
    /\ LET last == e.ok = "false" \/ LastReply(e.tag)
       IN  /\ state' = [state EXCEPT ![e.tag] = IF last THEN "Finishing" ELSE "Read"]
           /\ ops' = ops \cup {Op(e.tag, "Read")}
                         \cup (IF last THEN {Op(e.tag, "Finish")} ELSE {})
    /\ worker' = IF cqShut THEN "aborted" ELSE worker
    /\ UNCHANGED <<call, inbox>>

\* Mutant: ok is ignored, the Read is issued again at the end of the stream.
ProceedRead_IgnoresOk(e) ==
    /\ state[e.tag] = "Read"
    /\ cq' = cq \ {e}
    /\ handled' = IF e.ok = "true" THEN handled + 1 ELSE handled
    /\ replies' = [replies EXCEPT ![e.tag] = IF e.ok = "true" THEN @ + 1 ELSE @]
    /\ ops' = ops \cup {Op(e.tag, "Read")}
    /\ worker' = IF cqShut THEN "aborted" ELSE worker
    /\ UNCHANGED <<state, call, inbox>>

ProceedRead(e) ==
    /\ state[e.tag] = "Read"
    /\ cq' = cq \ {e}
    /\ LET s    == e.tag
           last == e.ok = "false" \/ LastReply(s)
       IN  /\ handled' = IF e.ok = "true" THEN handled + 1 ELSE handled
           /\ replies' = [replies EXCEPT ![s] = IF e.ok = "true" THEN @ + 1 ELSE @]
           /\ state' = [state EXCEPT ![s] = IF last THEN "Finishing" ELSE "Read"]
           /\ ops' = ops \cup {Op(s, IF last THEN "Finish" ELSE "Read")}
    /\ worker' = IF cqShut THEN "aborted" ELSE worker
    /\ UNCHANGED <<call, inbox>>

\* Proceed() in state Finishing: whatever ok says, the stream is deleted.
ProceedFinishing(e) ==
    /\ state[e.tag] = "Finishing"
    /\ Delete(e.tag)
    /\ cq' = cq \ {e}
    /\ UNCHANGED <<worker, replies, ops, handled>>

\* One turn of RunFsm()'s loop: Next() returns an event, Proceed(ok) runs.
Proceed(s) ==
    /\ worker = "loop"
    /\ \E e \in cq :
          /\ e.tag = s
          /\ ProceedCreate(e) \/ ProceedRead(e) \/ ProceedFinishing(e)
    /\ UNCHANGED <<server, sent, taken, stopVars>>

\* Mutant: the loop is left as soon as the queue is shut down, undrained.
ExitLoop_Undrained ==
    /\ worker = "loop"
    /\ shutdown_done
    /\ worker' = "exited"
    /\ UNCHANGED <<fsmVars, netVars, stopVars>>

\* Next() returns false: the queue is shut down and drained.
ExitLoop ==
    /\ worker = "loop"
    /\ cqShut
    /\ cq = {} /\ ops = {}
    /\ worker' = "exited"
    /\ UNCHANGED <<fsmVars, netVars, stopVars>>

Unregister ==
    /\ worker = "exited"
    /\ worker' = "unregistered"
    /\ UNCHANGED <<fsmVars, netVars, stopVars>>

\* ~Srv() calls Shutdown() once more; the flag makes it return at once.
Destroy ==
    /\ worker = "unregistered"
    /\ shutdown_done
    /\ worker' = "destroyed"
    /\ UNCHANGED <<fsmVars, netVars, stopVars>>

ThreadStep == Bind \/ FirstSpawn \/ ExitLoop \/ Unregister \/ Destroy

-----------------------------------------------------------------------------
(* Srv::Shutdown(), entered through the registry.                          *)

\* shutdown_done_.exchange(true), then Server::Shutdown() begins: the armed
\* handler fails, no further call is taken.
EnterShutdown(c) ==
    /\ worker \in {"registered", "loop", "exited"}
    /\ pc[c] = "idle"
    /\ shutdown_done' = TRUE
    /\ \/ /\ shutdown_done
          /\ pc' = [pc EXCEPT ![c] = "returned"]
          /\ UNCHANGED <<server, ops, cq>>
       \/ /\ ~shutdown_done
          /\ pc' = [pc EXCEPT ![c] = "server"]
          /\ server' = "draining"
          /\ ops' = {o \in ops : o.kind # "Request"}
          /\ cq' = cq \cup {Event(o.tag, "Request", "false") :
                                o \in {p \in ops : p.kind = "Request"}}
    /\ UNCHANGED <<worker, state, replies, handled, call, inbox, sent, taken, cqShut>>

\* Mutant: the drain is not waited for.
ServerDrained_NoWait(c) ==
    /\ pc[c] = "server"
    /\ pc' = [pc EXCEPT ![c] = "cq"]
    /\ server' = "down"
    /\ UNCHANGED <<worker, fsmVars, call, inbox, sent, taken, cqShut, shutdown_done>>

\* Server::Shutdown() returns: no call is being serviced.
ServerDrained(c) ==
    /\ pc[c] = "server"
    /\ \A s \in Streams : call[s] = "none"
    /\ pc' = [pc EXCEPT ![c] = "cq"]
    /\ server' = "down"
    /\ UNCHANGED <<worker, fsmVars, call, inbox, sent, taken, cqShut, shutdown_done>>

\* Mutant: the queue is shut down before the server.
ShutdownCq_First(c) ==
    /\ pc[c] \in {"server", "cq"}
    /\ ~cqShut \/ pc[c] = "cq"
    /\ cqShut' = TRUE
    /\ pc' = [pc EXCEPT ![c] = IF @ = "cq" THEN "returned" ELSE @]
    /\ UNCHANGED <<worker, fsmVars, netVars, shutdown_done>>

\* Mutant: Shutdown() forgets the completion queue.
ShutdownCq_Missing(c) ==
    /\ pc[c] = "cq"
    /\ pc' = [pc EXCEPT ![c] = "returned"]
    /\ UNCHANGED <<worker, fsmVars, netVars, cqShut, shutdown_done>>

\* cq_->Shutdown(), the last thing Shutdown() does.
ShutdownCq(c) ==
    /\ pc[c] = "cq"
    /\ cqShut' = TRUE
    /\ pc' = [pc EXCEPT ![c] = "returned"]
    /\ UNCHANGED <<worker, fsmVars, netVars, shutdown_done>>

ShutdownStep(c) == EnterShutdown(c) \/ ServerDrained(c) \/ ShutdownCq(c)

-----------------------------------------------------------------------------
(* The gRPC runtime and the clients (external).                            *)

\* The five-second deadline passes: every call left is cancelled.
Deadline ==
    /\ server = "draining"
    /\ server' = "cancelled"
    /\ call' = [s \in Streams |-> IF call[s] = "none" THEN "none" ELSE "cancelled"]
    /\ UNCHANGED <<worker, fsmVars, inbox, sent, taken, stopVars>>

\* A client's call is matched with the armed handler.  Bound: an address is
\* left for the handler that replaces it.
Connect(s) ==
    /\ server = "up"
    /\ Op(s, "Request") \in ops
    /\ Free # {}
    /\ ops' = ops \ {Op(s, "Request")}
    /\ cq' = cq \cup {Event(s, "Request", "true")}
    /\ call' = [call EXCEPT ![s] = "open"]
    /\ UNCHANGED <<worker, state, replies, handled, server, inbox, sent, taken, stopVars>>

Send(s) ==
    /\ call[s] = "open"
    /\ sent < MaxMsgs
    /\ sent' = sent + 1
    /\ inbox' = [inbox EXCEPT ![s] = @ + 1]
    /\ UNCHANGED <<worker, fsmVars, server, call, taken, stopVars>>

\* The client half-closes, or its connection is lost.
Hangup(s) ==
    /\ call[s] = "open"
    /\ call' = [call EXCEPT ![s] = "closed"]
    /\ UNCHANGED <<worker, fsmVars, server, inbox, sent, taken, stopVars>>

\* A Read completes: with the next message, or with ok = false when the
\* stream has ended (a cancelled one may lose what was still on the wire).
ReadDone(s) ==
    /\ Op(s, "Read") \in ops
    /\ ops' = ops \ {Op(s, "Read")}
    /\ \/ /\ inbox[s] > 0
          /\ inbox' = [inbox EXCEPT ![s] = @ - 1]
          /\ taken' = taken + 1
          /\ cq' = cq \cup {Event(s, "Read", "true")}
       \/ /\ \/ call[s] = "closed" /\ inbox[s] = 0
             \/ call[s] = "cancelled"
          /\ cq' = cq \cup {Event(s, "Read", "false")}
          /\ UNCHANGED <<inbox, taken>>
    /\ UNCHANGED <<worker, state, replies, handled, server, call, sent, stopVars>>

\* A Finish completes; ok = false when the RPC is dead.
FinishDone(s) ==
    /\ Op(s, "Finish") \in ops
    /\ ops' = ops \ {Op(s, "Finish")}
    /\ cq' = cq \cup {Event(s, "Finish", IF call[s] = "cancelled" THEN "false" ELSE "true")}
    /\ UNCHANGED <<worker, state, replies, handled, netVars, stopVars>>

GrpcStep(s) == ReadDone(s) \/ FinishDone(s)

ClientStep(s) == Connect(s) \/ Send(s) \/ Hangup(s)

\* The worker thread has ended, or the process has.
Done ==
    /\ worker \in {"destroyed", "aborted"}
    /\ UNCHANGED vars

\* An aborted process takes no step: AbortOnlyAtFirstSpawn shows that in that
\* state nothing but Done is enabled.
Next ==
    \/ ThreadStep
    \/ Deadline
    \/ \E c \in Callers : ShutdownStep(c)
    \/ \E s \in Streams : Proceed(s) \/ GrpcStep(s) \/ ClientStep(s)
    \/ Done

Spec == Init /\ [][Next]_vars

(***************************************************************************)
(* Fairness.  The worker thread keeps running and the queue returns every   *)
(* completion in the end (it is a FIFO); a thread inside Shutdown() keeps   *)
(* running; gRPC completes what it can complete, and its deadline timer     *)
(* fires.  Nothing is assumed of the clients, nor that anybody ever calls   *)
(* Shutdown().                                                              *)
(***************************************************************************)
Fairness ==
    /\ WF_vars(ThreadStep)
    /\ \A s \in Streams : WF_vars(Proceed(s))
    /\ WF_vars(Deadline)
    /\ \A c \in Callers : WF_vars(ServerDrained(c) \/ ShutdownCq(c))
    /\ \A s \in Streams : WF_vars(GrpcStep(s))

FairSpec == Spec /\ Fairness

-----------------------------------------------------------------------------
(* Properties.                                                             *)

Outstanding(s) == {o \in ops : o.tag = s}
Completed(s)   == {e \in cq : e.tag = s}

\* Every stream object is the tag of exactly one operation, outstanding or
\* completed, and of the kind its state_ expects; a freed address is the tag
\* of none.  So Proceed() never runs on a deleted stream, no event is
\* interpreted in the wrong state, request_ is never read into by two Reads,
\* and no stream is leaked waiting for an event that cannot come.
Expected(s) == IF state[s] = "Create" THEN "Request"
               ELSE IF state[s] = "Read" THEN "Read" ELSE "Finish"

OneTagPerStream ==
    \A s \in Streams :
        IF state[s] = "free"
        THEN Outstanding(s) = {} /\ Completed(s) = {}
        ELSE \/ /\ Outstanding(s) = {Op(s, Expected(s))}
                /\ Completed(s) = {}
             \/ /\ Outstanding(s) = {}
                /\ \E ok \in OkValues : Completed(s) = {Event(s, Expected(s), ok)}

\* While the server runs, one and only one stream waits in state Create: a
\* call always finds a handler (Proceed spawns the next before reading), and
\* handlers do not pile up.
OneAcceptor ==
    worker = "loop" =>
        LET armed == {s \in Streams : state[s] = "Create"}
        IN  /\ \A s, t \in armed : s = t
            /\ server = "up" => armed # {}

\* The process aborts on an operation started after cq_->Shutdown() in one
\* place only: the first Spawn() of a worker that had registered but not yet
\* entered RunFsm().  Server::Shutdown() before cq_->Shutdown() protects
\* every Proceed().
AbortOnlyAtFirstSpawn ==
    worker = "aborted" => /\ cqShut
                          /\ \A s \in Streams : state[s] = "free"
                          /\ handled = 0 /\ taken = 0

\* A stream never handles more than max_replies messages, and it is in state
\* Read (another Read outstanding) only while it may still handle one.
RepliesBounded ==
    MaxReplies > 0 =>
        \A s \in Streams :
            /\ replies[s] <= MaxReplies
            /\ state[s] = "Read" => replies[s] < MaxReplies

\* When RunFsm() returns, and with it the VendorPlumbing and Context that the
\* streams point to go out of scope, no stream is left, and every message a
\* Read took off the wire went through HandleMessage(): shutdown loses none.
DrainedAtExit ==
    worker \in {"exited", "unregistered", "destroyed"} =>
        /\ \A s \in Streams : state[s] = "free"
        /\ taken = handled

\* Once the queue is shut down nothing is handled any more: after the
\* Shutdown() that did the work has returned, no payload is produced.
NothingHandledAfterShutdown == [][cqShut => handled' = handled]_vars

\* The destructor's Shutdown() is never the one that does the work: the worker
\* leaves its loop only after another thread's Shutdown() went through.
DestructorFindsItDone == worker = "unregistered" => shutdown_done /\ cqShut

\* Shutdown() ends the worker: once a thread is inside Server::Shutdown() the
\* worker returns from XBind() and its Srv is destroyed, whatever the clients
\* do, unless the process aborts at the first Spawn().
ShutdownEndsWorker ==
    (\E c \in Callers : pc[c] = "server") ~> worker \in {"destroyed", "aborted"}

\* A session whose client has hung up is disposed of: its stream is deleted.
HangupReclaimed == \A s \in Streams : call[s] = "closed" ~> call[s] = "none"

-----------------------------------------------------------------------------
(* The inductive invariant behind the safety properties (SrvFsm_proofs).    *)

\* OneTagPerStream, said of the elements of ops and cq.
TagInv ==
    /\ \A o \in ops : state[o.tag] # "free" /\ o.kind = Expected(o.tag)
    /\ \A e \in cq : state[e.tag] # "free" /\ e.kind = Expected(e.tag)
    /\ \A e, f \in cq : e.tag = f.tag => e = f
    /\ \A o \in ops, e \in cq : o.tag # e.tag
    /\ \A s \in Streams :
          state[s] # "free" => (\E o \in ops : o.tag = s) \/ (\E e \in cq : e.tag = s)

\* One stream in state Create while the server runs, at most one ever; it is
\* armed only on a running server, and fails only on one that is not.
AcceptorInv ==
    /\ \A s, t \in Streams : state[s] = "Create" /\ state[t] = "Create" => s = t
    /\ worker = "loop" /\ server = "up" => \E s \in Streams : state[s] = "Create"
    /\ \A o \in ops : o.kind = "Request" => server = "up"
    /\ \A e \in cq : e.kind = "Request" /\ e.ok = "false" => server # "up"

\* An RPC is bound to a stream from the completion of its Request to delete.
CallInv ==
    \A s \in Streams :
        call[s] # "none" <=>
            \/ state[s] \in {"Read", "Finishing"}
            \/ \E e \in cq : e.tag = s /\ e.kind = "Request" /\ e.ok = "true"

\* Outside its loop the worker has no stream.
WorkerInv ==
    /\ worker # "loop" => \A s \in Streams : state[s] = "free"
    /\ worker \in {"binding", "registered", "aborted"} => taken = 0 /\ handled = 0
    /\ worker \in {"exited", "unregistered", "destroyed", "aborted"} => cqShut
    /\ worker = "binding" <=> server = "none"

\* Shutdown() is executed once, in the order server, then queue; once
\* Server::Shutdown() has returned no RPC is left.
ShutdownInv ==
    /\ ~shutdown_done <=> server \in {"none", "up"}
    /\ \A c \in Callers :
          /\ pc[c] \in {"server", "cq"} => shutdown_done /\ ~cqShut
          /\ pc[c] = "cq" => server = "down"
          /\ \A d \in Callers :
                pc[c] \in {"server", "cq"} /\ pc[d] \in {"server", "cq"} => c = d
    /\ cqShut => server = "down"
    /\ server = "down" => \A s \in Streams : call[s] = "none"

\* What has been read and not handled is the completed Reads in the queue.
Unhandled == {e \in cq : e.kind = "Read" /\ e.ok = "true"}
TakenInv == IsFiniteSet(Unhandled) /\ taken = handled + Cardinality(Unhandled)

\* A stream starts counting at zero and stays within max_replies.
RepliesInv ==
    /\ RepliesBounded
    /\ \A s \in Streams : state[s] = "Create" => replies[s] = 0

\* The conjunction is preserved by every step and implies each safety property.
IInv ==
    /\ TypeOK
    /\ TagInv
    /\ AcceptorInv
    /\ CallInv
    /\ WorkerInv
    /\ ShutdownInv
    /\ TakenInv
    /\ RepliesInv

-----------------------------------------------------------------------------
(* SrvFsm implements SrvLife: a session is an RPC bound to a stream.        *)

phaseBar ==
    CASE worker = "binding" -> "binding"
      [] worker = "registered" -> "registered"
      [] worker = "loop" -> "serving"
      [] worker = "aborted" -> "aborted"
      [] OTHER -> "exited"

stopBar == IF cqShut THEN "closed" ELSE IF shutdown_done THEN "draining" ELSE "no"

sessionsBar == {s \in Streams : call[s] # "none"}

Life == INSTANCE SrvLife WITH
            Sessions <- Streams,
            phase <- phaseBar, stop <- stopBar, sessions <- sessionsBar

\* What Srv promises its owner holds of the code's state machines.
ImplementsSrvLife == Life!Spec
=============================================================================
