---------------------------- MODULE ZmqDelivery ----------------------------
(***************************************************************************)
(* Delivery over ZeroMQ (dataDelivery/zmq_delivery.cc) in the standalone    *)
(* daemon: workers push pointers to heap-allocated grpc_payload structures, *)
(* one poller thread pulls them, prints and frees.  The module follows      *)
(* every payload from InitGrpcPayload() to free_grpc_payload(), and the     *)
(* shutdown of both ends: each worker closes its own context, the watcher   *)
(* shuts the poller's context down, main() joins the workers first.         *)
(*                                                                         *)
(* ZeroMQ is external: a PUSH socket queues up to SndHwm messages and then  *)
(* refuses with EAGAIN; the I/O threads move them to the PULL side's queue, *)
(* which holds RcvHwm per connection; closing a socket with the default     *)
(* linger makes the destructor of its context wait until its queue is       *)
(* empty; a context that is shut down fails recv() with ETERM even when     *)
(* messages are queued.                                                     *)
(***************************************************************************)
EXTENDS Naturals, Sequences, FiniteSets, SequencesExt

CONSTANTS
    Workers,    \* threads that deliver
    Payloads,   \* addresses the allocator returns; bound on live payloads
    SndHwm,     \* ZMQ_SNDHWM of each PUSH socket
    RcvHwm      \* ZMQ_RCVHWM of the PULL socket, per connection

ASSUME PayloadsAssumption == IsFiniteSet(Payloads)
ASSUME HwmAssumption == SndHwm \in Nat \ {0} /\ RcvHwm \in Nat \ {0}

NoPayload == "none"
ASSUME NoPayloadAssumption == NoPayload \notin Payloads

VARIABLES
    heap,     \* payloads allocated and not freed
    worker,   \* per worker: running, closing its plumbing, ended
    local,    \* per worker: pload in ZmqPusher()
    sendq,    \* per worker: its PUSH socket's queue
    recvq,    \* per worker: its connection's queue on the PULL side
    poller,   \* the poller thread
    polled,   \* pload in ZmqPoller()
    ctx,      \* the poller's context
    fault     \* a payload was used or freed after it was freed

vars == <<heap, worker, local, sendq, recvq, poller, polled, ctx, fault>>

TypeOK ==
    /\ heap \in SUBSET Payloads
    /\ worker \in [Workers -> {"running", "closing", "ended"}]
    /\ local \in [Workers -> Payloads \cup {NoPayload}]
    /\ sendq \in [Workers -> Seq(Payloads)]
    /\ recvq \in [Workers -> Seq(Payloads)]
    /\ poller \in {"recv", "handle", "ended"}
    /\ polled \in Payloads \cup {NoPayload}
    /\ ctx \in {"up", "shutdown"}
    /\ fault \in BOOLEAN

Init ==
    /\ heap = {}
    /\ worker = [w \in Workers |-> "running"]
    /\ local = [w \in Workers |-> NoPayload]
    /\ sendq = [w \in Workers |-> <<>>]
    /\ recvq = [w \in Workers |-> <<>>]
    /\ poller = "recv"
    /\ polled = NoPayload
    /\ ctx = "up"
    /\ fault = FALSE

\* free_grpc_payload(): every member, then the structure.
FreePayload(p) ==
    /\ heap' = heap \ {p}
    /\ fault' = (fault \/ p \notin heap)

-----------------------------------------------------------------------------
(* A worker in ZmqPusher().                                                *)

InitGrpcPayload(w) ==
    /\ worker[w] = "running"
    /\ local[w] = NoPayload
    /\ \E p \in Payloads \ heap :
          /\ heap' = heap \cup {p}
          /\ local' = [local EXCEPT ![w] = p]
    /\ UNCHANGED <<worker, sendq, recvq, poller, polled, ctx, fault>>

\* Mutant: the payload is freed after a send that took it.
SendAccepted_Frees(w) ==
    /\ local[w] # NoPayload
    /\ Len(sendq[w]) < SndHwm
    /\ sendq' = [sendq EXCEPT ![w] = Append(@, local[w])]
    /\ FreePayload(local[w])
    /\ local' = [local EXCEPT ![w] = NoPayload]
    /\ UNCHANGED <<worker, recvq, poller, polled, ctx>>

\* send(dontwait) took the message: the consumer owns the payload.
SendAccepted(w) ==
    /\ local[w] # NoPayload
    /\ Len(sendq[w]) < SndHwm
    /\ sendq' = [sendq EXCEPT ![w] = Append(@, local[w])]
    /\ local' = [local EXCEPT ![w] = NoPayload]
    /\ UNCHANGED <<heap, worker, recvq, poller, polled, ctx, fault>>

\* EAGAIN on a full queue, or an error thrown (EINTR at any time): the payload
\* is freed here and the message is dropped.
SendRefused(w) ==
    /\ local[w] # NoPayload
    /\ FreePayload(local[w])
    /\ local' = [local EXCEPT ![w] = NoPayload]
    /\ UNCHANGED <<worker, sendq, recvq, poller, polled, ctx>>

\* The completion queue is shut down: RunFsm() returns, VendorPlumbing is
\* destroyed, its socket closed.
LeaveLoop(w) ==
    /\ worker[w] = "running"
    /\ local[w] = NoPayload
    /\ worker' = [worker EXCEPT ![w] = "closing"]
    /\ UNCHANGED <<heap, local, sendq, recvq, poller, polled, ctx, fault>>

\* Mutant: the context is terminated before its socket is closed.
CloseCtx_SocketOpen(w) ==
    /\ worker[w] = "closing"
    /\ FALSE
    /\ worker' = [worker EXCEPT ![w] = "ended"]
    /\ UNCHANGED <<heap, local, sendq, recvq, poller, polled, ctx, fault>>

\* ~ZmqPush() terminates the context: it returns when nothing lingers.
CloseCtx(w) ==
    /\ worker[w] = "closing"
    /\ sendq[w] = <<>>
    /\ worker' = [worker EXCEPT ![w] = "ended"]
    /\ UNCHANGED <<heap, local, sendq, recvq, poller, polled, ctx, fault>>

-----------------------------------------------------------------------------
(* ZeroMQ's I/O threads (external).                                        *)

Transfer(w) ==
    /\ sendq[w] # <<>>
    /\ Len(recvq[w]) < RcvHwm
    /\ recvq' = [recvq EXCEPT ![w] = Append(@, Head(sendq[w]))]
    /\ sendq' = [sendq EXCEPT ![w] = Tail(@)]
    /\ UNCHANGED <<heap, worker, local, poller, polled, ctx, fault>>

-----------------------------------------------------------------------------
(* ZmqSingleThreadPoller(): ZmqPoller() in a loop.                         *)

Recv(w) ==
    /\ poller = "recv"
    /\ ctx = "up"
    /\ recvq[w] # <<>>
    /\ polled' = Head(recvq[w])
    /\ recvq' = [recvq EXCEPT ![w] = Tail(@)]
    /\ poller' = "handle"
    /\ UNCHANGED <<heap, worker, local, sendq, ctx, fault>>

\* The members are printed, then the payload is freed.
PrintAndFree ==
    /\ poller = "handle"
    /\ FreePayload(polled)
    /\ polled' = NoPayload
    /\ poller' = "recv"
    /\ UNCHANGED <<worker, local, sendq, recvq, ctx>>

\* Mutant: any error of recv(), EINTR too, ends the thread.
PollerEnds_AnyError ==
    /\ poller = "recv"
    /\ poller' = "ended"
    /\ UNCHANGED <<heap, worker, local, sendq, recvq, polled, ctx, fault>>

\* ETERM: rethrown, and the thread returns.
PollerEnds ==
    /\ poller = "recv"
    /\ ctx = "shutdown"
    /\ poller' = "ended"
    /\ UNCHANGED <<heap, worker, local, sendq, recvq, polled, ctx, fault>>

\* The watcher, once initiate_shutdown() has returned: no worker handles a
\* message any more (SrvFsm, NothingHandledAfterShutdown).
ShutdownCtx ==
    /\ ctx = "up"
    /\ \A w \in Workers : local[w] = NoPayload /\ worker[w] # "running"
    /\ ctx' = "shutdown"
    /\ UNCHANGED <<heap, worker, local, sendq, recvq, poller, polled, fault>>

Ended ==
    /\ poller = "ended"
    /\ \A w \in Workers : worker[w] = "ended"
    /\ UNCHANGED vars

Next ==
    \/ \E w \in Workers :
          \/ InitGrpcPayload(w) \/ SendAccepted(w) \/ SendRefused(w)
          \/ LeaveLoop(w) \/ CloseCtx(w) \/ Transfer(w) \/ Recv(w)
    \/ PrintAndFree \/ PollerEnds \/ ShutdownCtx
    \/ Ended

Spec == Init /\ [][Next]_vars

(***************************************************************************)
(* Fairness.  Threads inside a function go on; ZeroMQ moves what fits; the  *)
(* PULL socket serves its connections in turn (fair queueing).  Nothing     *)
(* obliges a worker to produce, to be shut down, or a send to be accepted.  *)
(***************************************************************************)
Fairness ==
    /\ \A w \in Workers :
          /\ WF_vars(SendAccepted(w) \/ SendRefused(w))
          /\ WF_vars(CloseCtx(w))
          /\ WF_vars(Transfer(w))
          /\ SF_vars(Recv(w))
    /\ WF_vars(PrintAndFree)
    /\ WF_vars(PollerEnds)
    /\ WF_vars(ShutdownCtx)

FairSpec == Spec /\ Fairness

-----------------------------------------------------------------------------
(* Properties.                                                             *)

\* The places a pointer can be in: name and payload.
Places ==
    {<<"local", w, local[w]>> : w \in {v \in Workers : local[v] # NoPayload}}
    \cup (UNION {{<<"sendq", w, i, sendq[w][i]>> : i \in DOMAIN sendq[w]} : w \in Workers})
    \cup (UNION {{<<"recvq", w, i, recvq[w][i]>> : i \in DOMAIN recvq[w]} : w \in Workers})
    \cup (IF polled = NoPayload THEN {} ELSE {<<"polled", polled>>})

Held == {p[Len(p)] : p \in Places}

\* Every allocated payload is held in exactly one place (ZmqPusher(), a queue,
\* ZmqPoller()) and every pointer held is allocated: none is leaked on a
\* refused send, producer and consumer never share one, and none is freed, or
\* printed, after it was freed.
OneOwner ==
    /\ TypeOK
    /\ Held = heap
    /\ Cardinality(Places) = Cardinality(heap)
    /\ ~fault

\* A message send() took is printed and freed, unless the poller's context is
\* shut down first.
SentIsConsumed ==
    \A w \in Workers, p \in Payloads :
        (\E i \in DOMAIN sendq[w] : sendq[w][i] = p)
            ~> (p \notin heap \/ ctx = "shutdown")

\* A worker whose completion queue was shut down ends, so that main() can join
\* it, if the PULL side has room for its backlog, even when nothing polls any
\* more.  (With a larger backlog and no poller it lingers for ever.)
SmallBacklogEnds ==
    \A w \in Workers :
        (worker[w] = "closing" /\ Len(sendq[w]) + Len(recvq[w]) <= RcvHwm)
            ~> worker[w] = "ended"
=============================================================================
