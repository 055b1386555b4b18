------------------------- MODULE ZmqDelivery_proofs -------------------------
(***************************************************************************)
(* Proofs about ZmqDelivery, for any workers, any finite set of payload     *)
(* addresses and any high-water marks: every allocated payload has exactly  *)
(* one owner.  OneOwner counts places, which no single step preserves by    *)
(* itself.  The inductive invariant says the same without counting: the     *)
(* payloads in the workers' hands, in the sockets' queues and in the        *)
(* poller's hands are disjoint sets that make up the heap, and none of them *)
(* holds a payload twice; the equality of the counts then follows from a    *)
(* bijection.                                                               *)
(***************************************************************************)
EXTENDS ZmqDelivery, FiniteSetTheorems, SequenceTheorems, TLAPS

-----------------------------------------------------------------------------
(* The inductive invariant.                                                *)

\* The payloads in ZmqPusher(), in a family of queues, in ZmqPoller().
InHand    == {p \in Payloads : \E w \in Workers : local[w] = p}
Queued(Q) == {p \in Payloads : \E w \in Workers : \E i \in 1..Len(Q[w]) : Q[w][i] = p}
InPoll    == {p \in Payloads : polled = p}

\* No payload is twice in a family of queues.
QueuedOnce(Q) ==
    \A w, v \in Workers : \A i \in 1..Len(Q[w]), j \in 1..Len(Q[v]) :
        Q[w][i] = Q[v][j] => w = v /\ i = j

\* ZmqPoller() has a pload exactly between recv() and free_grpc_payload().
PollerInv == poller = "handle" <=> polled # NoPayload

\* What is allocated is held, and conversely.
HeldInv == heap = InHand \cup Queued(sendq) \cup Queued(recvq) \cup InPoll

\* No payload is held twice.
OnceInv ==
    /\ \A w, v \in Workers : local[w] = local[v] /\ local[w] # NoPayload => w = v
    /\ QueuedOnce(sendq)
    /\ QueuedOnce(recvq)

ApartInv ==
    /\ InHand \cap Queued(sendq) = {}
    /\ InHand \cap Queued(recvq) = {}
    /\ InHand \cap InPoll = {}
    /\ Queued(sendq) \cap Queued(recvq) = {}
    /\ Queued(sendq) \cap InPoll = {}
    /\ Queued(recvq) \cap InPoll = {}

IInv ==
    /\ TypeOK
    /\ ~fault
    /\ PollerInv
    /\ HeldInv
    /\ OnceInv
    /\ ApartInv

-----------------------------------------------------------------------------
(* The queues.                                                             *)

\* Queue r is queue q with p appended; with its first message taken.
Appended(q, p, r) ==
    /\ r \in Seq(Payloads)
    /\ Len(q) \in Nat /\ Len(r) = Len(q) + 1
    /\ \A i \in 1..Len(q) : r[i] = q[i]
    /\ r[Len(q) + 1] = p

Taken(q, r) ==
    /\ r \in Seq(Payloads)
    /\ Len(q) \in Nat \ {0} /\ Len(r) = Len(q) - 1
    /\ \A i \in 1..Len(r) : r[i] = q[i + 1]

\* Append() appends.
LEMMA AppendAppends ==
    ASSUME NEW q \in Seq(Payloads), NEW p \in Payloads
    PROVE  Append(q, p) \in Seq(Payloads) /\ Appended(q, p, Append(q, p))
<1>1. /\ Append(q, p) \in Seq(Payloads)
      /\ Len(q) \in Nat /\ Len(Append(q, p)) = Len(q) + 1
  BY AppendProperties, LenProperties
<1>2. (\A i \in 1..Len(q) : Append(q, p)[i] = q[i]) /\ Append(q, p)[Len(q) + 1] = p
  BY AppendProperties
<1> QED
  BY <1>1, <1>2 DEF Appended

\* Tail() takes what Head() returns.
LEMMA TailTakes ==
    ASSUME NEW q \in Seq(Payloads), q # <<>>
    PROVE  /\ Tail(q) \in Seq(Payloads)
           /\ Taken(q, Tail(q))
           /\ Head(q) = q[1] /\ Head(q) \in Payloads
<1>1. /\ Tail(q) \in Seq(Payloads) /\ Len(Tail(q)) = Len(q) - 1
      /\ Len(q) \in Nat \ {0}
      /\ Head(q) = q[1] /\ Head(q) \in Payloads
  BY HeadTailProperties, EmptySeq
<1>2. \A i \in 1..Len(Tail(q)) : Tail(q)[i] = q[i + 1]
  BY HeadTailProperties
<1> QED
  BY <1>1, <1>2 DEF Taken

\* A payload that was in no queue is in one, once, after the append.
LEMMA AppendQueued ==
    ASSUME NEW Q \in [Workers -> Seq(Payloads)], NEW w \in Workers, NEW p \in Payloads,
           NEW R, Appended(Q[w], p, R[w]), \A v \in Workers : v # w => R[v] = Q[v],
           QueuedOnce(Q), p \notin Queued(Q)
    PROVE  /\ QueuedOnce(R)
           /\ Queued(R) = Queued(Q) \cup {p}
<1>1. /\ \A v \in Workers : \A i \in 1..Len(Q[v]) : i \in 1..Len(R[v]) /\ R[v][i] = Q[v][i]
      /\ Len(Q[w]) + 1 \in 1..Len(R[w]) /\ R[w][Len(Q[w]) + 1] = p
      /\ \A v \in Workers : \A i \in 1..Len(R[v]) :
            i \in 1..Len(Q[v]) \/ (v = w /\ i = Len(Q[w]) + 1)
  BY DEF Appended
<1>2. \A v \in Workers : \A i \in 1..Len(Q[v]) : Q[v][i] # p
  BY DEF Queued
<1>3. QueuedOnce(R)
  BY <1>1, <1>2 DEF QueuedOnce
<1>4. Queued(R) \subseteq Queued(Q) \cup {p}
  BY <1>1 DEF Queued
<1>5. Queued(Q) \cup {p} \subseteq Queued(R)
  BY <1>1 DEF Queued
<1> QED
  BY <1>3, <1>4, <1>5

\* A payload that was in a queue, once, is in none after it was taken.
LEMMA TakeQueued ==
    ASSUME NEW Q \in [Workers -> Seq(Payloads)], NEW w \in Workers,
           NEW R, Taken(Q[w], R[w]), \A v \in Workers : v # w => R[v] = Q[v],
           QueuedOnce(Q), Q[w][1] \in Payloads
    PROVE  /\ QueuedOnce(R)
           /\ Q[w][1] \in Queued(Q)
           /\ Queued(R) = Queued(Q) \ {Q[w][1]}
<1> DEFINE from(v, i) == IF v = w THEN i + 1 ELSE i
<1>1. \A v \in Workers : \A i \in 1..Len(R[v]) :
         from(v, i) \in 1..Len(Q[v]) /\ R[v][i] = Q[v][from(v, i)]
  BY DEF Taken
<1>2. \A v \in Workers : \A k \in 1..Len(Q[v]) :
         (v = w /\ k = 1) \/ \E i \in 1..Len(R[v]) : R[v][i] = Q[v][k]
  <2> SUFFICES ASSUME NEW k \in 1..Len(Q[w]), k # 1
               PROVE  \E i \in 1..Len(R[w]) : R[w][i] = Q[w][k]
    OBVIOUS
  <2>1. k - 1 \in 1..Len(R[w]) /\ (k - 1) + 1 = k
    BY DEF Taken
  <2> QED
    BY <2>1 DEF Taken
<1>3. 1 \in 1..Len(Q[w])
  BY DEF Taken
<1>4. QueuedOnce(R)
  <2> SUFFICES ASSUME NEW v \in Workers, NEW u \in Workers,
                      NEW i \in 1..Len(R[v]), NEW j \in 1..Len(R[u]),
                      R[v][i] = R[u][j]
               PROVE  v = u /\ i = j
    BY DEF QueuedOnce
  <2>1. /\ from(v, i) \in 1..Len(Q[v]) /\ from(u, j) \in 1..Len(Q[u])
        /\ Q[v][from(v, i)] = Q[u][from(u, j)]
    BY <1>1
  <2>2. v = u /\ from(v, i) = from(u, j)
    BY <2>1 DEF QueuedOnce
  <2> QED
    BY <2>2
<1>5. Q[w][1] \in Queued(Q)
  BY <1>3 DEF Queued
<1>6. Queued(Q) \ {Q[w][1]} \subseteq Queued(R)
  BY <1>2, SMTT(30) DEF Queued
<1>7. Queued(R) \subseteq Queued(Q)
  BY <1>1 DEF Queued
<1>8. Q[w][1] \notin Queued(R)
  <2> SUFFICES ASSUME NEW v \in Workers, NEW i \in 1..Len(R[v]), R[v][i] = Q[w][1]
               PROVE  FALSE
    BY DEF Queued
  <2>1. from(v, i) \in 1..Len(Q[v]) /\ Q[v][from(v, i)] = Q[w][1]
    BY <1>1
  <2>2. v = w /\ from(v, i) = 1
    BY <2>1, <1>3 DEF QueuedOnce
  <2> QED
    BY <2>2
<1> QED
  BY <1>4, <1>5, <1>6, <1>7, <1>8

-----------------------------------------------------------------------------
(* The invariant holds initially and is preserved by every action.         *)

\* Nothing is allocated yet.
LEMMA InitIInv == Init => IInv
<1> SUFFICES ASSUME Init PROVE IInv
  OBVIOUS
<1> USE DEF Init
<1>1. <<>> \in Seq(Payloads) /\ Len(<<>>) = 0
  BY EmptySeq
<1>2. TypeOK
  BY <1>1 DEF TypeOK
<1>3. ~fault /\ PollerInv
  BY DEF PollerInv
<1>4. InHand = {} /\ InPoll = {}
  BY NoPayloadAssumption DEF InHand, InPoll
<1>5. Queued(sendq) = {} /\ Queued(recvq) = {} /\ QueuedOnce(sendq) /\ QueuedOnce(recvq)
  BY <1>1 DEF Queued, QueuedOnce
<1> QED
  BY <1>2, <1>3, <1>4, <1>5 DEF IInv, HeldInv, OnceInv, ApartInv

\* InitGrpcPayload(): a fresh address goes to a worker that held none.
LEMMA InitGrpcPayloadStep ==
    ASSUME IInv, NEW w \in Workers, InitGrpcPayload(w)
    PROVE  IInv'
<1>1. PICK p \in Payloads \ heap :
         /\ heap' = heap \cup {p} /\ local' = [local EXCEPT ![w] = p]
         /\ local[w] = NoPayload
         /\ UNCHANGED <<worker, sendq, recvq, poller, polled, ctx, fault>>
  BY DEF InitGrpcPayload
<1>2. TypeOK'
  BY <1>1 DEF IInv, TypeOK
<1>3. ~fault'
  BY <1>1 DEF IInv
<1>4. PollerInv'
  BY <1>1 DEF IInv, PollerInv
<1>5. InHand' = InHand \cup {p}
  BY <1>1, NoPayloadAssumption DEF IInv, TypeOK, InHand
<1>6. /\ Queued(sendq)' = Queued(sendq) /\ Queued(recvq)' = Queued(recvq)
      /\ InPoll' = InPoll
      /\ QueuedOnce(sendq)' /\ QueuedOnce(recvq)'
  BY <1>1 DEF IInv, OnceInv, Queued, QueuedOnce, InPoll
<1>7. p \notin InHand
  BY <1>1 DEF IInv, HeldInv
<1>8. OnceInv'
  BY <1>1, <1>6, <1>7 DEF IInv, TypeOK, OnceInv, InHand
<1>9. HeldInv' /\ ApartInv'
  BY <1>1, <1>5, <1>6 DEF IInv, HeldInv, ApartInv
<1> QED
  BY <1>2, <1>3, <1>4, <1>8, <1>9 DEF IInv

\* A worker's pload goes out of its hands, and nowhere else changes.
LEMMA LocalCleared ==
    ASSUME IInv, NEW w \in Workers, local[w] # NoPayload,
           local' = [local EXCEPT ![w] = NoPayload]
    PROVE  /\ local[w] \in InHand
           /\ InHand' = InHand \ {local[w]}
           /\ local' \in [Workers -> Payloads \cup {NoPayload}]
           /\ \A u, v \in Workers : local'[u] = local'[v] /\ local'[u] # NoPayload => u = v
  BY NoPayloadAssumption DEF IInv, TypeOK, OnceInv, InHand

\* send(dontwait) took the message: the pointer moves to the queue.
LEMMA SendAcceptedStep ==
    ASSUME IInv, NEW w \in Workers, SendAccepted(w)
    PROVE  IInv'
<1> DEFINE p == local[w]
<1>1. /\ p # NoPayload
      /\ sendq' = [sendq EXCEPT ![w] = Append(@, p)]
      /\ local' = [local EXCEPT ![w] = NoPayload]
      /\ UNCHANGED <<heap, worker, recvq, poller, polled, ctx, fault>>
  BY DEF SendAccepted
<1>2. /\ p \in InHand /\ InHand' = InHand \ {p}
      /\ local' \in [Workers -> Payloads \cup {NoPayload}]
      /\ \A u, v \in Workers : local'[u] = local'[v] /\ local'[u] # NoPayload => u = v
  BY <1>1, LocalCleared
<1>3. p \in Payloads /\ p \notin Queued(sendq)
  BY <1>2 DEF IInv, ApartInv, InHand
<1>4. /\ sendq' \in [Workers -> Seq(Payloads)]
      /\ QueuedOnce(sendq')
      /\ Queued(sendq') = Queued(sendq) \cup {p}
  <2>1. sendq \in [Workers -> Seq(Payloads)] /\ QueuedOnce(sendq)
    BY DEF IInv, TypeOK, OnceInv
  <2>2. Append(sendq[w], p) \in Seq(Payloads) /\ Appended(sendq[w], p, Append(sendq[w], p))
    BY <1>3, <2>1, AppendAppends
  <2>3. /\ sendq' \in [Workers -> Seq(Payloads)]
        /\ Appended(sendq[w], p, sendq'[w])
        /\ \A v \in Workers : v # w => sendq'[v] = sendq[v]
    BY <1>1, <2>1, <2>2
  <2>4. \A R : Appended(sendq[w], p, R[w]) /\ (\A v \in Workers : v # w => R[v] = sendq[v])
               => QueuedOnce(R) /\ Queued(R) = Queued(sendq) \cup {p}
    BY <1>3, <2>1, AppendQueued
  <2> QED
    BY <2>3, <2>4
<1>5. Queued(recvq)' = Queued(recvq) /\ QueuedOnce(recvq)' /\ InPoll' = InPoll
  BY <1>1 DEF IInv, OnceInv, Queued, QueuedOnce, InPoll
<1>6. TypeOK'
  BY <1>1, <1>2, <1>4 DEF IInv, TypeOK
<1>7. ~fault'
  BY <1>1 DEF IInv
<1>8. PollerInv'
  BY <1>1 DEF IInv, PollerInv
<1>9. OnceInv'
  BY <1>2, <1>4, <1>5 DEF OnceInv
<1>10. HeldInv' /\ ApartInv'
  BY <1>1, <1>2, <1>4, <1>5, ZenonT(30) DEF IInv, HeldInv, ApartInv
<1> QED
  BY <1>6, <1>7, <1>8, <1>9, <1>10 DEF IInv

\* The send was refused: the pointer is freed where it was.
LEMMA SendRefusedStep ==
    ASSUME IInv, NEW w \in Workers, SendRefused(w)
    PROVE  IInv'
<1> DEFINE p == local[w]
<1>1. /\ p # NoPayload
      /\ heap' = heap \ {p} /\ fault' = (fault \/ p \notin heap)
      /\ local' = [local EXCEPT ![w] = NoPayload]
      /\ UNCHANGED <<worker, sendq, recvq, poller, polled, ctx>>
  BY DEF SendRefused, FreePayload
<1>2. /\ p \in InHand /\ InHand' = InHand \ {p}
      /\ local' \in [Workers -> Payloads \cup {NoPayload}]
      /\ \A u, v \in Workers : local'[u] = local'[v] /\ local'[u] # NoPayload => u = v
  BY <1>1, LocalCleared
<1>3. p \in heap
  BY <1>2 DEF IInv, HeldInv
<1>4. /\ Queued(sendq)' = Queued(sendq) /\ Queued(recvq)' = Queued(recvq)
      /\ InPoll' = InPoll
      /\ QueuedOnce(sendq)' /\ QueuedOnce(recvq)'
  BY <1>1 DEF IInv, OnceInv, Queued, QueuedOnce, InPoll
<1>5. ~fault'
  BY <1>1, <1>3 DEF IInv
<1>6. TypeOK'
  BY <1>1, <1>2, <1>5 DEF IInv, TypeOK
<1>7. PollerInv'
  BY <1>1 DEF IInv, PollerInv
<1>8. OnceInv'
  BY <1>2, <1>4 DEF OnceInv
<1>9. HeldInv' /\ ApartInv'
  BY <1>1, <1>2, <1>4 DEF IInv, HeldInv, ApartInv
<1> QED
  BY <1>5, <1>6, <1>7, <1>8, <1>9 DEF IInv

\* ZeroMQ moves the oldest message of a socket to the PULL side.
LEMMA TransferStep ==
    ASSUME IInv, NEW w \in Workers, Transfer(w)
    PROVE  IInv'
<1> DEFINE p == Head(sendq[w])
<1>1. /\ sendq[w] # <<>>
      /\ sendq' = [sendq EXCEPT ![w] = Tail(@)]
      /\ recvq' = [recvq EXCEPT ![w] = Append(@, p)]
      /\ UNCHANGED <<heap, worker, local, poller, polled, ctx, fault>>
  BY DEF Transfer
<1>2. /\ sendq' \in [Workers -> Seq(Payloads)]
      /\ QueuedOnce(sendq')
      /\ p \in Queued(sendq)
      /\ Queued(sendq') = Queued(sendq) \ {p}
  <2>1. sendq \in [Workers -> Seq(Payloads)] /\ QueuedOnce(sendq)
    BY DEF IInv, TypeOK, OnceInv
  <2>2. /\ Tail(sendq[w]) \in Seq(Payloads) /\ Taken(sendq[w], Tail(sendq[w]))
        /\ p = sendq[w][1] /\ p \in Payloads
    BY <1>1, <2>1, TailTakes
  <2>3. /\ sendq' \in [Workers -> Seq(Payloads)]
        /\ Taken(sendq[w], sendq'[w])
        /\ \A v \in Workers : v # w => sendq'[v] = sendq[v]
    BY <1>1, <2>1, <2>2
  <2>4. \A R : Taken(sendq[w], R[w]) /\ (\A v \in Workers : v # w => R[v] = sendq[v])
               => QueuedOnce(R) /\ p \in Queued(sendq) /\ Queued(R) = Queued(sendq) \ {p}
    BY <2>1, <2>2, TakeQueued
  <2> QED
    BY <2>3, <2>4
<1>3. p \in Payloads /\ p \notin Queued(recvq)
  BY <1>2 DEF IInv, ApartInv, Queued
<1>4. /\ recvq' \in [Workers -> Seq(Payloads)]
      /\ QueuedOnce(recvq')
      /\ Queued(recvq') = Queued(recvq) \cup {p}
  <2>1. recvq \in [Workers -> Seq(Payloads)] /\ QueuedOnce(recvq)
    BY DEF IInv, TypeOK, OnceInv
  <2>2. Append(recvq[w], p) \in Seq(Payloads) /\ Appended(recvq[w], p, Append(recvq[w], p))
    BY <1>3, <2>1, AppendAppends
  <2>3. /\ recvq' \in [Workers -> Seq(Payloads)]
        /\ Appended(recvq[w], p, recvq'[w])
        /\ \A v \in Workers : v # w => recvq'[v] = recvq[v]
    BY <1>1, <2>1, <2>2
  <2>4. \A R : Appended(recvq[w], p, R[w]) /\ (\A v \in Workers : v # w => R[v] = recvq[v])
               => QueuedOnce(R) /\ Queued(R) = Queued(recvq) \cup {p}
    BY <1>3, <2>1, AppendQueued
  <2> QED
    BY <2>3, <2>4
<1>5. InHand' = InHand /\ InPoll' = InPoll
  BY <1>1 DEF InHand, InPoll
<1>6. TypeOK'
  BY <1>1, <1>2, <1>4 DEF IInv, TypeOK
<1>7. ~fault'
  BY <1>1 DEF IInv
<1>8. PollerInv'
  BY <1>1 DEF IInv, PollerInv
<1>9. OnceInv'
  BY <1>1, <1>2, <1>4 DEF IInv, OnceInv
<1>10. HeldInv' /\ ApartInv'
  BY <1>1, <1>2, <1>4, <1>5, ZenonT(30) DEF IInv, HeldInv, ApartInv
<1> QED
  BY <1>6, <1>7, <1>8, <1>9, <1>10 DEF IInv

\* recv(): the oldest message of one connection becomes pload.
LEMMA RecvStep ==
    ASSUME IInv, NEW w \in Workers, Recv(w)
    PROVE  IInv'
<1> DEFINE p == Head(recvq[w])
<1>1. /\ poller = "recv" /\ poller' = "handle" /\ recvq[w] # <<>>
      /\ polled' = p
      /\ recvq' = [recvq EXCEPT ![w] = Tail(@)]
      /\ UNCHANGED <<heap, worker, local, sendq, ctx, fault>>
  BY DEF Recv
<1>2. /\ recvq' \in [Workers -> Seq(Payloads)]
      /\ QueuedOnce(recvq')
      /\ p \in Queued(recvq)
      /\ Queued(recvq') = Queued(recvq) \ {p}
  <2>1. recvq \in [Workers -> Seq(Payloads)] /\ QueuedOnce(recvq)
    BY DEF IInv, TypeOK, OnceInv
  <2>2. /\ Tail(recvq[w]) \in Seq(Payloads) /\ Taken(recvq[w], Tail(recvq[w]))
        /\ p = recvq[w][1] /\ p \in Payloads
    BY <1>1, <2>1, TailTakes
  <2>3. /\ recvq' \in [Workers -> Seq(Payloads)]
        /\ Taken(recvq[w], recvq'[w])
        /\ \A v \in Workers : v # w => recvq'[v] = recvq[v]
    BY <1>1, <2>1, <2>2
  <2>4. \A R : Taken(recvq[w], R[w]) /\ (\A v \in Workers : v # w => R[v] = recvq[v])
               => QueuedOnce(R) /\ p \in Queued(recvq) /\ Queued(R) = Queued(recvq) \ {p}
    BY <2>1, <2>2, TakeQueued
  <2> QED
    BY <2>3, <2>4
<1>3. p \in Payloads /\ p # NoPayload
  BY <1>2, NoPayloadAssumption DEF Queued
<1>4. InPoll = {} /\ InPoll' = {p}
  BY <1>1, <1>3, NoPayloadAssumption DEF IInv, PollerInv, InPoll
<1>5. InHand' = InHand /\ Queued(sendq)' = Queued(sendq) /\ QueuedOnce(sendq)'
  BY <1>1 DEF IInv, OnceInv, InHand, Queued, QueuedOnce
<1>6. TypeOK'
  BY <1>1, <1>2, <1>3 DEF IInv, TypeOK
<1>7. ~fault'
  BY <1>1 DEF IInv
<1>8. PollerInv'
  BY <1>1, <1>3 DEF PollerInv
<1>9. OnceInv'
  BY <1>1, <1>2, <1>5 DEF IInv, OnceInv
<1>10. HeldInv' /\ ApartInv'
  BY <1>1, <1>2, <1>4, <1>5 DEF IInv, HeldInv, ApartInv
<1> QED
  BY <1>6, <1>7, <1>8, <1>9, <1>10 DEF IInv

\* The payload is printed and freed, while ZmqPoller() holds it.
LEMMA PrintAndFreeStep ==
    ASSUME IInv, PrintAndFree
    PROVE  IInv'
<1>1. /\ poller = "handle" /\ poller' = "recv" /\ polled' = NoPayload
      /\ heap' = heap \ {polled} /\ fault' = (fault \/ polled \notin heap)
      /\ UNCHANGED <<worker, local, sendq, recvq, ctx>>
  BY DEF PrintAndFree, FreePayload
<1>2. InPoll = {polled} /\ InPoll' = {}
  BY <1>1, NoPayloadAssumption DEF IInv, TypeOK, PollerInv, InPoll
<1>3. polled \in heap
  BY <1>2 DEF IInv, HeldInv
<1>4. /\ InHand' = InHand
      /\ Queued(sendq)' = Queued(sendq) /\ Queued(recvq)' = Queued(recvq)
      /\ OnceInv'
  BY <1>1 DEF IInv, OnceInv, InHand, Queued, QueuedOnce
<1>5. ~fault'
  BY <1>1, <1>3 DEF IInv
<1>6. TypeOK'
  BY <1>1, <1>5 DEF IInv, TypeOK
<1>7. PollerInv'
  BY <1>1 DEF PollerInv
<1>8. HeldInv' /\ ApartInv'
  BY <1>1, <1>2, <1>4 DEF IInv, HeldInv, ApartInv
<1> QED
  BY <1>4, <1>5, <1>6, <1>7, <1>8 DEF IInv

\* The shutdown of either end moves no payload: a worker closes its socket and
\* its context, the watcher shuts the poller's context down, the poller ends.
LEMMA ShutdownSteps ==
    ASSUME IInv,
           \/ \E w \in Workers : LeaveLoop(w) \/ CloseCtx(w)
           \/ PollerEnds \/ ShutdownCtx \/ UNCHANGED vars
    PROVE  IInv'
<1>1. /\ UNCHANGED <<heap, local, sendq, recvq, polled, fault>>
      /\ worker' \in [Workers -> {"running", "closing", "ended"}]
      /\ ctx' \in {"up", "shutdown"}
      /\ poller' = poller \/ (poller = "recv" /\ poller' = "ended")
  BY DEF IInv, TypeOK, LeaveLoop, CloseCtx, PollerEnds, ShutdownCtx, vars
<1>2. TypeOK'
  BY <1>1 DEF IInv, TypeOK
<1>3. ~fault'
  BY <1>1 DEF IInv
<1>4. PollerInv'
  BY <1>1 DEF IInv, PollerInv
<1>5. HeldInv' /\ OnceInv' /\ ApartInv'
  BY <1>1 DEF IInv, HeldInv, OnceInv, ApartInv, InHand, Queued, InPoll, QueuedOnce
<1> QED
  BY <1>2, <1>3, <1>4, <1>5 DEF IInv

\* Every step keeps the invariant.
LEMMA NextIInv == IInv /\ [Next]_vars => IInv'
<1> SUFFICES ASSUME IInv, [Next]_vars PROVE IInv'
  OBVIOUS
<1>1. ASSUME NEW w \in Workers, InitGrpcPayload(w) PROVE IInv'
  BY <1>1, InitGrpcPayloadStep
<1>2. ASSUME NEW w \in Workers, SendAccepted(w) PROVE IInv'
  BY <1>2, SendAcceptedStep
<1>3. ASSUME NEW w \in Workers, SendRefused(w) PROVE IInv'
  BY <1>3, SendRefusedStep
<1>4. ASSUME NEW w \in Workers, LeaveLoop(w) \/ CloseCtx(w) PROVE IInv'
  BY <1>4, ShutdownSteps
<1>5. ASSUME NEW w \in Workers, Transfer(w) PROVE IInv'
  BY <1>5, TransferStep
<1>6. ASSUME NEW w \in Workers, Recv(w) PROVE IInv'
  BY <1>6, RecvStep
<1>7. CASE PrintAndFree
  BY <1>7, PrintAndFreeStep
<1>8. CASE PollerEnds \/ ShutdownCtx
  BY <1>8, ShutdownSteps
<1>9. CASE Ended \/ UNCHANGED vars
  BY <1>9, ShutdownSteps DEF Ended
<1> QED
  BY <1>1, <1>2, <1>3, <1>4, <1>5, <1>6, <1>7, <1>8, <1>9 DEF Next

-----------------------------------------------------------------------------
(* From the invariant to OneOwner.                                         *)

\* Places, kind by kind.
LEMMA PlaceKinds ==
    ASSUME IInv, NEW x
    PROVE  x \in Places <=>
              \/ \E w \in Workers : local[w] # NoPayload /\ x = <<"local", w, local[w]>>
              \/ \E w \in Workers : \E i \in 1..Len(sendq[w]) : x = <<"sendq", w, i, sendq[w][i]>>
              \/ \E w \in Workers : \E i \in 1..Len(recvq[w]) : x = <<"recvq", w, i, recvq[w][i]>>
              \/ polled # NoPayload /\ x = <<"polled", polled>>
<1> DEFINE inHand == {<<"local", w, local[w]>> : w \in {v \in Workers : local[v] # NoPayload}}
           inSend == UNION {{<<"sendq", w, i, sendq[w][i]>> : i \in DOMAIN sendq[w]} : w \in Workers}
           inRecv == UNION {{<<"recvq", w, i, recvq[w][i]>> : i \in DOMAIN recvq[w]} : w \in Workers}
           inPoll == IF polled = NoPayload THEN {} ELSE {<<"polled", polled>>}
<1>1. /\ \A w \in Workers : DOMAIN sendq[w] = 1..Len(sendq[w])
      /\ \A w \in Workers : DOMAIN recvq[w] = 1..Len(recvq[w])
  BY LenProperties DEF IInv, TypeOK
<1>2. x \in inHand <=> \E w \in Workers : local[w] # NoPayload /\ x = <<"local", w, local[w]>>
  OBVIOUS
<1>3. x \in inSend <=>
         \E w \in Workers : \E i \in 1..Len(sendq[w]) : x = <<"sendq", w, i, sendq[w][i]>>
  <2>1. x \in inSend <=>
           \E w \in Workers : \E i \in DOMAIN sendq[w] : x = <<"sendq", w, i, sendq[w][i]>>
    OBVIOUS
  <2> HIDE DEF inSend
  <2> QED
    BY <1>1, <2>1
<1>4. x \in inRecv <=>
         \E w \in Workers : \E i \in 1..Len(recvq[w]) : x = <<"recvq", w, i, recvq[w][i]>>
  <2>1. x \in inRecv <=>
           \E w \in Workers : \E i \in DOMAIN recvq[w] : x = <<"recvq", w, i, recvq[w][i]>>
    OBVIOUS
  <2> HIDE DEF inRecv
  <2> QED
    BY <1>1, <2>1
<1>5. x \in inPoll <=> polled # NoPayload /\ x = <<"polled", polled>>
  <2>1. CASE polled = NoPayload
    BY <2>1
  <2>2. CASE polled # NoPayload
    BY <2>2
  <2> QED
    BY <2>1, <2>2
<1>6. Places = inHand \cup inSend \cup inRecv \cup inPoll
  BY DEF Places
<1> HIDE DEF inHand, inSend, inRecv, inPoll
<1> QED
  BY <1>2, <1>3, <1>4, <1>5, <1>6

\* The four kinds of place, and the payload in each.
LEMMA PlaceForms ==
    ASSUME IInv
    PROVE  \A x \in Places :
              \/ \E w \in Workers :
                    /\ x = <<"local", w, local[w]>>
                    /\ x[Len(x)] = local[w] /\ local[w] \in InHand
              \/ \E w \in Workers : \E i \in 1..Len(sendq[w]) :
                    /\ x = <<"sendq", w, i, sendq[w][i]>>
                    /\ x[Len(x)] = sendq[w][i] /\ sendq[w][i] \in Queued(sendq)
              \/ \E w \in Workers : \E i \in 1..Len(recvq[w]) :
                    /\ x = <<"recvq", w, i, recvq[w][i]>>
                    /\ x[Len(x)] = recvq[w][i] /\ recvq[w][i] \in Queued(recvq)
              \/ /\ x = <<"polled", polled>>
                 /\ x[Len(x)] = polled /\ polled \in InPoll
<1> SUFFICES ASSUME NEW x \in Places
             PROVE  \/ \E w \in Workers :
                          /\ x = <<"local", w, local[w]>>
                          /\ x[Len(x)] = local[w] /\ local[w] \in InHand
                    \/ \E w \in Workers : \E i \in 1..Len(sendq[w]) :
                          /\ x = <<"sendq", w, i, sendq[w][i]>>
                          /\ x[Len(x)] = sendq[w][i] /\ sendq[w][i] \in Queued(sendq)
                    \/ \E w \in Workers : \E i \in 1..Len(recvq[w]) :
                          /\ x = <<"recvq", w, i, recvq[w][i]>>
                          /\ x[Len(x)] = recvq[w][i] /\ recvq[w][i] \in Queued(recvq)
                    \/ /\ x = <<"polled", polled>>
                       /\ x[Len(x)] = polled /\ polled \in InPoll
  OBVIOUS
<1>1. /\ \A w \in Workers : \A i \in 1..Len(sendq[w]) : sendq[w][i] \in Payloads
      /\ \A w \in Workers : \A i \in 1..Len(recvq[w]) : recvq[w][i] \in Payloads
  BY ElementOfSeq DEF IInv, TypeOK
<1>2. CASE \E w \in Workers : local[w] # NoPayload /\ x = <<"local", w, local[w]>>
  <2>1. PICK w \in Workers : local[w] # NoPayload /\ x = <<"local", w, local[w]>>
    BY <1>2
  <2>2. x[Len(x)] = local[w] /\ local[w] \in InHand
    BY <2>1 DEF IInv, TypeOK, InHand
  <2> QED
    BY <2>1, <2>2
<1>3. CASE \E w \in Workers : \E i \in 1..Len(sendq[w]) : x = <<"sendq", w, i, sendq[w][i]>>
  <2>1. PICK w \in Workers : \E i \in 1..Len(sendq[w]) : x = <<"sendq", w, i, sendq[w][i]>>
    BY <1>3
  <2>2. PICK i \in 1..Len(sendq[w]) : x = <<"sendq", w, i, sendq[w][i]>>
    BY <2>1
  <2>3. x[Len(x)] = sendq[w][i] /\ sendq[w][i] \in Queued(sendq)
    BY <1>1, <2>2 DEF Queued
  <2> QED
    BY <2>2, <2>3
<1>4. CASE \E w \in Workers : \E i \in 1..Len(recvq[w]) : x = <<"recvq", w, i, recvq[w][i]>>
  <2>1. PICK w \in Workers : \E i \in 1..Len(recvq[w]) : x = <<"recvq", w, i, recvq[w][i]>>
    BY <1>4
  <2>2. PICK i \in 1..Len(recvq[w]) : x = <<"recvq", w, i, recvq[w][i]>>
    BY <2>1
  <2>3. x[Len(x)] = recvq[w][i] /\ recvq[w][i] \in Queued(recvq)
    BY <1>1, <2>2 DEF Queued
  <2> QED
    BY <2>2, <2>3
<1>5. CASE polled # NoPayload /\ x = <<"polled", polled>>
  <2>1. x[Len(x)] = polled /\ polled \in InPoll
    BY <1>5 DEF IInv, TypeOK, InPoll
  <2> QED
    BY <1>5, <2>1
<1> QED
  BY <1>2, <1>3, <1>4, <1>5, PlaceKinds

\* No two places hold the same payload.
LEMMA PlacesApart ==
    ASSUME IInv, NEW x \in Places, NEW y \in Places, x[Len(x)] = y[Len(y)]
    PROVE  x = y
<1>1. CASE x[Len(x)] \in InHand
  <2>1. \E w \in Workers : x = <<"local", w, local[w]>> /\ x[Len(x)] = local[w]
    BY <1>1, PlaceForms DEF IInv, ApartInv
  <2>2. \E w \in Workers : y = <<"local", w, local[w]>> /\ y[Len(y)] = local[w]
    BY <1>1, PlaceForms DEF IInv, ApartInv
  <2> QED
    BY <1>1, <2>1, <2>2, NoPayloadAssumption DEF IInv, OnceInv, InHand
<1>2. CASE x[Len(x)] \in Queued(sendq)
  <2>1. \E w \in Workers : \E i \in 1..Len(sendq[w]) :
           x = <<"sendq", w, i, sendq[w][i]>> /\ x[Len(x)] = sendq[w][i]
    BY <1>2, PlaceForms DEF IInv, ApartInv
  <2>2. \E w \in Workers : \E i \in 1..Len(sendq[w]) :
           y = <<"sendq", w, i, sendq[w][i]>> /\ y[Len(y)] = sendq[w][i]
    BY <1>2, PlaceForms DEF IInv, ApartInv
  <2> QED
    BY <2>1, <2>2 DEF IInv, OnceInv, QueuedOnce
<1>3. CASE x[Len(x)] \in Queued(recvq)
  <2>1. \E w \in Workers : \E i \in 1..Len(recvq[w]) :
           x = <<"recvq", w, i, recvq[w][i]>> /\ x[Len(x)] = recvq[w][i]
    BY <1>3, PlaceForms DEF IInv, ApartInv
  <2>2. \E w \in Workers : \E i \in 1..Len(recvq[w]) :
           y = <<"recvq", w, i, recvq[w][i]>> /\ y[Len(y)] = recvq[w][i]
    BY <1>3, PlaceForms DEF IInv, ApartInv
  <2> QED
    BY <2>1, <2>2 DEF IInv, OnceInv, QueuedOnce
<1>4. CASE x[Len(x)] \in InPoll
  BY <1>4, PlaceForms DEF IInv, ApartInv
<1> QED
  BY <1>1, <1>2, <1>3, <1>4, PlaceForms

\* The payloads in the places are those the invariant speaks about.
LEMMA HeldIsHeap ==
    ASSUME IInv
    PROVE  Held = heap
<1>1. Held \subseteq heap
  BY PlaceForms DEF Held, IInv, HeldInv
<1>2. ASSUME NEW p \in InHand PROVE p \in Held
  <2>1. PICK w \in Workers : local[w] = p /\ p # NoPayload
    BY <1>2, NoPayloadAssumption DEF InHand
  <2>2. <<"local", w, p>> \in Places
    BY <2>1, PlaceKinds
  <2>3. <<"local", w, p>>[Len(<<"local", w, p>>)] = p
    OBVIOUS
  <2> QED
    BY <2>2, <2>3 DEF Held
<1>3. ASSUME NEW p \in Queued(sendq) PROVE p \in Held
  <2>1. PICK w \in Workers : \E i \in 1..Len(sendq[w]) : sendq[w][i] = p
    BY DEF Queued
  <2>2. PICK i \in 1..Len(sendq[w]) : sendq[w][i] = p
    BY <2>1
  <2>3. <<"sendq", w, i, p>> \in Places
    BY <2>2, PlaceKinds
  <2>4. <<"sendq", w, i, p>>[Len(<<"sendq", w, i, p>>)] = p
    OBVIOUS
  <2> QED
    BY <2>3, <2>4 DEF Held
<1>4. ASSUME NEW p \in Queued(recvq) PROVE p \in Held
  <2>1. PICK w \in Workers : \E i \in 1..Len(recvq[w]) : recvq[w][i] = p
    BY DEF Queued
  <2>2. PICK i \in 1..Len(recvq[w]) : recvq[w][i] = p
    BY <2>1
  <2>3. <<"recvq", w, i, p>> \in Places
    BY <2>2, PlaceKinds
  <2>4. <<"recvq", w, i, p>>[Len(<<"recvq", w, i, p>>)] = p
    OBVIOUS
  <2> QED
    BY <2>3, <2>4 DEF Held
<1>5. ASSUME NEW p \in InPoll PROVE p \in Held
  <2>1. <<"polled", p>> \in Places
    BY <1>5, NoPayloadAssumption, PlaceKinds DEF InPoll
  <2>2. <<"polled", p>>[Len(<<"polled", p>>)] = p
    OBVIOUS
  <2> QED
    BY <2>1, <2>2 DEF Held
<1> QED
  BY <1>1, <1>2, <1>3, <1>4, <1>5 DEF IInv, HeldInv

\* As many places as payloads.
LEMMA AsManyPlaces ==
    ASSUME IInv
    PROVE  Cardinality(Places) = Cardinality(heap)
<1> DEFINE payload == [x \in Places |-> x[Len(x)]]
<1>1. \A x \in Places : x[Len(x)] \in heap
  BY HeldIsHeap DEF Held
<1>2. \A p \in heap : \E x \in Places : x[Len(x)] = p
  BY HeldIsHeap DEF Held
<1>3. /\ payload \in [Places -> heap]
      /\ \A x \in Places : payload[x] = x[Len(x)]
  BY <1>1
<1> HIDE DEF payload
<1>4. payload \in Injection(Places, heap)
  <2>1. \A x, y \in Places : payload[x] = payload[y] => x = y
    BY <1>3, PlacesApart
  <2> QED
    BY <1>3, <2>1 DEF Injection, IsInjective
<1>5. payload \in Surjection(Places, heap)
  BY <1>2, <1>3 DEF Surjection
<1>6. IsFiniteSet(heap)
  BY PayloadsAssumption, FS_Subset DEF IInv, TypeOK
<1> QED
  BY <1>4, <1>5, <1>6, FS_Injection

-----------------------------------------------------------------------------
(* The theorems.                                                           *)

\* The inductive invariant holds in every reachable state.
THEOREM Invariant == Spec => []IInv
<1>1. Init => IInv
  BY InitIInv
<1>2. IInv /\ [Next]_vars => IInv'
  BY NextIInv
<1> QED
  BY <1>1, <1>2, PTL DEF Spec

\* zmq_delivery.cc never leaks, shares or touches a freed grpc_payload: every
\* allocated payload is in exactly one place, and what is in a place is
\* allocated, whatever the sends, the refusals and the order of the shutdown.
THEOREM EveryPayloadOwned == Spec => []OneOwner
<1>1. IInv => OneOwner
  BY HeldIsHeap, AsManyPlaces DEF OneOwner, IInv
<1> QED
  BY <1>1, Invariant, PTL
=============================================================================
