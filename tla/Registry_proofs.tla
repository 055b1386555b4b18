-------------------------- MODULE Registry_proofs --------------------------
(***************************************************************************)
(* Proofs about Registry: the part of the inductive invariant that both     *)
(* modes of the collector share, and one lemma per operation of the         *)
(* registry.  Bridge_proofs and Collector_proofs add what their threads do  *)
(* and conclude.  The sequences are vectors without duplicates, seen        *)
(* through the set of their members.                                        *)
(***************************************************************************)
EXTENDS Registry, FiniteSetTheorems, SequenceTheorems, TLAPS

-----------------------------------------------------------------------------
(* Vectors without duplicates.                                             *)

\* The empty vector, and only it, has no members.
LEMMA NoMembers ==
    ASSUME NEW S
    PROVE  /\ <<>> \in Seq(S) /\ IsInjective(<<>>) /\ ToSet(<<>>) = {}
           /\ \A q \in Seq(S) : ToSet(q) = {} => q = <<>>
<1>1. <<>> \in Seq(S) /\ IsInjective(<<>>) /\ ToSet(<<>>) = {}
  BY EmptySeq DEF IsInjective, ToSet
<1>2. ASSUME NEW q \in Seq(S), ToSet(q) = {} PROVE q = <<>>
  <2>1. DOMAIN q = 1..Len(q) /\ Len(q) \in Nat
    BY LenProperties
  <2>2. 1 \notin DOMAIN q
    BY <1>2 DEF ToSet
  <2>3. Len(q) = 0
    BY <2>1, <2>2
  <2> QED
    BY <2>3, EmptySeq
<1> QED
  BY <1>1, <1>2

\* A member is of the set the vector is over.
LEMMA MembersOf ==
    ASSUME NEW S, NEW q \in Seq(S)
    PROVE  ToSet(q) \subseteq S
  BY LenProperties, ElementOfSeq DEF ToSet

\* push_back() of a new element.
LEMMA Appended ==
    ASSUME NEW S, NEW q \in Seq(S), NEW e \in S, IsInjective(q), e \notin ToSet(q)
    PROVE  /\ Append(q, e) \in Seq(S)
           /\ IsInjective(Append(q, e))
           /\ ToSet(Append(q, e)) = ToSet(q) \cup {e}
<1> DEFINE r == Append(q, e)
<1>1. /\ r \in Seq(S) /\ Len(r) = Len(q) + 1
      /\ \A i \in 1..Len(q) : r[i] = q[i]
      /\ r[Len(q) + 1] = e
  BY AppendProperties
<1> HIDE DEF r
<1>2. DOMAIN q = 1..Len(q) /\ Len(q) \in Nat /\ DOMAIN r = 1..(Len(q) + 1)
  BY <1>1, LenProperties
<1>3. \A i \in DOMAIN r : i \in DOMAIN q \/ i = Len(q) + 1
  BY <1>2
<1>4. \A i \in DOMAIN q : i \in DOMAIN r /\ r[i] = q[i] /\ q[i] # e
  BY <1>1, <1>2 DEF ToSet
<1>5. Len(q) + 1 \in DOMAIN r
  BY <1>2
<1>6. IsInjective(r)
  BY <1>1, <1>3, <1>4 DEF IsInjective
<1>7. ToSet(r) = ToSet(q) \cup {e}
  BY <1>1, <1>3, <1>4, <1>5 DEF ToSet
<1> QED
  BY <1>1, <1>6, <1>7 DEF r

\* The first element is taken off.
LEMMA Tailed ==
    ASSUME NEW S, NEW q \in Seq(S), q # <<>>, IsInjective(q)
    PROVE  /\ Head(q) \in ToSet(q) /\ Head(q) \in S
           /\ Tail(q) \in Seq(S)
           /\ IsInjective(Tail(q))
           /\ ToSet(Tail(q)) = ToSet(q) \ {Head(q)}
<1> DEFINE r == Tail(q)
<1>1. /\ Head(q) \in S /\ Head(q) = q[1]
      /\ r \in Seq(S) /\ Len(r) = Len(q) - 1
      /\ \A i \in 1..Len(r) : r[i] = q[i + 1]
  BY HeadTailProperties
<1> HIDE DEF r
<1>2. /\ DOMAIN q = 1..Len(q) /\ Len(q) \in Nat /\ Len(q) >= 1
      /\ DOMAIN r = 1..(Len(q) - 1)
  BY <1>1, LenProperties, EmptySeq
<1>3. \A i \in DOMAIN r : i + 1 \in DOMAIN q /\ i + 1 # 1 /\ r[i] = q[i + 1]
  BY <1>1, <1>2
<1>4. 1 \in DOMAIN q
  BY <1>2
<1>5. \A i \in DOMAIN q : i = 1 \/ (i - 1 \in DOMAIN r /\ r[i - 1] = q[i])
  BY <1>1, <1>2
<1>6. IsInjective(r)
  <2> SUFFICES ASSUME NEW i \in DOMAIN r, NEW j \in DOMAIN r, r[i] = r[j] PROVE i = j
    BY DEF IsInjective
  <2>1. i + 1 = j + 1
    BY <1>3 DEF IsInjective
  <2> QED
    BY <1>2, <2>1
<1>7. ToSet(r) \subseteq ToSet(q) \ {Head(q)}
  <2>1. \A i \in DOMAIN r : r[i] = q[i + 1] /\ q[i + 1] # q[1] /\ i + 1 \in DOMAIN q
    BY <1>3, <1>4 DEF IsInjective
  <2> QED
    BY <1>1, <2>1 DEF ToSet
<1>8. ToSet(q) \ {Head(q)} \subseteq ToSet(r)
  BY <1>1, <1>5 DEF ToSet
<1> QED
  BY <1>1, <1>4, <1>6, <1>7, <1>8 DEF r, ToSet

\* std::find() and erase() of a member.
LEMMA Removed ==
    ASSUME NEW S, NEW q \in Seq(S), IsInjective(q), NEW e \in ToSet(q)
    PROVE  /\ RemoveFirst(q, e) \in Seq(S)
           /\ IsInjective(RemoveFirst(q, e))
           /\ ToSet(RemoveFirst(q, e)) = ToSet(q) \ {e}
<1>1. DOMAIN q = 1..Len(q) /\ Len(q) \in Nat
  BY LenProperties
<1>2. PICK k \in 1..Len(q) : q[k] = e
  BY <1>1 DEF ToSet
<1>3. {i \in 1..Len(q) : q[i] = e} = {k}
  BY <1>1, <1>2 DEF IsInjective
<1>4. Min({k}) = k
  BY <1>1 DEF Min
<1>5. RemoveFirst(q, e) = RemoveAt(q, k)
  BY <1>2, <1>3, <1>4 DEF RemoveFirst, SelectInSeq
<1> DEFINE r == RemoveAt(q, k)
           front == SubSeq(q, 1, k - 1)
           back == SubSeq(q, k + 1, Len(q))
<1>6. k \in Int /\ k >= 1 /\ k <= Len(q) /\ Len(q) \in Int
  BY <1>1
<1>7. /\ front \in Seq(S) /\ Len(front) = k - 1
      /\ \A i \in 1..(k - 1) : front[i] = q[i]
  <2>1. \A i \in 1..(k - 1) : q[i] \in S
    BY <1>6, ElementOfSeq
  <2>2. /\ front \in Seq(S) /\ Len(front) = IF 1 <= k - 1 THEN k - 1 - 1 + 1 ELSE 0
        /\ \A i \in 1..(k - 1 - 1 + 1) : front[i] = q[1 + i - 1]
    BY <1>6, <2>1, SubSeqProperties
  <2> QED
    BY <1>6, <2>2
<1>8. /\ back \in Seq(S) /\ Len(back) = Len(q) - k
      /\ \A i \in 1..(Len(q) - k) : back[i] = q[k + i]
  <2>1. \A i \in (k + 1)..Len(q) : q[i] \in S
    BY <1>6, ElementOfSeq
  <2>2. /\ back \in Seq(S) /\ Len(back) = IF k + 1 <= Len(q) THEN Len(q) - (k + 1) + 1 ELSE 0
        /\ \A i \in 1..(Len(q) - (k + 1) + 1) : back[i] = q[k + 1 + i - 1]
    BY <1>6, <2>1, SubSeqProperties
  <2> QED
    BY <1>6, <2>2
<1>9. r = front \o back
  BY DEF RemoveAt
<1> HIDE DEF r, front, back
<1>10. /\ r \in Seq(S) /\ Len(r) = Len(front) + Len(back)
       /\ \A i \in 1..(Len(front) + Len(back)) :
             r[i] = IF i <= Len(front) THEN front[i] ELSE back[i - Len(front)]
  BY <1>7, <1>8, <1>9, ConcatProperties
<1>11. DOMAIN r = 1..(Len(q) - 1)
  BY <1>6, <1>7, <1>8, <1>10, LenProperties
<1> DEFINE n == Len(q)
<1> HIDE DEF n
<1>12. n \in Int /\ k \in Int /\ k >= 1 /\ k <= n
  BY <1>6 DEF n
<1>13. Len(front) = k - 1 /\ Len(back) = n - k
  BY <1>7, <1>8 DEF n
<1>14. \A i \in 1..(k - 1 + (n - k)) : r[i] = IF i <= k - 1 THEN front[i] ELSE back[i - (k - 1)]
  BY <1>10, <1>13
<1>15. \A i \in 1..(n - k) : back[i] = q[k + i]
  BY <1>8 DEF n
<1>16. \A i \in 1..(n - 1) : r[i] = IF i < k THEN q[i] ELSE q[i + 1]
  <2> SUFFICES ASSUME NEW i \in 1..(n - 1)
               PROVE  r[i] = IF i < k THEN q[i] ELSE q[i + 1]
    OBVIOUS
  <2>1. CASE i < k
    BY <1>12, <1>7, <1>14, <2>1
  <2>2. CASE i >= k
    <3>1. i - (k - 1) \in 1..(n - k) /\ k + (i - (k - 1)) = i + 1
      BY <1>12, <2>2
    <3>2. r[i] = back[i - (k - 1)]
      BY <1>12, <1>14, <2>2
    <3>3. r[i] = q[i + 1]
      BY <1>15, <3>1, <3>2
    <3> QED
      BY <1>12, <2>2, <3>3
  <2> QED
    BY <1>12, <2>1, <2>2
<1>17. DOMAIN q = 1..n
  BY <1>1 DEF n
<1>18. r \in Seq(S)
  BY <1>10
<1>19. IsInjective(r)
  <2> SUFFICES ASSUME NEW i \in 1..(n - 1), NEW j \in 1..(n - 1), r[i] = r[j]
               PROVE  i = j
    BY <1>11 DEF IsInjective, n
  <2> QED
    BY <1>17, <1>12, <1>16 DEF IsInjective
<1>20. \A i \in 1..(n - 1) : r[i] \in ToSet(q) /\ r[i] # e
  BY <1>17, <1>2, <1>12, <1>16, SMTT(30) DEF ToSet, IsInjective
<1>21. \A i \in DOMAIN q : q[i] # e => \E j \in 1..(n - 1) : r[j] = q[i]
  <2> SUFFICES ASSUME NEW i \in DOMAIN q, q[i] # e
               PROVE  \E j \in 1..(n - 1) : r[j] = q[i]
    OBVIOUS
  <2>1. CASE i < k
    BY <1>17, <1>12, <1>16, <2>1
  <2>2. CASE i > k
    <3>1. i - 1 \in 1..(n - 1) /\ ~(i - 1 < k) /\ i - 1 + 1 = i
      BY <1>17, <1>12, <2>2
    <3> QED
      BY <1>16, <3>1
  <2> QED
    BY <1>17, <1>2, <1>12, <2>1, <2>2
<1>22. ToSet(r) = ToSet(q) \ {e}
  <2>1. DOMAIN r = 1..(n - 1)
    BY <1>11 DEF n
  <2>2. ASSUME NEW x \in ToSet(r) PROVE x \in ToSet(q) \ {e}
    BY <1>20, <2>1, <2>2 DEF ToSet
  <2>3. ASSUME NEW x \in ToSet(q), x # e PROVE x \in ToSet(r)
    BY <1>21, <2>1, <2>3 DEF ToSet
  <2> QED
    BY <2>2, <2>3
<1>23. RemoveFirst(q, e) = r
  BY <1>5 DEF r
<1> QED
  BY <1>23, <1>18, <1>19, <1>22

\* It is no longer than the set it is over.
LEMMA NoLonger ==
    ASSUME NEW S, IsFiniteSet(S), NEW q \in Seq(S), IsInjective(q)
    PROVE  Len(q) <= Cardinality(S)
<1>1. DOMAIN q = 1..Len(q) /\ Len(q) \in Nat /\ q \in [1..Len(q) -> S]
  BY LenProperties
<1>2. q \in Injection(1..Len(q), S)
  BY <1>1 DEF Injection, IsInjective
<1>3. Cardinality(1..Len(q)) <= Cardinality(S)
  BY <1>2, FS_Injection
<1>4. Cardinality(1..Len(q)) = Len(q)
  BY <1>1, FS_Interval, SMTT(30)
<1> QED
  BY <1>3, <1>4

-----------------------------------------------------------------------------
(* The inductive invariant.                                                *)

\* A Srv is shut down only after it registered, and RunFsm() returns only on
\* a Srv that is closed.
StopInv ==
    \A w \in Workers :
        /\ phase[w] \in {"none", "created"} => stop[w] = "no"
        /\ phase[w] \in {"exited", "unregistered", "destroyed"} => stop[w] = "closed"

\* An RPC is served by a Srv in its loop; closing waits for it.
SessionInv == \A w \in Workers : session[w] => phase[w] = "serving" /\ stop[w] # "closed"

\* A snapshot holds Srv that have registered, once each.
TodoInv ==
    \A t \in Stoppers :
        /\ IsInjective(todo[t])
        /\ \A w \in ToSet(todo[t]) : phase[w] \notin {"none", "created"}

\* A stopper in Server::Shutdown() drains the first Srv of its snapshot, which
\* no other stopper is draining.
InsideInv ==
    \A t \in Stoppers : sd[t] = "inside" =>
        /\ todo[t] # <<>>
        /\ stop[Head(todo[t])] = "draining"
        /\ \A u \in Stoppers \ {t} : sd[u] = "inside" => Head(todo[u]) # Head(todo[t])

RegistryInv ==
    /\ RegistryTypeOK
    /\ RegistryExact
    /\ StopInv
    /\ SessionInv
    /\ TodoInv
    /\ InsideInv

\* The workers that the registry should hold.
Listed == {w \in Workers : phase[w] \in {"registered", "serving", "exited"}}

-----------------------------------------------------------------------------
(* Each operation keeps it.                                                *)

\* No worker yet.
LEMMA RegistryStarts == RegistryInit => RegistryInv
<1> SUFFICES ASSUME RegistryInit PROVE RegistryInv
  OBVIOUS
<1> USE DEF RegistryInit
<1>1. /\ <<>> \in Seq(Workers) /\ IsInjective(<<>>) /\ ToSet(<<>>) = {}
      /\ Len(<<>>) = 0
  BY NoMembers, EmptySeq
<1>2. Cardinality(Workers) \in Nat
  BY WorkersAssumption, FS_CardinalityType
<1>3. RegistryTypeOK
  BY <1>1, <1>2 DEF RegistryTypeOK, Phases
<1>4. RegistryExact
  BY <1>1 DEF RegistryExact
<1>5. StopInv /\ SessionInv /\ InsideInv
  BY DEF StopInv, SessionInv, InsideInv
<1>6. TodoInv
  BY <1>1 DEF TodoInv
<1> QED
  BY <1>3, <1>4, <1>5, <1>6 DEF RegistryInv

\* The registry is exact when its vector follows the workers' phases.
LEMMA Exact ==
    ASSUME registry \in Seq(Workers), IsInjective(registry), ToSet(registry) = Listed
    PROVE  RegistryExact /\ Len(registry) <= Cardinality(Workers)
  BY WorkersAssumption, NoLonger DEF RegistryExact, Listed

\* A step that leaves the registry and the workers alone.
LEMMA RegistryKept ==
    ASSUME RegistryInv, UNCHANGED <<phase, stop, session, registry, todo, sd>>,
           fault' \in {"none", "abort", "dangling", "exit"}
    PROVE  RegistryInv'
<1>1. RegistryTypeOK'
  BY DEF RegistryInv, RegistryTypeOK
<1>2. RegistryExact'
  BY DEF RegistryInv, RegistryExact
<1>3. StopInv' /\ SessionInv'
  BY DEF RegistryInv, StopInv, SessionInv
<1>4. TodoInv' /\ InsideInv'
  BY DEF RegistryInv, TodoInv, InsideInv
<1> QED
  BY <1>1, <1>2, <1>3, <1>4 DEF RegistryInv

\* pthread_create() of a vendor thread.
LEMMA ThreadCreated ==
    ASSUME RegistryInv, NEW w \in Workers, phase[w] = "none",
           phase' = [phase EXCEPT ![w] = "created"],
           UNCHANGED <<stop, session, registry, todo, sd, fault>>
    PROVE  RegistryInv'
<1> USE DEF RegistryInv
<1>1. RegistryTypeOK'
  BY DEF RegistryTypeOK, Phases
<1>2. \A v \in Workers : phase'[v] = IF v = w THEN "created" ELSE phase[v]
  BY DEF RegistryTypeOK
<1>3. RegistryExact'
  BY <1>2 DEF RegistryExact
<1>4. StopInv' /\ SessionInv'
  BY <1>2 DEF StopInv, SessionInv
<1>5. TodoInv'
  <2> SUFFICES ASSUME NEW t \in Stoppers, NEW v \in ToSet(todo[t])
               PROVE  IsInjective(todo[t]) /\ phase'[v] \notin {"none", "created"}
    BY DEF TodoInv
  <2>1. v \in Workers
    BY MembersOf DEF RegistryTypeOK
  <2>2. phase[v] \notin {"none", "created"} /\ IsInjective(todo[t])
    BY DEF TodoInv
  <2> QED
    BY <1>2, <2>1, <2>2
<1>6. InsideInv'
  BY DEF InsideInv
<1> QED
  BY <1>1, <1>3, <1>4, <1>5, <1>6

\* A thread that called initiate_shutdown() before may call it again.
LEMMA ShutdownCalled ==
    ASSUME RegistryInv, NEW t \in Stoppers, sd[t] # "inside",
           sd' = [sd EXCEPT ![t] = "idle"],
           UNCHANGED <<phase, stop, session, registry, todo, fault>>
    PROVE  RegistryInv'
<1> USE DEF RegistryInv
<1>1. RegistryTypeOK'
  BY DEF RegistryTypeOK
<1>2. RegistryExact' /\ StopInv' /\ SessionInv' /\ TodoInv'
  BY DEF RegistryExact, StopInv, SessionInv, TodoInv
<1>3. \A u \in Stoppers : sd'[u] = "inside" => sd[u] = "inside"
  BY DEF RegistryTypeOK
<1>4. InsideInv'
  BY <1>3 DEF InsideInv
<1> QED
  BY <1>1, <1>2, <1>4

\* A worker moves on to a phase in which the registry lists it if it did
\* before, and no sooner than its Srv is stopped.
LEMMA WorkerMoves ==
    ASSUME RegistryInv, NEW w \in Workers, NEW p \in Phases \ {"none", "created"},
           phase[w] \notin {"none", "created"},
           phase' = [phase EXCEPT ![w] = p],
           phase[w] \in {"registered", "serving", "exited"}
               <=> p \in {"registered", "serving", "exited"},
           p \in {"exited", "unregistered", "destroyed"} => stop[w] = "closed",
           p = "serving" \/ ~session[w],
           UNCHANGED <<stop, session, registry, todo, sd>>,
           fault' = fault
    PROVE  RegistryInv'
<1> USE DEF RegistryInv
<1>1. RegistryTypeOK'
  BY DEF RegistryTypeOK
<1>2. \A v \in Workers : phase'[v] = IF v = w THEN p ELSE phase[v]
  BY DEF RegistryTypeOK
<1>3. RegistryExact'
  BY <1>2 DEF RegistryExact
<1>4. StopInv' /\ SessionInv'
  BY <1>2 DEF StopInv, SessionInv
<1>5. TodoInv'
  <2> SUFFICES ASSUME NEW t \in Stoppers
               PROVE  IsInjective(todo[t]) /\ \A v \in ToSet(todo[t]) : phase'[v] \notin {"none", "created"}
    BY DEF TodoInv
  <2>1. ToSet(todo[t]) \subseteq Workers
    BY MembersOf DEF RegistryTypeOK
  <2>2. IsInjective(todo[t]) /\ \A v \in ToSet(todo[t]) : phase[v] \notin {"none", "created"}
    BY DEF TodoInv
  <2> QED
    BY <1>2, <2>1, <2>2
<1>6. InsideInv'
  BY DEF InsideInv
<1> QED
  BY <1>1, <1>3, <1>4, <1>5, <1>6

\* register_server(): the Srv was not in the vector.
LEMMA RegisterKeeps ==
    ASSUME RegistryInv, NEW w \in Workers, Register(w)
    PROVE  RegistryInv'
<1> USE DEF RegistryInv
<1>1. phase[w] = "created" /\ registry \in Seq(Workers) /\ IsInjective(registry)
  BY DEF Register, RegistryExact, RegistryTypeOK
<1>2. ToSet(registry) = Listed /\ w \notin ToSet(registry)
  BY <1>1 DEF RegistryExact, Listed
<1>3. \A v \in Workers : phase'[v] = IF v = w THEN "registered" ELSE phase[v]
  BY DEF RegistryTypeOK, Register
<1>4. /\ registry' \in Seq(Workers) /\ IsInjective(registry')
      /\ ToSet(registry') = ToSet(registry) \cup {w}
  BY <1>1, <1>2, Appended DEF Register
<1>5. Listed' = Listed \cup {w}
  BY <1>3 DEF Listed
<1>6. Len(registry') <= Cardinality(Workers)
  BY <1>4, WorkersAssumption, NoLonger
<1>7. RegistryTypeOK'
  BY <1>4, <1>6 DEF RegistryTypeOK, Register, Phases
<1>8. RegistryExact'
  BY <1>2, <1>4, <1>5 DEF RegistryExact, Listed
<1>9. StopInv' /\ SessionInv'
  BY <1>1, <1>3 DEF StopInv, SessionInv, Register
<1>10. TodoInv'
  <2> SUFFICES ASSUME NEW t \in Stoppers
               PROVE  IsInjective(todo[t]) /\ \A v \in ToSet(todo[t]) : phase'[v] \notin {"none", "created"}
    BY DEF TodoInv, Register
  <2>1. ToSet(todo[t]) \subseteq Workers
    BY MembersOf DEF RegistryTypeOK
  <2>2. IsInjective(todo[t]) /\ \A v \in ToSet(todo[t]) : phase[v] \notin {"none", "created"}
    BY DEF TodoInv
  <2> QED
    BY <1>3, <2>1, <2>2
<1>11. InsideInv'
  BY DEF InsideInv, Register
<1> QED
  BY <1>7, <1>8, <1>9, <1>10, <1>11

\* The first Spawn(): on a closed completion queue the process aborts.
LEMMA ServeKeeps ==
    ASSUME RegistryInv, NEW w \in Workers, Serve(w)
    PROVE  RegistryInv'
<1>1. CASE UNCHANGED phase /\ fault' = "abort"
  BY <1>1, RegistryKept DEF Serve
<1>2. CASE phase' = [phase EXCEPT ![w] = "serving"] /\ UNCHANGED fault
  BY <1>2, WorkerMoves DEF Serve, Phases
<1> QED
  BY <1>1, <1>2 DEF Serve

\* RunFsm() returns on a closed Srv; no session is left.
LEMMA ExitKeeps ==
    ASSUME RegistryInv, NEW w \in Workers, Exit(w)
    PROVE  RegistryInv'
<1>1. ~session[w]
  BY DEF RegistryInv, SessionInv, Exit
<1> QED
  BY <1>1, WorkerMoves DEF Exit, Phases

\* unregister_server(): the Srv was in the vector, and is so no more.
LEMMA UnregisterKeeps ==
    ASSUME RegistryInv, NEW w \in Workers, Unregister(w)
    PROVE  RegistryInv'
<1> USE DEF RegistryInv
<1>1. phase[w] = "exited" /\ registry \in Seq(Workers) /\ IsInjective(registry)
  BY DEF Unregister, RegistryExact, RegistryTypeOK
<1>2. ToSet(registry) = Listed /\ w \in ToSet(registry)
  BY <1>1 DEF RegistryExact, Listed
<1>3. \A v \in Workers : phase'[v] = IF v = w THEN "unregistered" ELSE phase[v]
  BY DEF RegistryTypeOK, Unregister
<1>4. /\ registry' \in Seq(Workers) /\ IsInjective(registry')
      /\ ToSet(registry') = ToSet(registry) \ {w}
  BY <1>1, <1>2, Removed DEF Unregister
<1>5. Listed' = Listed \ {w}
  BY <1>3 DEF Listed
<1>6. Len(registry') <= Cardinality(Workers)
  BY <1>4, WorkersAssumption, NoLonger
<1>7. RegistryTypeOK'
  BY <1>4, <1>6 DEF RegistryTypeOK, Unregister, Phases
<1>8. RegistryExact'
  BY <1>2, <1>4, <1>5 DEF RegistryExact, Listed
<1>9. StopInv' /\ SessionInv'
  BY <1>1, <1>3 DEF StopInv, SessionInv, Unregister
<1>10. TodoInv'
  <2> SUFFICES ASSUME NEW t \in Stoppers
               PROVE  IsInjective(todo[t]) /\ \A v \in ToSet(todo[t]) : phase'[v] \notin {"none", "created"}
    BY DEF TodoInv, Unregister
  <2>1. ToSet(todo[t]) \subseteq Workers
    BY MembersOf DEF RegistryTypeOK
  <2>2. IsInjective(todo[t]) /\ \A v \in ToSet(todo[t]) : phase[v] \notin {"none", "created"}
    BY DEF TodoInv
  <2> QED
    BY <1>3, <2>1, <2>2
<1>11. InsideInv'
  BY DEF InsideInv, Unregister
<1> QED
  BY <1>7, <1>8, <1>9, <1>10, <1>11

\* ~Srv().
LEMMA DestroyKeeps ==
    ASSUME RegistryInv, NEW w \in Workers, Destroy(w)
    PROVE  RegistryInv'
<1>1. ~session[w] /\ stop[w] = "closed"
  BY DEF RegistryInv, SessionInv, StopInv, Destroy
<1> QED
  BY <1>1, WorkerMoves DEF Destroy, Phases

\* A worker thread's steps.
LEMMA WorkerStepKeeps ==
    ASSUME RegistryInv, NEW w \in Workers, WorkerStep(w)
    PROVE  RegistryInv'
  BY RegisterKeeps, ServeKeeps, ExitKeeps, UnregisterKeeps, DestroyKeeps DEF WorkerStep

\* An RPC begins on a serving Srv, and ends.
LEMMA SessionStepKeeps ==
    ASSUME RegistryInv, NEW w \in Workers, Open(w) \/ Dispose(w)
    PROVE  RegistryInv'
<1> USE DEF RegistryInv
<1>1. PICK b \in BOOLEAN : session' = [session EXCEPT ![w] = b]
  BY DEF Open, Dispose
<1>2. UNCHANGED <<phase, stop, registry, todo, sd, fault>>
  BY DEF Open, Dispose
<1>3. RegistryTypeOK'
  BY <1>1, <1>2 DEF RegistryTypeOK
<1>4. RegistryExact' /\ StopInv' /\ TodoInv' /\ InsideInv'
  BY <1>2 DEF RegistryExact, StopInv, TodoInv, InsideInv
<1>5. SessionInv'
  BY <1>2 DEF SessionInv, RegistryTypeOK, Open, Dispose
<1> QED
  BY <1>3, <1>4, <1>5

\* initiate_shutdown() copies the vector.
LEMMA SnapshotKeeps ==
    ASSUME RegistryInv, NEW t \in Stoppers, Snapshot(t)
    PROVE  RegistryInv'
<1> USE DEF RegistryInv
<1>1. registry \in Seq(Workers) /\ IsInjective(registry) /\ ToSet(registry) = Listed
  BY DEF RegistryTypeOK, RegistryExact, Listed
<1>2. RegistryTypeOK'
  BY <1>1 DEF RegistryTypeOK, Snapshot
<1>3. RegistryExact' /\ StopInv' /\ SessionInv'
  BY DEF RegistryExact, StopInv, SessionInv, Snapshot
<1>4. \A u \in Stoppers : todo'[u] = IF u = t THEN registry ELSE todo[u]
  BY DEF RegistryTypeOK, Snapshot
<1>5. TodoInv'
  <2> SUFFICES ASSUME NEW u \in Stoppers
               PROVE  /\ IsInjective(todo'[u])
                      /\ \A v \in ToSet(todo'[u]) : phase[v] \notin {"none", "created"}
    BY DEF TodoInv, Snapshot
  <2>1. CASE u = t
    BY <1>1, <1>4, <2>1 DEF Listed
  <2>2. CASE u # t
    BY <1>4, <2>2 DEF TodoInv
  <2> QED
    BY <2>1, <2>2
<1>6. \A u \in Stoppers : sd'[u] = "inside" => sd[u] = "inside" /\ u # t
  BY DEF RegistryTypeOK, Snapshot
<1>7. InsideInv'
  BY <1>4, <1>6 DEF InsideInv, Snapshot
<1> QED
  BY <1>2, <1>3, <1>5, <1>7

\* The next Srv of the snapshot.
LEMMA SnapshotAdvances ==
    ASSUME RegistryTypeOK, TodoInv, NEW t \in Stoppers, todo[t] # <<>>,
           todo' = [todo EXCEPT ![t] = Tail(@)], UNCHANGED phase
    PROVE  /\ todo' \in [Stoppers -> Seq(Workers)]
           /\ \A u \in Stoppers \ {t} : todo'[u] = todo[u]
           /\ todo'[t] = Tail(todo[t])
           /\ TodoInv'
<1>1. todo \in [Stoppers -> Seq(Workers)] /\ todo[t] \in Seq(Workers) /\ IsInjective(todo[t])
  BY DEF RegistryTypeOK, TodoInv
<1>2. /\ Tail(todo[t]) \in Seq(Workers) /\ IsInjective(Tail(todo[t]))
      /\ ToSet(Tail(todo[t])) = ToSet(todo[t]) \ {Head(todo[t])}
  BY <1>1, Tailed
<1>3. /\ todo' \in [Stoppers -> Seq(Workers)]
      /\ \A u \in Stoppers \ {t} : todo'[u] = todo[u]
      /\ todo'[t] = Tail(todo[t])
  BY <1>1, <1>2
<1>4. TodoInv'
  <2> SUFFICES ASSUME NEW u \in Stoppers
               PROVE  /\ IsInjective(todo'[u])
                      /\ \A v \in ToSet(todo'[u]) : phase[v] \notin {"none", "created"}
    BY DEF TodoInv
  <2>1. CASE u = t
    <3>1. IsInjective(todo'[u]) /\ ToSet(todo'[u]) \subseteq ToSet(todo[t])
      BY <1>2, <1>3, <2>1
    <3> QED
      BY <3>1 DEF TodoInv
  <2>2. CASE u # t
    BY <1>3, <2>2 DEF TodoInv
  <2> QED
    BY <2>1, <2>2
<1> QED
  BY <1>3, <1>4

\* Shutdown() of the next Srv begins, or does nothing, or finds it gone.
LEMMA EnterShutdownKeeps ==
    ASSUME RegistryInv, NEW t \in Stoppers, EnterShutdown(t)
    PROVE  RegistryInv'
<1> USE DEF RegistryInv
<1> DEFINE w == Head(todo[t])
<1>1. /\ todo[t] \in Seq(Workers) /\ todo[t] # <<>> /\ sd[t] = "next"
      /\ UNCHANGED <<phase, session, registry>>
  BY DEF EnterShutdown, RegistryTypeOK
<1>2. w \in Workers /\ w \in ToSet(todo[t])
  BY <1>1, Tailed DEF TodoInv
<1> HIDE DEF w
<1>3. CASE fault' = "dangling" /\ UNCHANGED <<stop, todo, sd>>
  BY <1>1, <1>3, RegistryKept
<1>4. CASE todo' = [todo EXCEPT ![t] = Tail(@)] /\ UNCHANGED <<stop, sd, fault>>
  <2>1. /\ todo' \in [Stoppers -> Seq(Workers)]
        /\ \A u \in Stoppers \ {t} : todo'[u] = todo[u]
        /\ TodoInv'
    BY <1>1, <1>4, SnapshotAdvances
  <2>2. RegistryTypeOK'
    BY <1>1, <1>4, <2>1 DEF RegistryTypeOK
  <2>3. RegistryExact' /\ StopInv' /\ SessionInv'
    BY <1>1, <1>4 DEF RegistryExact, StopInv, SessionInv
  <2>4. \A u \in Stoppers : sd[u] = "inside" => todo'[u] = todo[u]
    BY <1>1, <2>1
  <2>5. InsideInv'
    BY <1>4, <2>4, ZenonT(30) DEF InsideInv
  <2> QED
    BY <2>1, <2>2, <2>3, <2>5
<1>5. CASE /\ phase[w] # "destroyed" /\ stop[w] = "no"
           /\ stop' = [stop EXCEPT ![w] = "draining"]
           /\ sd' = [sd EXCEPT ![t] = "inside"]
           /\ UNCHANGED <<todo, fault>>
  <2>1. RegistryTypeOK'
    BY <1>1, <1>5 DEF RegistryTypeOK
  <2>2. \A v \in Workers : stop'[v] = IF v = w THEN "draining" ELSE stop[v]
    BY <1>5 DEF RegistryTypeOK
  <2>3. phase[w] \notin {"none", "created", "exited", "unregistered", "destroyed"}
    BY <1>2, <1>5 DEF TodoInv, StopInv
  <2>4. StopInv' /\ SessionInv'
    BY <1>1, <1>2, <2>2, <2>3 DEF StopInv, SessionInv
  <2>5. RegistryExact' /\ TodoInv'
    BY <1>1, <1>5 DEF RegistryExact, TodoInv
  <2>6. \A u \in Stoppers : sd'[u] = IF u = t THEN "inside" ELSE sd[u]
    BY <1>5 DEF RegistryTypeOK
  <2>7. \A u \in Stoppers \ {t} : sd[u] = "inside" =>
           todo[u] # <<>> /\ Head(todo[u]) # w /\ Head(todo[u]) \in Workers
    <3> SUFFICES ASSUME NEW u \in Stoppers \ {t}, sd[u] = "inside"
                 PROVE  todo[u] # <<>> /\ Head(todo[u]) # w /\ Head(todo[u]) \in Workers
      OBVIOUS
    <3>1. todo[u] # <<>> /\ stop[Head(todo[u])] = "draining" /\ todo[u] \in Seq(Workers)
      BY DEF InsideInv, RegistryTypeOK
    <3>2. Head(todo[u]) \in Workers
      BY <3>1, Tailed DEF TodoInv
    <3> QED
      BY <1>5, <3>1, <3>2
  <2>8. InsideInv'
    <3> SUFFICES ASSUME NEW u \in Stoppers, sd'[u] = "inside"
                 PROVE  /\ todo[u] # <<>>
                        /\ stop'[Head(todo[u])] = "draining"
                        /\ \A x \in Stoppers \ {u} : sd'[x] = "inside" => Head(todo[x]) # Head(todo[u])
      BY <1>5 DEF InsideInv
    <3>1. CASE u = t
      BY <1>1, <1>2, <2>2, <2>6, <2>7, <3>1 DEF w
    <3>2. CASE u # t
      BY <2>2, <2>6, <2>7, <3>2 DEF InsideInv, w
    <3> QED
      BY <3>1, <3>2
  <2> QED
    BY <2>1, <2>4, <2>5, <2>8
<1> QED
  BY <1>3, <1>4, <1>5 DEF EnterShutdown, w

\* Server::Shutdown() returned, and the Srv is closed.
LEMMA LeaveShutdownKeeps ==
    ASSUME RegistryInv, NEW t \in Stoppers, LeaveShutdown(t)
    PROVE  RegistryInv'
<1> USE DEF RegistryInv
<1> DEFINE w == Head(todo[t])
<1>1. /\ todo[t] \in Seq(Workers) /\ todo[t] # <<>> /\ stop[w] = "draining" /\ sd[t] = "inside"
  BY DEF LeaveShutdown, RegistryTypeOK, InsideInv
<1>2. w \in Workers /\ w \in ToSet(todo[t])
  BY <1>1, Tailed DEF TodoInv
<1> HIDE DEF w
<1>3. /\ ~session[w] /\ stop' = [stop EXCEPT ![w] = "closed"]
      /\ todo' = [todo EXCEPT ![t] = Tail(@)]
      /\ sd' = [sd EXCEPT ![t] = "next"]
      /\ UNCHANGED <<phase, session, registry, fault>>
  BY DEF LeaveShutdown, w
<1>4. /\ todo' \in [Stoppers -> Seq(Workers)]
      /\ \A u \in Stoppers \ {t} : todo'[u] = todo[u]
      /\ TodoInv'
  BY <1>1, <1>3, SnapshotAdvances
<1>5. RegistryTypeOK'
  BY <1>3, <1>4 DEF RegistryTypeOK
<1>6. \A v \in Workers : stop'[v] = IF v = w THEN "closed" ELSE stop[v]
  BY <1>3 DEF RegistryTypeOK
<1>7. StopInv' /\ SessionInv'
  BY <1>1, <1>2, <1>3, <1>6 DEF StopInv, SessionInv
<1>8. RegistryExact'
  BY <1>3 DEF RegistryExact
<1>9. \A u \in Stoppers : sd'[u] = "inside" => u # t /\ sd[u] = "inside" /\ todo'[u] = todo[u]
  BY <1>3, <1>4 DEF RegistryTypeOK
<1>10. InsideInv'
  <2> SUFFICES ASSUME NEW u \in Stoppers, sd'[u] = "inside"
               PROVE  /\ todo[u] # <<>>
                      /\ stop'[Head(todo[u])] = "draining"
                      /\ \A x \in Stoppers \ {u} : sd'[x] = "inside" => Head(todo[x]) # Head(todo[u])
    BY <1>9 DEF InsideInv
  <2>1. u # t /\ sd[u] = "inside" /\ todo[u] # <<>> /\ stop[Head(todo[u])] = "draining"
    BY <1>9 DEF InsideInv
  <2>2. Head(todo[u]) # w
    BY <1>1, <2>1 DEF InsideInv, w
  <2>3. todo[u] \in Seq(Workers) /\ IsInjective(todo[u])
    BY DEF RegistryTypeOK, TodoInv
  <2>4. Head(todo[u]) \in Workers
    BY <2>1, <2>3, Tailed
  <2> QED
    BY <1>6, <1>9, <2>1, <2>2, <2>4 DEF InsideInv
<1> QED
  BY <1>4, <1>5, <1>7, <1>8, <1>10

\* initiate_shutdown(), step by step.
LEMMA ShutdownStepKeeps ==
    ASSUME RegistryInv, NEW t \in Stoppers, Snapshot(t) \/ ShutdownStep(t)
    PROVE  RegistryInv'
<1>1. CASE ShutdownReturns(t)
  <2> USE DEF RegistryInv, ShutdownReturns
  <2>1. RegistryTypeOK'
    BY <1>1 DEF RegistryTypeOK
  <2>2. RegistryExact' /\ StopInv' /\ SessionInv' /\ TodoInv'
    BY <1>1 DEF RegistryExact, StopInv, SessionInv, TodoInv
  <2>3. \A u \in Stoppers : sd'[u] = "inside" => sd[u] = "inside"
    BY <1>1 DEF RegistryTypeOK
  <2>4. InsideInv'
    BY <1>1, <2>3 DEF InsideInv
  <2> QED
    BY <2>1, <2>2, <2>4
<1> QED
  BY <1>1, SnapshotKeeps, EnterShutdownKeeps, LeaveShutdownKeeps DEF ShutdownStep

-----------------------------------------------------------------------------
(* Each operation is a step of the contract of every Srv, or no step of it. *)

ContractOf(w) == Life(w)!Next \/ UNCHANGED Life(w)!vars

\* The Srv bound and registered by no one yet is in the contract's first state.
LEMMA ContractStarts == RegistryInit => \A w \in Workers : Life(w)!Init
  BY DEF RegistryInit, Life!Init, phaseBar, Aborted

\* The contract's view of a Srv while the process lives, ...
LEMMA LivingBar ==
    ASSUME NEW w \in Workers, fault # "abort"
    PROVE  phaseBar(w) = IF phase[w] \in {"none", "created"} THEN "binding"
                         ELSE IF phase[w] \in {"registered", "serving"} THEN phase[w]
                         ELSE "exited"
  BY DEF phaseBar, Aborted

\* ... after a step it survives, ...
LEMMA NextBar ==
    ASSUME NEW w \in Workers, fault' # "abort"
    PROVE  phaseBar(w)' = IF phase'[w] \in {"none", "created"} THEN "binding"
                          ELSE IF phase'[w] \in {"registered", "serving"} THEN phase'[w]
                          ELSE "exited"
  BY DEF phaseBar, Aborted

\* ... and once gRPC has aborted it.
LEMMA AbortedBar ==
    ASSUME NEW w \in Workers, fault' = "abort"
    PROVE  phaseBar(w)' = IF phase'[w] = "registered" /\ stop'[w] = "closed" THEN "aborted"
                          ELSE IF phase'[w] \in {"none", "created"} THEN "binding"
                          ELSE IF phase'[w] \in {"registered", "serving"} THEN phase'[w]
                          ELSE "exited"
  BY DEF phaseBar, Aborted

\* A step of somebody else.
LEMMA NotItsStep ==
    ASSUME NEW w \in Workers, fault # "abort", fault' # "abort",
           phase'[w] = phase[w], stop'[w] = stop[w], session'[w] = session[w]
    PROVE  ContractOf(w)
<1>1. phaseBar(w)' = phaseBar(w)
  BY LivingBar, NextBar
<1> QED
  BY <1>1 DEF ContractOf, Life!vars

\* A worker's own step.
LEMMA WorkerStepContract ==
    ASSUME RegistryInv, Alive, NEW w \in Workers, WorkerStep(w), NEW v \in Workers
    PROVE  ContractOf(v)
<1>1. fault # "abort" /\ fault = "none"
  BY DEF Alive
<1>2. /\ phase \in [Workers -> Phases]
      /\ phase[v] \in {"none", "created"} => stop[v] = "no"
      /\ phase[v] \in {"exited", "unregistered", "destroyed"} => stop[v] = "closed"
      /\ session[v] => phase[v] = "serving" /\ stop[v] # "closed"
      /\ session[v] \in BOOLEAN
  BY DEF RegistryInv, RegistryTypeOK, StopInv, SessionInv
<1>3. CASE Serve(w) /\ fault' = "abort"
  <2>1. phase' = phase /\ stop' = stop /\ session' = session
    BY <1>1, <1>2, <1>3 DEF Serve
  <2>2. CASE phase[v] = "registered" /\ stop[v] = "closed"
    BY <1>1, <1>3, <2>1, <2>2, LivingBar, AbortedBar DEF ContractOf, Life!Next, Life!Serve
  <2>3. CASE ~(phase[v] = "registered" /\ stop[v] = "closed")
    <3>1. phaseBar(v)' = phaseBar(v)
      BY <1>1, <1>3, <2>1, <2>3, LivingBar, AbortedBar
    <3> QED
      BY <2>1, <3>1 DEF ContractOf, Life!vars
  <2> QED
    BY <2>2, <2>3
<1>4. CASE fault' # "abort" /\ v # w
  BY <1>1, <1>2, <1>4, NotItsStep DEF WorkerStep, Register, Serve, Exit, Unregister, Destroy
<1>5. ASSUME fault' # "abort", v = w PROVE ContractOf(v)
  <2>1. stop'[v] = stop[v] /\ session'[v] = session[v]
    BY <1>5 DEF WorkerStep, Register, Serve, Exit, Unregister, Destroy
  <2>2. CASE Register(w)
    <3>1. phase[v] = "created" /\ phase'[v] = "registered"
      BY <1>2, <1>5, <2>2 DEF Register
    <3> QED
      BY <1>1, <1>5, <2>1, <3>1, LivingBar, NextBar DEF ContractOf, Life!Next, Life!Register
  <2>3. CASE Serve(w)
    <3>1. phase[v] = "registered" /\ phase'[v] = "serving" /\ stop[v] # "closed"
      BY <1>2, <1>5, <2>3 DEF Serve
    <3> QED
      BY <1>1, <1>5, <2>1, <3>1, LivingBar, NextBar DEF ContractOf, Life!Next, Life!Serve
  <2>4. CASE Exit(w)
    <3>1. phase[v] = "serving" /\ phase'[v] = "exited" /\ stop[v] = "closed"
      BY <1>2, <1>5, <2>4 DEF Exit
    <3> QED
      BY <1>1, <1>5, <2>1, <3>1, LivingBar, NextBar DEF ContractOf, Life!Next, Life!Exit
  <2>5. CASE Unregister(w) \/ Destroy(w)
    <3>1. phase[v] \in {"exited", "unregistered"} /\ phase'[v] \in {"unregistered", "destroyed"}
      BY <1>2, <1>5, <2>5 DEF Unregister, Destroy
    <3>2. phaseBar(v)' = phaseBar(v)
      BY <1>1, <1>5, <3>1, LivingBar, NextBar
    <3> QED
      BY <2>1, <3>2 DEF ContractOf, Life!vars
  <2> QED
    BY <2>2, <2>3, <2>4, <2>5 DEF WorkerStep
<1>6. fault' = "abort" => Serve(w)
  BY <1>1 DEF WorkerStep, Register, Exit, Unregister, Destroy
<1>7. CASE fault' = "abort"
  BY <1>3, <1>6, <1>7
<1>8. CASE fault' # "abort" /\ v = w
  BY <1>5, <1>8
<1> QED
  BY <1>4, <1>7, <1>8

\* A client's step.
LEMMA SessionStepContract ==
    ASSUME RegistryInv, Alive, NEW w \in Workers, Open(w) \/ Dispose(w), NEW v \in Workers
    PROVE  ContractOf(v)
<1>1. fault = "none" /\ fault' = "none" /\ phase' = phase /\ stop' = stop
  BY DEF Alive, Open, Dispose
<1>2. session \in [Workers -> BOOLEAN] /\ (session[v] => phase[v] = "serving")
  BY DEF RegistryInv, RegistryTypeOK, SessionInv
<1>3. CASE v # w
  BY <1>1, <1>2, <1>3, NotItsStep DEF Open, Dispose
<1>4. phaseBar(v)' = phaseBar(v) /\ (phase[v] = "serving" => phaseBar(v) = "serving")
  BY <1>1, LivingBar, NextBar
<1>5. CASE v = w /\ Open(w)
  <2>1. phase[v] = "serving" /\ stop[v] = "no" /\ session[v] = FALSE /\ session'[v] = TRUE
    BY <1>2, <1>5 DEF Open
  <2>2. Life(v)!Open(v)
    BY <1>1, <1>4, <2>1 DEF Life!Open
  <2> QED
    BY <2>2 DEF ContractOf, Life!Next
<1>6. CASE v = w /\ Dispose(w)
  <2>1. session[v] = TRUE /\ session'[v] = FALSE /\ phase[v] = "serving"
    BY <1>2, <1>6 DEF Dispose
  <2>2. Life(v)!Dispose(v)
    BY <1>1, <1>4, <2>1 DEF Life!Dispose
  <2> QED
    BY <2>2 DEF ContractOf, Life!Next
<1> QED
  BY <1>3, <1>5, <1>6

\* A stopper's step.
LEMMA ShutdownStepContract ==
    ASSUME RegistryInv, Alive, NEW t \in Stoppers, Snapshot(t) \/ ShutdownStep(t),
           NEW v \in Workers
    PROVE  ContractOf(v)
<1>1. fault = "none" /\ fault' # "abort" /\ phase' = phase /\ session' = session
  BY DEF Alive, Snapshot, ShutdownStep, EnterShutdown, LeaveShutdown, ShutdownReturns
<1>2. stop \in [Workers -> {"no", "draining", "closed"}] /\ phase[v] \in Phases
  BY DEF RegistryInv, RegistryTypeOK
<1>3. CASE stop'[v] = stop[v]
  BY <1>1, <1>3, NotItsStep
<1>4. phaseBar(v)' = phaseBar(v)
  BY <1>1, LivingBar, NextBar
<1>5. CASE stop'[v] # stop[v] /\ EnterShutdown(t)
  <2>1. todo[t] \in Seq(Workers) /\ todo[t] # <<>> /\ IsInjective(todo[t])
    BY <1>5 DEF RegistryInv, RegistryTypeOK, TodoInv, EnterShutdown
  <2>2. v = Head(todo[t]) /\ stop[v] = "no" /\ stop'[v] = "draining"
    BY <1>2, <1>5 DEF EnterShutdown
  <2>3. v \in ToSet(todo[t])
    BY <2>1, <2>2, Tailed
  <2>4. phase[v] \notin {"none", "created", "exited", "unregistered", "destroyed"}
    BY <2>2, <2>3 DEF RegistryInv, TodoInv, StopInv
  <2>5. phaseBar(v) \in {"registered", "serving"}
    BY <1>1, <1>2, <2>4, LivingBar DEF Phases
  <2>6. Life(v)!Drain
    BY <1>1, <1>4, <2>2, <2>5 DEF Life!Drain
  <2> QED
    BY <2>6 DEF ContractOf, Life!Next
<1>6. CASE stop'[v] # stop[v] /\ LeaveShutdown(t)
  <2>1. v = Head(todo[t]) /\ stop'[v] = "closed" /\ ~session[v]
    BY <1>2, <1>6 DEF LeaveShutdown
  <2>2. stop[v] = "draining"
    BY <1>6, <2>1 DEF RegistryInv, InsideInv, LeaveShutdown
  <2>3. Life(v)!Close
    BY <1>1, <1>4, <2>1, <2>2 DEF Life!Close
  <2> QED
    BY <2>3 DEF ContractOf, Life!Next
<1>7. CASE Snapshot(t) \/ ShutdownReturns(t)
  BY <1>3, <1>7 DEF Snapshot, ShutdownReturns
<1> QED
  BY <1>3, <1>5, <1>6, <1>7 DEF ShutdownStep
=============================================================================
