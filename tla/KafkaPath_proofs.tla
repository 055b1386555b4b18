-------------------------- MODULE KafkaPath_proofs --------------------------
(***************************************************************************)
(* Proofs about KafkaPath, for any vendors, queue size, row and message     *)
(* bounds: what became of every sequence number, when its opaque is freed,  *)
(* and that a message with data yields a payload.  SeqAccounted adds        *)
(* cardinalities up; the inductive invariant says instead that the five     *)
(* places a sequence number can be in are disjoint and cover 1..seq, and    *)
(* the sum follows.                                                         *)
(***************************************************************************)
EXTENDS KafkaPath, FiniteSetTheorems, SequenceTheorems, TLAPS

-----------------------------------------------------------------------------
(* The inductive invariant.                                                *)

Waiting  == IF pc = "send" THEN {seq} ELSE {}
Reports  == {r[1] : r \in reports}

\* Every number used is in one of the five places, ...
CoverInv == Waiting \cup inflight \cup Reports \cup acked \cup lost = 1..seq

\* ... in one only, ...
ApartInv ==
    /\ Waiting \cap inflight = {} /\ Waiting \cap Reports = {}
    /\ Waiting \cap acked = {} /\ Waiting \cap lost = {}
    /\ inflight \cap Reports = {} /\ inflight \cap acked = {} /\ inflight \cap lost = {}
    /\ Reports \cap acked = {} /\ Reports \cap lost = {}
    /\ acked \cap lost = {}

\* ... and has one report at most.
ReportInv == \A r, q \in reports : r[1] = q[1] => r = q

\* The opaques of the numbers whose fate is known are freed, once.
FreedInv == \A i \in 1..MaxSeq : freed[i] = IF i \in acked \cup lost THEN 1 ELSE 0

\* What the worker has left to send is bounded by what it was given.
BodiesInv ==
    /\ pc = "send" => bodies # <<>> /\ seq + Len(bodies) <= 2 * handled + 1
    /\ pc # "send" => seq + Len(bodies) <= 2 * handled

\* Between HandleMessage() and its return there is a message; one with data
\* has a body yet to be delivered, or one that took a number.
DataInv ==
    pc \in {"deliver", "send", "taken"} =>
        /\ msg \in Messages(vendor)
        /\ CarriesData(msg) => bodies # <<>> \/ seq > base
        /\ pc # "deliver" => seq > base

\* close() has waited for every report.
EndedInv == pc = "ended" => inflight = {} /\ reports = {}

IInv ==
    /\ TypeOK
    /\ CoverInv
    /\ ApartInv
    /\ ReportInv
    /\ FreedInv
    /\ BodiesInv
    /\ DataInv
    /\ EndedInv
-----------------------------------------------------------------------------
(* What a message is decoded into.                                         *)

\* The three kinds of body.
LEMMA BodyTypes ==
    /\ Empty \in Bodies
    /\ Raw \in Bodies
    /\ \A n \in 0..MaxRows : Json(n) \in Bodies
  BY BoundsAssumption DEF Empty, Raw, Json, Bodies

\* At most MaxRows rows are decoded.
LEMMA RowsDecoded ==
    ASSUME NEW rows \in BoundedSeq(BOOLEAN, MaxRows)
    PROVE  DecodedRows(rows) \in 0..MaxRows
<1>1. PICK n \in 0..MaxRows : rows \in [1..n -> BOOLEAN]
  BY DEF BoundedSeq, SeqOf
<1> DEFINE good == {i \in DOMAIN rows : \A j \in 1..i : rows[j]}
<1>2. n \in Nat /\ n <= MaxRows /\ good \in SUBSET (1..n)
  BY <1>1, BoundsAssumption
<1>3. IsFiniteSet(1..n) /\ Cardinality(1..n) = n
  BY <1>2, FS_Interval
<1>4. IsFiniteSet(good) /\ Cardinality(good) <= n
  BY <1>2, <1>3, FS_Subset
<1>5. Cardinality(good) \in Nat
  BY <1>4, FS_CardinalityType
<1> QED
  BY <1>2, <1>4, <1>5, BoundsAssumption DEF DecodedRows

\* One body, or none.
LEMMA OneBody ==
    ASSUME NEW b \in Bodies
    PROVE  <<b>> \in Seq(Bodies) /\ Len(<<b>>) = 1 /\ <<b>> # <<>>
  OBVIOUS

\* HandleMessage(): at most two payloads, and one at least when the message
\* carries data the worker is configured for.
LEMMA BodiesDecoded ==
    ASSUME vendor \in Vendors, cisco \in CiscoToggles, NEW m \in Messages(vendor)
    PROVE  /\ BodiesOf(m) \in Seq(Bodies)
           /\ Len(BodiesOf(m)) <= 2
           /\ CarriesData(m) => BodiesOf(m) # <<>>
<1> USE BodyTypes
<1>0. <<>> \in Seq(Bodies) /\ Len(<<>>) = 0
  BY EmptySeq
<1>00. 0 \in 0..MaxRows
  BY BoundsAssumption
<1>1. CASE vendor = "Cisco"
  <2>1. m \in [empty : BOOLEAN, parses : BOOLEAN, kv : BOOLEAN, gpb : BOOLEAN]
    BY <1>1 DEF Messages
  <2>2. BodiesOf(m) = CiscoBodies(m)
    BY <1>1 DEF BodiesOf
  <2>3. CASE m.empty
    BY <2>2, <2>3, <1>0, <1>1 DEF CiscoBodies, CarriesData
  <2>4. CASE ~m.empty /\ m.parses /\ m.kv
    BY <2>2, <2>4, <1>0, <1>00, <1>1, OneBody DEF CiscoBodies, CarriesData
  <2>5. CASE ~m.empty /\ m.parses /\ ~m.kv
    BY <2>2, <2>5, <1>0, <1>1, OneBody DEF CiscoBodies, CarriesData
  <2>6. CASE ~m.empty /\ ~m.parses
    BY <2>2, <2>6, <1>0, <1>1, OneBody DEF CiscoBodies, CarriesData
  <2> QED
    BY <2>1, <2>3, <2>4, <2>5, <2>6
<1>2. CASE vendor = "Juniper"
  <2>1. BodiesOf(m) = <<Empty>> \/ BodiesOf(m) = <<Json(0)>>
    BY <1>2 DEF BodiesOf, JuniperBodies
  <2>2. CASE BodiesOf(m) = <<Empty>>
    BY <2>2, OneBody
  <2>3. CASE BodiesOf(m) = <<Json(0)>>
    BY <2>3, <1>00, OneBody
  <2> QED
    BY <2>1, <2>2, <2>3
<1>3. CASE vendor = "Nokia"
  <2>1. BodiesOf(m) = <<Json(0)>>
    BY <1>3 DEF BodiesOf, NokiaBodies
  <2> QED
    BY <1>00, <2>1, OneBody
<1>4. CASE vendor = "Huawei"
  <2>1. m \in [empty : BOOLEAN, parses : BOOLEAN, openconfig : BOOLEAN,
               rows : BoundedSeq(BOOLEAN, MaxRows), json : BOOLEAN]
    BY <1>4 DEF Messages
  <2> DEFINE b == IF DecodedRows(m.rows) = 0 THEN Empty ELSE Json(DecodedRows(m.rows))
             first == IF ~m.empty /\ m.openconfig /\ m.parses THEN <<b>> ELSE <<>>
             second == IF m.json THEN <<Raw>> ELSE <<>>
  <2> HIDE DEF first, second
  <2>2. BodiesOf(m) = first \o second
    BY <1>4 DEF BodiesOf, HuaweiBodies, first, second
  <2>3. b \in Bodies
    BY <2>1, RowsDecoded
  <2> HIDE DEF b
  <2>4. /\ first \in Seq(Bodies)
        /\ Len(first) = 0 \/ Len(first) = 1
        /\ (~m.empty /\ m.openconfig /\ m.parses) => Len(first) = 1
    BY <1>0, <2>3, OneBody DEF first
  <2>5. second \in Seq(Bodies) /\ (Len(second) = 0 \/ Len(second) = 1) /\ (m.json => Len(second) = 1)
    BY <1>0, OneBody DEF second
  <2>7. first \o second \in Seq(Bodies) /\ Len(first \o second) = Len(first) + Len(second)
    BY <2>4, <2>5, ConcatProperties
  <2>8. BodiesOf(m) \in Seq(Bodies) /\ Len(BodiesOf(m)) = Len(first) + Len(second)
    BY <2>2, <2>7, Zenon
  <2>9. Len(BodiesOf(m)) <= 2
    <3>1. Len(first) = 0 \/ Len(first) = 1
      BY <2>4
    <3>2. Len(second) = 0 \/ Len(second) = 1
      BY <2>5
    <3> DEFINE p == Len(first)
               q == Len(second)
    <3>3. Len(BodiesOf(m)) = p + q
      BY <2>8
    <3>4. (p = 0 \/ p = 1) /\ (q = 0 \/ q = 1)
      BY <3>1, <3>2
    <3> HIDE DEF p, q
    <3>5. p + q <= 2
      BY <3>4
    <3> QED
      BY <3>3, <3>5
  <2>10. ASSUME CarriesData(m) PROVE Len(BodiesOf(m)) # 0
    <3>0. m.json \/ (~m.empty /\ m.parses /\ m.openconfig)
      BY <2>10, <1>4 DEF CarriesData
    <3>1. CASE m.json
      <4>1. Len(second) = 1
        BY <3>1, <2>5
      <4> QED
        BY <4>1, <2>4, <2>8
    <3>2. CASE ~m.empty /\ m.parses /\ m.openconfig
      <4>1. Len(first) = 1
        BY <3>2, <2>4
      <4> QED
        BY <4>1, <2>5, <2>8
    <3> QED
      BY <3>0, <3>1, <3>2
  <2>11. BodiesOf(m) = <<>> => Len(BodiesOf(m)) = 0
    BY <1>0
  <2> QED
    BY <2>8, <2>9, <2>10, <2>11
<1> QED
  BY <1>1, <1>2, <1>3, <1>4, VendorsAssumption

-----------------------------------------------------------------------------
(* Each step keeps the inductive invariant.                                *)

\* Whether a message carries data depends on the message and the worker's
\* configuration, which is fixed.
LEMMA SameData ==
    ASSUME UNCHANGED <<fixed, msg>>
    PROVE  CarriesData(msg)' <=> CarriesData(msg)
  BY DEF fixed, CarriesData

\* A worker that has used no number.
LEMMA InitIInv == Init => IInv
<1> SUFFICES ASSUME Init PROVE IInv
  OBVIOUS
<1> USE DEF Init
<1>1. 2 * MaxMsgs \in Nat
  BY BoundsAssumption
<1>2. <<>> \in Seq(Bodies) /\ Len(<<>>) = 0
  BY EmptySeq
<1>3. TypeOK
  BY <1>1, <1>2, BoundsAssumption DEF TypeOK, MaxSeq
<1>4. Waiting = {} /\ Reports = {} /\ 1..seq = {}
  BY DEF Waiting, Reports
<1>5. CoverInv /\ ApartInv /\ ReportInv
  BY <1>4 DEF CoverInv, ApartInv, ReportInv
<1>6. FreedInv
  BY DEF FreedInv
<1>7. BodiesInv
  BY <1>2 DEF BodiesInv
<1>8. DataInv /\ EndedInv
  BY DEF DataInv, EndedInv
<1> QED
  BY <1>3, <1>5, <1>6, <1>7, <1>8 DEF IInv

\* A step that uses no number and leaves the producer alone.
LEMMA NumbersKept ==
    ASSUME CoverInv, ApartInv, ReportInv, FreedInv,
           UNCHANGED <<seq, producer>>, Waiting' = Waiting
    PROVE  CoverInv' /\ ApartInv' /\ ReportInv' /\ FreedInv'
<1> USE DEF producer
<1>1. Reports' = Reports
  BY DEF Reports
<1>2. CoverInv'
  BY <1>1 DEF CoverInv
<1>3. ApartInv'
  BY <1>1 DEF ApartInv
<1>4. ReportInv'
  BY DEF ReportInv
<1>5. FreedInv'
  BY DEF FreedInv
<1> QED
  BY <1>2, <1>3, <1>4, <1>5

\* The reload's steps, and none.
LEMMA WorkerStill ==
    ASSUME IInv, UNCHANGED <<fixed, pc, msg, bodies, seq, base, producer, handled>>,
           reload' \in {"idle", "waiting", "holding"}
    PROVE  IInv'
<1> USE DEF IInv
<1>1. TypeOK'
  BY DEF TypeOK, fixed, producer
<1>2. Waiting' = Waiting
  BY DEF Waiting
<1>3. CoverInv' /\ ApartInv' /\ ReportInv' /\ FreedInv'
  BY <1>2, NumbersKept
<1>4. BodiesInv'
  BY DEF BodiesInv
<1>5. DataInv'
  BY SameData DEF DataInv, fixed
<1>6. EndedInv'
  BY DEF EndedInv, producer
<1> QED
  BY <1>1, <1>3, <1>4, <1>5, <1>6

\* HandleMessage(): the message and its bodies, none of which has a number yet.
LEMMA HandleMessageIInv == IInv /\ HandleMessage => IInv'
<1> SUFFICES ASSUME IInv, HandleMessage PROVE IInv'
  OBVIOUS
<1> USE DEF IInv
<1>1. PICK m \in Messages(vendor) : msg' = m /\ bodies' = BodiesOf(m)
  BY DEF HandleMessage
<1>2. vendor \in Vendors /\ cisco \in CiscoToggles /\ seq \in Nat /\ handled \in Nat
  BY BoundsAssumption DEF TypeOK
<1>3. /\ bodies' \in Seq(Bodies)
      /\ Len(bodies') <= 2
      /\ CarriesData(m) => bodies' # <<>>
  BY <1>1, <1>2, BodiesDecoded
<1>4. TypeOK'
  BY <1>1, <1>3, BoundsAssumption DEF TypeOK, HandleMessage, fixed, producer
<1>5. Waiting' = Waiting
  BY DEF Waiting, HandleMessage
<1>6. CoverInv' /\ ApartInv' /\ ReportInv' /\ FreedInv'
  BY <1>5, NumbersKept DEF HandleMessage
<1>7. BodiesInv'
  <2>1. seq + Len(bodies) <= 2 * handled /\ Len(bodies) \in Nat
    BY LenProperties DEF BodiesInv, HandleMessage, TypeOK
  <2>2. Len(bodies') \in Nat
    BY <1>3, LenProperties
  <2> QED
    BY <2>1, <2>2, <1>2, <1>3 DEF BodiesInv, HandleMessage
<1>8. DataInv'
  <2>1. CarriesData(msg)' <=> CarriesData(m)
    BY <1>1 DEF CarriesData, HandleMessage, fixed
  <2> QED
    BY <1>1, <1>3, <2>1 DEF DataInv, HandleMessage, fixed
<1>9. EndedInv'
  BY DEF EndedInv, HandleMessage
<1> QED
  BY <1>4, <1>6, <1>7, <1>8, <1>9

\* deliver_payload(): the number is new, and the message has a body for it.
LEMMA BuildEnvelopeIInv == IInv /\ BuildEnvelope => IInv'
<1> SUFFICES ASSUME IInv, BuildEnvelope PROVE IInv'
  OBVIOUS
<1> USE DEF IInv
<1>1. /\ seq \in Nat /\ handled \in Nat /\ handled <= MaxMsgs
      /\ bodies \in Seq(Bodies) /\ bodies # <<>>
  BY BoundsAssumption DEF TypeOK, BuildEnvelope
<1>2. Len(bodies) \in Nat /\ Len(bodies) >= 1
  BY <1>1, LenProperties, EmptySeq
<1>3. seq + Len(bodies) <= 2 * handled
  BY DEF BodiesInv, BuildEnvelope
<1>4. MaxSeq \in Nat /\ seq + 1 \in 0..MaxSeq
  BY <1>1, <1>2, <1>3, BoundsAssumption DEF MaxSeq
<1>5. 1..seq' = 1..seq \cup {seq + 1} /\ seq + 1 \notin 1..seq
  BY <1>1 DEF BuildEnvelope
<1>6. TypeOK'
  BY <1>1, <1>4, <1>5 DEF TypeOK, BuildEnvelope, fixed, producer
<1>7. Waiting = {} /\ Waiting' = {seq + 1} /\ Reports' = Reports
  BY DEF Waiting, Reports, BuildEnvelope, producer
<1>8. CoverInv'
  BY <1>5, <1>7 DEF CoverInv, BuildEnvelope, producer
<1>9. ApartInv'
  BY <1>5, <1>7 DEF CoverInv, ApartInv, BuildEnvelope, producer
<1>10. ReportInv' /\ FreedInv'
  BY DEF ReportInv, FreedInv, BuildEnvelope, producer
<1>11. BodiesInv'
  BY <1>1, <1>2, <1>3 DEF BodiesInv, BuildEnvelope
<1>12. DataInv'
  <2>1. base \in Nat /\ base <= seq
    BY <1>1 DEF TypeOK
  <2> QED
    BY <1>1, <2>1, SameData DEF DataInv, BuildEnvelope, fixed
<1>13. EndedInv'
  BY DEF EndedInv, BuildEnvelope
<1> QED
  BY <1>6, <1>8, <1>9, <1>10, <1>11, <1>12, <1>13

\* The worker has one body to send: it leaves the queue, which gets shorter.
LEMMA BodySent ==
    ASSUME TypeOK, CoverInv, BodiesInv, pc = "send", bodies' = Tail(bodies)
    PROVE  /\ bodies' \in Seq(Bodies)
           /\ Len(bodies') \in Nat /\ Len(bodies') <= 2
           /\ seq + Len(bodies') <= 2 * handled
           /\ seq \in 1..seq /\ seq \in Nat
<1>1. bodies \in Seq(Bodies) /\ bodies # <<>> /\ Len(bodies) <= 2
  BY DEF TypeOK, BodiesInv
<1>2. /\ Tail(bodies) \in Seq(Bodies)
      /\ Len(Tail(bodies)) = Len(bodies) - 1
      /\ Len(bodies) \in Nat /\ Len(bodies) >= 1
  BY <1>1, HeadTailProperties, LenProperties, EmptySeq
<1>3. seq + Len(bodies) <= 2 * handled + 1 /\ seq \in Nat /\ handled \in Nat
  BY BoundsAssumption DEF BodiesInv, TypeOK
<1>4. seq \in 1..seq
  BY DEF CoverInv, Waiting
<1>5. 2 * handled \in Nat
  BY <1>3
<1> QED
  BY <1>1, <1>2, <1>3, <1>4, <1>5

\* send(): the record is in the producer.
LEMMA SendTakenIInv == IInv /\ SendTaken => IInv'
<1> SUFFICES ASSUME IInv, SendTaken PROVE IInv'
  OBVIOUS
<1> USE DEF IInv
<1>1. /\ bodies' \in Seq(Bodies)
      /\ Len(bodies') \in Nat /\ Len(bodies') <= 2
      /\ seq + Len(bodies') <= 2 * handled
      /\ seq \in 1..seq /\ seq \in Nat
  BY BodySent DEF SendTaken
<1>2. TypeOK'
  BY <1>1 DEF TypeOK, SendTaken, fixed
<1>3. Waiting = {seq} /\ Waiting' = {} /\ Reports' = Reports
  BY DEF Waiting, Reports, SendTaken
<1>4. CoverInv'
  BY <1>3 DEF CoverInv, SendTaken
<1>5. ApartInv'
  BY <1>3 DEF ApartInv, SendTaken
<1>6. ReportInv' /\ FreedInv'
  BY DEF ReportInv, FreedInv, SendTaken
<1>7. BodiesInv'
  BY <1>1 DEF BodiesInv, SendTaken
<1>8. DataInv'
  BY SameData DEF DataInv, SendTaken, fixed
<1>9. EndedInv'
  BY DEF EndedInv, SendTaken
<1> QED
  BY <1>2, <1>4, <1>5, <1>6, <1>7, <1>8, <1>9

\* send() threw: the number is lost, and its opaque freed for the first time.
LEMMA SendThrowsIInv == IInv /\ SendThrows => IInv'
<1> SUFFICES ASSUME IInv, SendThrows PROVE IInv'
  OBVIOUS
<1> USE DEF IInv
<1>1. /\ bodies' \in Seq(Bodies)
      /\ Len(bodies') \in Nat /\ Len(bodies') <= 2
      /\ seq + Len(bodies') <= 2 * handled
      /\ seq \in 1..seq /\ seq \in Nat
  BY BodySent DEF SendThrows
<1>2. MaxSeq \in Nat /\ seq \in 1..MaxSeq
  BY <1>1, BoundsAssumption DEF TypeOK, MaxSeq
<1>3. freed' \in [1..MaxSeq -> Nat]
  <2>1. freed \in [1..MaxSeq -> Nat] /\ freed' = [freed EXCEPT ![seq] = @ + 1]
    BY DEF TypeOK, SendThrows
  <2> QED
    BY <1>2, <2>1
<1>4. TypeOK'
  BY <1>1, <1>3 DEF TypeOK, SendThrows, fixed
<1>5. Waiting = {seq} /\ Waiting' = {} /\ Reports' = Reports
  BY DEF Waiting, Reports, SendThrows
<1>6. CoverInv'
  BY <1>5 DEF CoverInv, SendThrows
<1>7. ApartInv'
  BY <1>5 DEF ApartInv, SendThrows
<1>8. ReportInv'
  BY DEF ReportInv, SendThrows
<1>9. FreedInv'
  <2>1. seq \notin acked \cup lost
    BY <1>5 DEF ApartInv
  <2>2. freed[seq] = 0
    BY <1>2, <2>1 DEF FreedInv
  <2> QED
    BY <1>2, <2>1, <2>2, SMTT(30) DEF FreedInv, SendThrows, TypeOK
<1>10. BodiesInv'
  BY <1>1 DEF BodiesInv, SendThrows
<1>11. DataInv'
  BY SameData DEF DataInv, SendThrows, fixed
<1>12. EndedInv'
  BY DEF EndedInv, SendThrows
<1> QED
  BY <1>4, <1>6, <1>7, <1>8, <1>9, <1>10, <1>11, <1>12

\* The other steps of the worker change nothing but where it is.
LEMMA WorkerMovesIInv ==
    IInv /\ (ReleaseOpaque \/ EndMessage \/ LeaveLoop \/ StopPolling) => IInv'
<1> SUFFICES ASSUME IInv, ReleaseOpaque \/ EndMessage \/ LeaveLoop \/ StopPolling
             PROVE  IInv'
  OBVIOUS
<1> USE DEF IInv, ReleaseOpaque, EndMessage, LeaveLoop, StopPolling
<1>1. TypeOK'
  BY DEF TypeOK, fixed, producer
<1>2. Waiting' = Waiting
  BY DEF Waiting
<1>3. CoverInv' /\ ApartInv' /\ ReportInv' /\ FreedInv'
  BY <1>2, NumbersKept
<1>4. BodiesInv'
  BY DEF BodiesInv
<1>5. DataInv'
  BY SameData DEF DataInv, fixed
<1>6. EndedInv'
  BY DEF EndedInv
<1> QED
  BY <1>1, <1>3, <1>4, <1>5, <1>6

\* The broker's answer, or the timeout: the record is reported.
LEMMA ReportedIInv ==
    ASSUME IInv, NEW i \in inflight, NEW outcome \in {"ok", "failed"}, Reported(i, outcome)
    PROVE  IInv'
<1> USE DEF IInv
<1>1. i \in 1..seq /\ seq \in Nat
  BY BoundsAssumption DEF TypeOK
<1>2. TypeOK'
  BY <1>1 DEF TypeOK, Reported, fixed
<1>3. Waiting' = Waiting
  BY DEF Waiting, Reported
<1>4. Reports' = Reports \cup {i}
  <2>1. <<i, outcome>>[1] = i
    OBVIOUS
  <2> QED
    BY <2>1 DEF Reports, Reported
<1>5. CoverInv'
  BY <1>3, <1>4 DEF CoverInv, Reported
<1>6. ApartInv'
  BY <1>3, <1>4 DEF ApartInv, Reported
<1>7. ReportInv'
  <2>1. \A r \in reports : r[1] # i
    BY DEF ApartInv, Reports
  <2> QED
    BY <2>1 DEF ReportInv, Reported
<1>8. FreedInv'
  BY DEF FreedInv, Reported
<1>9. BodiesInv'
  BY DEF BodiesInv, Reported
<1>10. DataInv'
  BY SameData DEF DataInv, Reported, fixed
<1>11. EndedInv'
  BY DEF EndedInv, Reported
<1> QED
  BY <1>2, <1>5, <1>6, <1>7, <1>8, <1>9, <1>10, <1>11

\* deliveryCallback(): the fate is known, and the opaque freed for the first time.
LEMMA ServeReportIInv == IInv /\ ServeReport => IInv'
<1> SUFFICES ASSUME IInv, ServeReport PROVE IInv'
  OBVIOUS
<1> USE DEF IInv
<1>1. PICK r \in reports :
        /\ reports' = reports \ {r}
        /\ IF r[2] = "ok" THEN acked' = acked \cup {r[1]} /\ UNCHANGED lost
                         ELSE lost' = lost \cup {r[1]} /\ UNCHANGED acked
        /\ freed' = [freed EXCEPT ![r[1]] = @ + 1]
        /\ UNCHANGED <<fixed, pc, msg, bodies, seq, base, inflight, handled, reload>>
  BY DEF ServeReport
<1> DEFINE n == r[1]
<1>2. n \in 1..seq /\ seq \in Nat /\ n \in Reports
  BY BoundsAssumption DEF TypeOK, Reports
<1>3. n \in 1..MaxSeq
  BY <1>2, BoundsAssumption DEF TypeOK, MaxSeq
<1>4. /\ reports' = reports \ {r}
      /\ \/ acked' = acked \cup {n} /\ lost' = lost
         \/ lost' = lost \cup {n} /\ acked' = acked
      /\ freed' = [freed EXCEPT ![n] = @ + 1]
      /\ UNCHANGED <<vendor, cisco, pc, msg, bodies, seq, base, inflight, handled, reload>>
  BY <1>1 DEF fixed
<1>5. Reports' = Reports \ {n}
  BY <1>4 DEF ReportInv, Reports
<1> HIDE DEF n
<1>6. freed' \in [1..MaxSeq -> Nat]
  BY <1>3, <1>4 DEF TypeOK
<1>7. TypeOK'
  BY <1>2, <1>4, <1>6 DEF TypeOK
<1>8. Waiting' = Waiting
  BY <1>4 DEF Waiting
<1>9. CoverInv'
  BY <1>2, <1>4, <1>5, <1>8 DEF CoverInv
<1>10. ApartInv'
  BY <1>2, <1>4, <1>5, <1>8 DEF ApartInv
<1>11. ReportInv'
  BY <1>4 DEF ReportInv
<1>12. FreedInv'
  <2>1. n \notin acked \cup lost
    BY <1>2 DEF ApartInv
  <2>2. freed[n] = 0
    BY <1>3, <2>1 DEF FreedInv
  <2>3. acked' \cup lost' = acked \cup lost \cup {n}
    BY <1>4
  <2> QED
    BY <1>3, <1>4, <2>1, <2>2, <2>3 DEF FreedInv, TypeOK
<1>13. BodiesInv'
  BY <1>4 DEF BodiesInv
<1>14. DataInv'
  BY <1>4, SameData DEF DataInv, fixed
<1>15. EndedInv'
  BY <1>4 DEF EndedInv
<1> QED
  BY <1>7, <1>9, <1>10, <1>11, <1>12, <1>13, <1>14, <1>15

\* close() returns when no record and no report is left.
LEMMA FlushIInv == IInv /\ Flush => IInv'
<1> SUFFICES ASSUME IInv, Flush, ~ServeReport PROVE IInv'
  BY ServeReportIInv
<1> USE DEF IInv
<1>1. /\ pc = "flushing" /\ inflight = {} /\ reports = {} /\ pc' = "ended"
      /\ UNCHANGED <<fixed, msg, bodies, seq, base, producer, handled, reload>>
  BY DEF Flush
<1>2. TypeOK'
  BY <1>1 DEF TypeOK, fixed, producer
<1>3. Waiting' = Waiting
  BY <1>1 DEF Waiting
<1>4. CoverInv' /\ ApartInv' /\ ReportInv' /\ FreedInv'
  BY <1>1, <1>3, NumbersKept
<1>5. BodiesInv'
  BY <1>1 DEF BodiesInv
<1>6. DataInv'
  BY <1>1 DEF DataInv
<1>7. EndedInv'
  BY <1>1 DEF EndedInv, producer
<1> QED
  BY <1>2, <1>4, <1>5, <1>6, <1>7

\* The inductive invariant is one.
LEMMA NextIInv == IInv /\ [Next]_vars => IInv'
<1> SUFFICES ASSUME IInv, [Next]_vars PROVE IInv'
  OBVIOUS
<1>1. CASE HandleMessage
  BY <1>1, HandleMessageIInv
<1>2. CASE InHandleMessage
  BY <1>2, BuildEnvelopeIInv, SendTakenIInv, SendThrowsIInv, WorkerMovesIInv DEF InHandleMessage
<1>3. CASE LeaveLoop \/ StopPolling
  BY <1>3, WorkerMovesIInv
<1>4. CASE Flush
  BY <1>4, FlushIInv
<1>5. CASE Broker
  BY <1>5, ReportedIInv DEF Broker, Acknowledged, Expired
<1>6. CASE Poll
  BY <1>6, ServeReportIInv DEF Poll
<1>7. CASE ReloadRequested \/ ReloadLocks \/ ReloadUnlocks
  BY <1>7, WorkerStill DEF ReloadRequested, ReloadLocks, ReloadUnlocks
<1>8. CASE UNCHANGED vars
  BY <1>8, WorkerStill DEF vars, IInv, TypeOK
<1> QED
  BY <1>1, <1>2, <1>3, <1>4, <1>5, <1>6, <1>7, <1>8 DEF Next


-----------------------------------------------------------------------------
(* The places add up.                                                      *)

\* A number has one report.
LEMMA OneReport ==
    ASSUME IInv
    PROVE  Cardinality(reports) = Cardinality(Reports)
<1> DEFINE number == [r \in reports |-> r[1]]
<1>1. /\ number \in [reports -> Reports]
      /\ \A r \in reports : number[r] = r[1]
  BY DEF Reports
<1>2. \A i \in Reports : \E r \in reports : r[1] = i
  BY DEF Reports
<1>3. \A r, q \in reports : r[1] = q[1] => r = q
  BY DEF IInv, ReportInv
<1> HIDE DEF number
<1>4. number \in Injection(reports, Reports)
  BY <1>1, <1>3 DEF Injection, IsInjective
<1>5. number \in Surjection(reports, Reports)
  BY <1>1, <1>2 DEF Surjection
<1>6. IsFiniteSet(Reports)
  <2>1. seq \in Nat
    BY BoundsAssumption DEF IInv, TypeOK
  <2>2. Reports \in SUBSET (1..seq)
    BY DEF IInv, CoverInv
  <2>3. IsFiniteSet(1..seq)
    BY <2>1, FS_Interval
  <2> QED
    BY <2>2, <2>3, FS_Subset
<1> QED
  BY <1>4, <1>5, <1>6, FS_Injection

\* Two sets without a common element.
LEMMA DisjointSum ==
    ASSUME NEW S, NEW T, IsFiniteSet(S), IsFiniteSet(T), S \cap T = {}
    PROVE  /\ IsFiniteSet(S \cup T)
           /\ Cardinality(S \cup T) = Cardinality(S) + Cardinality(T)
           /\ Cardinality(S) \in Nat /\ Cardinality(T) \in Nat
  BY FS_Union, FS_EmptySet, FS_CardinalityType, SMTT(30)

\* Disjoint places that cover 1..seq hold seq numbers.
LEMMA PlacesAddUp ==
    ASSUME IInv
    PROVE  Cardinality(Waiting) + Cardinality(inflight) + Cardinality(reports)
             + Cardinality(acked) + Cardinality(lost) = seq
<1> DEFINE A == Waiting \cup inflight
           B == A \cup Reports
           C == B \cup acked
<1>1. seq \in Nat /\ C \cup lost = 1..seq
  BY BoundsAssumption DEF IInv, TypeOK, CoverInv, MaxSeq
<1>2. /\ IsFiniteSet(Waiting) /\ IsFiniteSet(inflight) /\ IsFiniteSet(Reports)
      /\ IsFiniteSet(acked) /\ IsFiniteSet(lost)
      /\ Cardinality(1..seq) = seq
  <2>1. IsFiniteSet(1..seq) /\ Cardinality(1..seq) = seq
    BY <1>1, FS_Interval
  <2>2. \A S \in SUBSET (1..seq) : IsFiniteSet(S)
    BY <2>1, FS_Subset
  <2> QED
    BY <1>1, <2>1, <2>2
<1>3. /\ Waiting \cap inflight = {} /\ A \cap Reports = {} /\ B \cap acked = {}
      /\ C \cap lost = {}
  BY DEF IInv, ApartInv
<1>4. IsFiniteSet(A) /\ Cardinality(A) = Cardinality(Waiting) + Cardinality(inflight)
      /\ Cardinality(Waiting) \in Nat /\ Cardinality(inflight) \in Nat
  BY <1>2, <1>3, DisjointSum
<1> HIDE DEF A
<1>5. IsFiniteSet(B) /\ Cardinality(B) = Cardinality(A) + Cardinality(Reports)
      /\ Cardinality(Reports) \in Nat
  BY <1>2, <1>3, <1>4, DisjointSum
<1> HIDE DEF B
<1>6. IsFiniteSet(C) /\ Cardinality(C) = Cardinality(B) + Cardinality(acked)
      /\ Cardinality(acked) \in Nat
  BY <1>2, <1>3, <1>5, DisjointSum
<1> HIDE DEF C
<1>7. Cardinality(C \cup lost) = Cardinality(C) + Cardinality(lost)
      /\ Cardinality(lost) \in Nat
  BY <1>2, <1>3, <1>6, DisjointSum
<1>8. Cardinality(C) + Cardinality(lost) = seq
  BY <1>1, <1>2, <1>7
<1> QED
  BY <1>4, <1>5, <1>6, <1>7, <1>8, OneReport

-----------------------------------------------------------------------------
(* The theorems.                                                           *)

\* The inductive invariant holds in every reachable state.
THEOREM Invariant == Spec => []IInv
  BY InitIInv, NextIInv, PTL DEF Spec

\* Each sequence number of BuildEnvelope() is that of one payload, which waits
\* for send(), is in the producer, is reported, acknowledged or lost.
THEOREM NumbersAccounted == Spec => []SeqAccounted
<1>1. IInv => SeqAccounted
  <2> SUFFICES ASSUME IInv PROVE SeqAccounted
    OBVIOUS
  <2>1. TypeOK /\ Waiting \cup inflight \cup Reports \cup acked \cup lost = 1..seq
    BY DEF IInv, CoverInv
  <2> QED
    BY <2>1, PlacesAddUp DEF SeqAccounted, Waiting, Reports
<1> QED
  BY <1>1, Invariant, PTL

\* The opaque of a record is deleted by the callback or by the send() that
\* failed, by one of them and once, and close() leaves none behind.
THEOREM OpaqueNeverTwice == Spec => []OpaqueFreedOnce
<1>1. IInv => OpaqueFreedOnce
  <2> SUFFICES ASSUME IInv PROVE OpaqueFreedOnce
    OBVIOUS
  <2>1. \A i \in 1..MaxSeq : freed[i] = IF i \in acked \cup lost THEN 1 ELSE 0
    BY DEF IInv, FreedInv
  <2>2. ASSUME pc = "ended", NEW i \in 1..seq PROVE freed[i] = 1
    <3>1. Waiting = {} /\ inflight = {} /\ Reports = {}
      BY <2>2 DEF IInv, EndedInv, Waiting, Reports
    <3>2. i \in acked \cup lost
      BY <3>1 DEF IInv, CoverInv
    <3>3. i \in 1..MaxSeq
      BY BoundsAssumption DEF IInv, TypeOK, MaxSeq
    <3> QED
      BY <2>1, <3>2, <3>3
  <2> QED
    BY <2>1, <2>2 DEF OpaqueFreedOnce
<1> QED
  BY <1>1, Invariant, PTL

\* HandleMessage() does not return without a payload for a message with data.
THEOREM DataYieldsPayload == Spec => []DataIsDelivered
<1>1. IInv => DataIsDelivered
  BY DEF IInv, DataInv, DataIsDelivered
<1> QED
  BY <1>1, Invariant, PTL
=============================================================================
