----------------------------- MODULE KafkaPath -----------------------------
(***************************************************************************)
(* One worker on the Kafka path: XStream::HandleMessage() decodes a message *)
(* into payloads (core/mdt_dialout_core.cc, dataManipulation), each payload *)
(* gets an envelope with the worker's next sequence number and goes to the  *)
(* producer (dataDelivery/kafka_delivery.cc).  The label map is locked      *)
(* shared for the whole of HandleMessage(), so what the producer does to    *)
(* the worker it also does to a label-map reload, and through it to the     *)
(* signal watcher.                                                          *)
(*                                                                         *)
(* The producer is include/kafka's KafkaProducer, over librdkafka, which is *)
(* external: rd_kafka_produceva() blocks while the queue is full and fails  *)
(* on other errors; every record it takes gets one report, on               *)
(* acknowledgement or on message.timeout.ms, in any order, which waits for  *)
(* a poll, counts as queued until then, and runs deliveryCallback().  The   *)
(* producer's own thread polls until close() joins it; then the flush does. *)
(***************************************************************************)
EXTENDS Naturals, Sequences, FiniteSets, SequencesExt

CONSTANTS
    Vendors,    \* the kinds of worker, among Cisco, Juniper, Nokia, Huawei
    QueueMax,   \* queue.buffering.max.messages
    MaxRows,    \* bound: rows of a Huawei message
    MaxMsgs     \* bound: messages handled in one behaviour

ASSUME VendorsAssumption == Vendors \subseteq {"Cisco", "Juniper", "Nokia", "Huawei"}
ASSUME QueueMaxAssumption == QueueMax \in Nat \ {0}
ASSUME BoundsAssumption == MaxRows \in Nat /\ MaxMsgs \in Nat

VARIABLES
    vendor,     \* which HandleMessage() the worker runs
    cisco,      \* Context::cisco_gpbkv2json and cisco_msg_to_json
    pc,         \* the worker: loop, deliver, send, taken, closing, flushing, ended
    msg,        \* the message being handled
    bodies,     \* payload bodies HandleMessage() has yet to deliver
    seq,        \* DataManipulation::sequence_number
    base,       \* its value when HandleMessage() was entered
    inflight,   \* records the producer took and has no report of
    reports,    \* delivery reports waiting for a poll
    freed,      \* per sequence number: how often its DeliveryCbOpaque was deleted
    acked,      \* sequence numbers acknowledged by the broker
    lost,       \* sequence numbers whose record failed or was refused
    handled,    \* messages handled so far
    reload      \* ReloadLabelMaps(): idle, waiting for the lock, holding it

fixed    == <<vendor, cisco>>
producer == <<inflight, reports, freed, acked, lost>>
vars == <<fixed, pc, msg, bodies, seq, base, producer, handled, reload>>

MaxSeq == 2 * MaxMsgs       \* a Huawei message has two payloads

\* A body is empty, the bytes as received, or JSON holding some decoded rows.
Empty   == [kind |-> "empty", rows |-> 0]
Raw     == [kind |-> "raw", rows |-> 0]
Json(n) == [kind |-> "json", rows |-> n]
Bodies  == [kind : {"empty", "raw", "json"}, rows : 0..MaxRows]

\* What the decoders can tell apart in a message.  An empty Cisco or Huawei
\* data field parses, as a telemetry message without content.
Messages(v) ==
    CASE v = "Cisco"   -> {m \in [empty : BOOLEAN, parses : BOOLEAN, kv : BOOLEAN, gpb : BOOLEAN] :
                              m.empty => m.parses /\ ~m.kv /\ ~m.gpb}
      [] v = "Juniper" -> [headers : BoundedSeq({"other", "good", "bad"}, 2)]
      [] v = "Nokia"   -> [update : BOOLEAN]
      [] v = "Huawei"  -> {m \in [empty : BOOLEAN, parses : BOOLEAN, openconfig : BOOLEAN,
                                  rows : BoundedSeq(BOOLEAN, MaxRows), json : BOOLEAN] :
                              m.empty => m.parses /\ ~m.openconfig /\ m.rows = <<>>}

NoMessage == [none |-> TRUE]

\* lookup_data_manipulation_parameters() takes the two when their strings
\* differ: both may be other than "true", but not both "true".
CiscoToggles ==
    {c \in [gpbkv2json : BOOLEAN, msg_to_json : BOOLEAN] : ~(c.gpbkv2json /\ c.msg_to_json)}

TypeOK ==
    /\ vendor \in Vendors
    /\ cisco \in CiscoToggles
    /\ pc \in {"loop", "deliver", "send", "taken", "closing", "flushing", "ended"}
    /\ msg \in Messages(vendor) \cup {NoMessage}
    /\ bodies \in Seq(Bodies) /\ Len(bodies) <= 2
    /\ seq \in 0..MaxSeq /\ base \in 0..seq
    /\ inflight \in SUBSET (1..seq) /\ reports \in SUBSET ((1..seq) \X {"ok", "failed"})
    /\ freed \in [1..MaxSeq -> Nat]
    /\ acked \in SUBSET (1..seq) /\ lost \in SUBSET (1..seq)
    /\ handled \in 0..MaxMsgs
    /\ reload \in {"idle", "waiting", "holding"}

Init ==
    /\ vendor \in Vendors
    /\ cisco \in CiscoToggles
    /\ pc = "loop"
    /\ msg = NoMessage
    /\ bodies = <<>>
    /\ seq = 0 /\ base = 0
    /\ inflight = {} /\ reports = {} /\ freed = [i \in 1..MaxSeq |-> 0]
    /\ acked = {} /\ lost = {}
    /\ handled = 0
    /\ reload = "idle"

-----------------------------------------------------------------------------
(* The payload bodies a message is decoded into, in order.                 *)

\* Mutant: the branch without gpbkv2json was forgotten.
CiscoBodies_NoMsgToJson(m) ==
    IF m.empty \/ (m.parses /\ ~m.kv /\ ~m.gpb) \/ (m.parses /\ m.kv /\ ~cisco.gpbkv2json)
    THEN <<>>
    ELSE IF m.parses /\ m.kv THEN <<Json(0)>> ELSE <<Raw>>

\* GPB-KV becomes JSON, by CiscoGpbkv2Json() or MessageToJsonString(); GPB and
\* what does not parse (JSON) go out as they came; a header alone does not.
CiscoBodies(m) ==
    CASE m.empty -> <<>>
      [] ~m.empty /\ m.parses /\ m.kv ->
            IF cisco.gpbkv2json \/ cisco.msg_to_json THEN <<Json(0)>> ELSE <<>>
      [] ~m.empty /\ m.parses /\ ~m.kv -> IF m.gpb THEN <<Raw>> ELSE <<>>
      [] ~m.empty /\ ~m.parses -> <<Raw>>

\* JuniperExtension() stops at the first telemetry header that does not parse,
\* JuniperUpdate() is then skipped, and the empty string is delivered.
JuniperBodies(m) == IF Contains(m.headers, "bad") THEN <<Empty>> ELSE <<Json(0)>>

\* NokiaUpdate() always yields JSON.
NokiaBodies(m) == <<Json(0)>>

\* HuaweiGpbOpenconfigInterface() rewrites json_str_out after every row and
\* gives up at the first that does not parse: what was decoded so far is
\* delivered, the empty string when that is nothing.
DecodedRows(rows) == Cardinality({i \in DOMAIN rows : \A j \in 1..i : rows[j]})

HuaweiBodies(m) ==
    (IF ~m.empty /\ m.openconfig /\ m.parses
     THEN <<IF DecodedRows(m.rows) = 0 THEN Empty ELSE Json(DecodedRows(m.rows))>>
     ELSE <<>>)
    \o (IF m.json THEN <<Raw>> ELSE <<>>)

BodiesOf(m) ==
    CASE vendor = "Cisco"   -> CiscoBodies(m)
      [] vendor = "Juniper" -> JuniperBodies(m)
      [] vendor = "Nokia"   -> NokiaBodies(m)
      [] vendor = "Huawei"  -> HuaweiBodies(m)

-----------------------------------------------------------------------------
(* The worker.                                                             *)

Reading == pc \in {"deliver", "send", "taken"}    \* it holds label_map_mutex shared

HandleMessage ==
    /\ pc = "loop"
    /\ reload # "holding"
    /\ handled < MaxMsgs
    /\ \E m \in Messages(vendor) :
          /\ msg' = m
          /\ bodies' = BodiesOf(m)
    /\ base' = seq
    /\ handled' = handled + 1
    /\ pc' = "deliver"
    /\ UNCHANGED <<fixed, seq, producer, reload>>

\* deliver_payload(): the envelope takes the next sequence number.
BuildEnvelope ==
    /\ pc = "deliver"
    /\ bodies # <<>>
    /\ seq' = seq + 1
    /\ pc' = "send"
    /\ UNCHANGED <<fixed, msg, bodies, base, producer, handled, reload>>

\* AsyncKafkaProducer() -> send(): rd_kafka_produceva() waits for room, takes a
\* copy of the value and the pointer to the new DeliveryCbOpaque.
SendTaken ==
    /\ pc = "send"
    /\ Cardinality(inflight) + Cardinality(reports) < QueueMax
    /\ inflight' = inflight \cup {seq}
    /\ bodies' = Tail(bodies)
    /\ pc' = "taken"
    /\ UNCHANGED <<fixed, msg, seq, base, reports, freed, acked, lost, handled, reload>>

\* Mutant: the unique_ptr keeps the opaque and deletes it, too.
ReleaseOpaque_Keeps ==
    /\ pc = "taken"
    /\ freed' = [freed EXCEPT ![seq] = @ + 1]
    /\ pc' = "deliver"
    /\ UNCHANGED <<fixed, msg, bodies, seq, base, inflight, reports, acked, lost, handled, reload>>

\* deliveryCbOpaque.release(): by now the report may have been polled, and the
\* opaque deleted.
ReleaseOpaque ==
    /\ pc = "taken"
    /\ pc' = "deliver"
    /\ UNCHANGED <<fixed, msg, bodies, seq, base, producer, handled, reload>>

\* Mutant: the payload is kept for another attempt, with a new envelope.
SendThrows_Retries ==
    /\ pc = "send"
    /\ seq < MaxSeq
    /\ pc' = "deliver"
    /\ UNCHANGED <<fixed, msg, bodies, seq, base, producer, handled, reload>>

\* send() throws (unknown topic, message too large): the unique_ptr deletes the
\* opaque, the error is logged and the payload dropped.
SendThrows ==
    /\ pc = "send"
    /\ lost' = lost \cup {seq}
    /\ freed' = [freed EXCEPT ![seq] = @ + 1]
    /\ bodies' = Tail(bodies)
    /\ pc' = "deliver"
    /\ UNCHANGED <<fixed, msg, seq, base, inflight, reports, acked, handled, reload>>

EndMessage ==
    /\ pc = "deliver"
    /\ bodies = <<>>
    /\ msg' = NoMessage
    /\ pc' = "loop"
    /\ UNCHANGED <<fixed, bodies, seq, base, producer, handled, reload>>

\* The completion queue is shut down; RunFsm() returns to XFsmCtrl().
LeaveLoop ==
    /\ pc = "loop"
    /\ pc' = "closing"
    /\ UNCHANGED <<fixed, msg, bodies, seq, base, producer, handled, reload>>

\* ~VendorPlumbing() -> ~KafkaProducer() -> close(): the polling thread is joined.
StopPolling ==
    /\ pc = "closing"
    /\ pc' = "flushing"
    /\ UNCHANGED <<fixed, msg, bodies, seq, base, producer, handled, reload>>

-----------------------------------------------------------------------------
(* The broker (external), the polls, and the reload.                       *)

Reported(i, outcome) ==
    /\ inflight' = inflight \ {i}
    /\ reports' = reports \cup {<<i, outcome>>}
    /\ UNCHANGED <<fixed, pc, msg, bodies, seq, base, freed, acked, lost, handled, reload>>

Acknowledged(i) == Reported(i, "ok")

\* Mutant: message.timeout.ms is infinite.
Expired_Never(i) == FALSE /\ Reported(i, "failed")

\* message.timeout.ms, or a broker that refuses the record.
Expired(i) == Reported(i, "failed")

\* deliveryCallback(): the lambda logs the outcome, the opaque is deleted.
ServeReport ==
    \E r \in reports :
        /\ reports' = reports \ {r}
        /\ IF r[2] = "ok" THEN acked' = acked \cup {r[1]} /\ UNCHANGED lost
                         ELSE lost' = lost \cup {r[1]} /\ UNCHANGED acked
        /\ freed' = [freed EXCEPT ![r[1]] = @ + 1]
        /\ UNCHANGED <<fixed, pc, msg, bodies, seq, base, inflight, handled, reload>>

\* The polling thread.
Poll == pc \notin {"flushing", "ended"} /\ ServeReport

\* Mutant: the flush leaves the polling to the thread that is gone.
Flush_NoPolls ==
    /\ pc = "flushing"
    /\ inflight = {} /\ reports = {}
    /\ pc' = "ended"
    /\ UNCHANGED <<fixed, msg, bodies, seq, base, producer, handled, reload>>

\* close() flushes without a timeout, so that it never purges; the flush
\* returns when no record and no report is left.
Flush ==
    /\ pc = "flushing"
    /\ \/ ServeReport
       \/ /\ inflight = {} /\ reports = {}
          /\ pc' = "ended"
          /\ UNCHANGED <<fixed, msg, bodies, seq, base, producer, handled, reload>>

ReloadRequested ==
    /\ reload = "idle"
    /\ reload' = "waiting"
    /\ UNCHANGED <<fixed, pc, msg, bodies, seq, base, producer, handled>>

ReloadLocks ==
    /\ reload = "waiting"
    /\ ~Reading
    /\ reload' = "holding"
    /\ UNCHANGED <<fixed, pc, msg, bodies, seq, base, producer, handled>>

ReloadUnlocks ==
    /\ reload = "holding"
    /\ reload' = "idle"
    /\ UNCHANGED <<fixed, pc, msg, bodies, seq, base, producer, handled>>

InHandleMessage == BuildEnvelope \/ SendTaken \/ ReleaseOpaque \/ SendThrows \/ EndMessage

Broker == \E i \in inflight : Acknowledged(i) \/ Expired(i)

Next ==
    \/ HandleMessage \/ InHandleMessage \/ LeaveLoop \/ StopPolling \/ Flush
    \/ Broker \/ Poll
    \/ ReloadRequested \/ ReloadLocks \/ ReloadUnlocks

Spec == Init /\ [][Next]_vars

(***************************************************************************)
(* Fairness.  The worker, the polling thread and the watcher keep running,  *)
(* and every record is reported in the end.  No send() need throw and no    *)
(* record need be acknowledged: the broker may be down for ever.            *)
(***************************************************************************)
Fairness ==
    /\ WF_vars(BuildEnvelope \/ SendTaken \/ ReleaseOpaque \/ EndMessage)
    /\ WF_vars(StopPolling \/ Flush)
    /\ WF_vars(Poll)
    /\ WF_vars(\E i \in inflight : Expired(i))
    /\ WF_vars(ReloadLocks \/ ReloadUnlocks)

FairSpec == Spec /\ Fairness

-----------------------------------------------------------------------------
(* Properties.                                                             *)

\* Every sequence number the worker used is that of one payload, whose fate is
\* known: waiting to be sent, in the producer, acknowledged, or lost.  So a gap
\* in the numbers a consumer sees is a lost payload, and a number seen twice a
\* duplicate made by the broker, never by the worker.
SeqAccounted ==
    LET waiting  == IF pc = "send" THEN {seq} ELSE {}
        reported == {r[1] : r \in reports}
    IN  /\ TypeOK
        /\ waiting \cup inflight \cup reported \cup acked \cup lost = 1..seq
        /\ Cardinality(waiting) + Cardinality(inflight) + Cardinality(reports)
             + Cardinality(acked) + Cardinality(lost) = seq

\* The opaque of a record is deleted once: by the send() that failed or by the
\* callback, also when the callback runs before send() has returned.  A worker
\* that has ended leaves none behind, and no callback still to run: every
\* record's fate was logged before the Srv and the loggers go away.
OpaqueFreedOnce ==
    /\ \A i \in 1..MaxSeq : freed[i] = IF i \in acked \cup lost THEN 1 ELSE 0
    /\ pc = "ended" => \A i \in 1..seq : freed[i] = 1

\* A message that carries data the collector is configured for has produced at
\* least one payload when HandleMessage() returns.
CarriesData(m) ==
    CASE vendor = "Cisco"  ->
            ~m.empty /\ (~m.parses \/ IF m.kv THEN cisco.gpbkv2json \/ cisco.msg_to_json ELSE m.gpb)
      [] vendor = "Huawei" -> m.json \/ (~m.empty /\ m.parses /\ m.openconfig)
      [] OTHER             -> TRUE

DataIsDelivered ==
    pc = "deliver" /\ bodies = <<>> /\ CarriesData(msg) => seq > base

\* A reload, and with it the watcher, gets the lock even when no broker ever
\* answers: a full queue holds a worker in HandleMessage() only until its
\* records time out and the polling thread has run their callbacks.
ReloadProceeds == reload = "waiting" ~> reload = "holding"

\* A worker told to stop ends, broker or not: main() and stop() can join it.
CloseEnds == pc = "closing" ~> pc = "ended"
=============================================================================
