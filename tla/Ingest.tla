------------------------------- MODULE Ingest ------------------------------
(***************************************************************************)
(* From the bytes to the record: the label map is read from the file an     *)
(* operator wrote, and a message of a peer becomes the record that is       *)
(* delivered (mdt_dialout_collector.cc, core/mdt_dialout_core.cc and what   *)
(* they call).  The steps are those of main(), ReloadLabelMaps() and        *)
(* HandleMessage(); the parsing is in LabelMap and Decoders.  How the steps  *)
(* interleave is the subject of Collector and KafkaPath.                    *)
(***************************************************************************)
EXTENDS LabelMap, Decoders

CONSTANTS
    Files,          \* what operators write
    Rewrites,       \* the part of Files the file is rewritten with
    Inputs(_),      \* the peers and messages considered with a label file
    Characters,     \* the symbols of addresses, names and ports
    PortNumbers,    \* those std::stoi() takes as a number
    Places,         \* bound: the positions in a message that are looked at
    MaxMsgs         \* bound: messages handled

\* A line of a file is a line, and no text is what an out-of-bounds read yields.
ASSUME CharactersAssumption == {CR, LF, BOM, "GARBAGE"} \cap Characters = {}

Text == Seq(Characters)
Row  == [ip : Text, node : Text, platform : Text, full : BOOLEAN, mask : BOOLEAN]

\* Rows of text.  In a pretag map the address is not quoted, no address has a
\* "/" of its own, and no name a "%".
ASSUME FilesAssumption ==
    /\ Rewrites \subseteq Files
    /\ \A w \in Files :
        /\ w.style \in {"csv", "ptm"}
        /\ {w.crlf, w.lastbreak, w.bom, w.sentinel, w.blank} \subseteq BOOLEAN
        /\ w.rows \in Seq(Row)
        /\ w.style = "ptm" =>
              \A i \in DOMAIN w.rows :
                 /\ ToSet(w.rows[i].ip) \cap {" ", Quote, "/"} = {}
                 /\ "%" \notin ToSet(w.rows[i].node) \cup ToSet(w.rows[i].platform)

\* What gRPC puts into a peer: an IPv4 address in no brackets, an IPv6 address
\* in one pair, and the number of a port.
ASSUME InputsAssumption ==
    \A w \in Files : \A in \in Inputs(w) :
        /\ in = [peer |-> in.peer, message |-> in.message]
        /\ in.peer.family \in {"ipv4", "ipv6", "ipv6_enc", "unix"}
        /\ in.peer.address \in Text /\ in.peer.port \in Text
        /\ in.peer.family = "ipv4" /\ in.peer.address # <<>> => Head(in.peer.address) # "["
        /\ in.peer.family = "ipv6" => "]" \notin ToSet(in.peer.address)
        /\ in.peer.family # "unix" =>
              PortConverts(in.peer.port, PortNumbers) /\ ":" \notin ToSet(in.peer.port)

IsTypedValue(val) ==
    /\ val.kind \in {"scalar", "json", "json_ietf", "other"} /\ val.valid \in BOOLEAN
    /\ val.kind = "scalar" => val.json.t = "scalar"

\* What protobuf decodes a message into.
ASSUME MessagesAssumption ==
    LET messages == UNION {{in.message : in \in Inputs(w)} : w \in Files}
        cisco    == {m \in messages : m.kind = "cisco"}
    IN  /\ \A m \in messages : m.kind \in {"cisco", "juniper", "nokia", "raw"}
        /\ UNION {ToSet(m.rows) : m \in cisco} \subseteq Fields
        /\ \A m \in cisco : IsSequence(m.rows)
        /\ \A m \in messages : m.kind \in {"juniper", "nokia"} =>
              /\ IsSequence(m.updates)
              /\ \A i \in DOMAIN m.updates : IsSequence(m.updates[i].path) /\ IsTypedValue(m.updates[i].val)

ASSUME PlacesAssumption == Places \subseteq Seq(Nat \ {0})

VARIABLES
    file,       \* the label file, as it was written
    method,     \* Context::delivery: Kafka or Zmq
    labels,     \* label_map
    loaded,     \* the file label_map was read from
    pc,         \* start, serving, exited (std::exit) or crashed
    seq,        \* sequence_number of the worker's DataManipulation or DataWrapper
    input,      \* the last message handled with this file, and its peer
    payload     \* the record it was delivered as

vars == <<file, method, labels, loaded, pc, seq, input, payload>>

NoFile    == [style |-> "none"]
NoInput   == [none |-> TRUE]
NoPayload == [none |-> TRUE]

Init ==
    /\ file \in Files
    /\ method \in {"Kafka", "Zmq"}
    /\ labels = << >>
    /\ loaded = NoFile
    /\ pc = "start"
    /\ seq = 0
    /\ input = NoInput
    /\ payload = NoPayload

-----------------------------------------------------------------------------
(* What an operator writes: rows with an address and two names, in one of   *)
(* the two styles, with the editor's choice of line ends.                   *)

\* A quote inside quotes is written twice.
Doubled(cell) ==
    FlattenSeq([i \in DOMAIN cell |-> IF cell[i] = Quote THEN <<Quote, Quote>> ELSE <<cell[i]>>])

Quoted(cell, separator) ==
    IF {separator, Quote} \cap ToSet(cell) = {} THEN cell
    ELSE <<Quote>> \o Doubled(cell) \o <<Quote>>

CsvLine(r) ==
    Quoted(r.ip, ",") \o <<",">> \o Quoted(r.node, ",")
    \o (IF r.full THEN <<",">> \o Quoted(r.platform, ",") ELSE <<>>)

PtmLabel(node, platform) ==
    <<"set_label", "=", "nkey", "%">> \o node \o <<"%", "pkey", "%">> \o platform

PtmLabelOf(r) ==
    IF r.full THEN PtmLabel(r.node, r.platform) ELSE <<"set_label", "=">> \o r.platform

PtmAddress(r) == <<"ip", "=">> \o r.ip \o (IF r.mask THEN <<"/", "32">> ELSE <<>>)

PtmLine(r) == Quoted(PtmLabelOf(r), " ") \o <<" ">> \o PtmAddress(r)

Lines(w) ==
    [i \in DOMAIN w.rows |-> IF w.style = "csv" THEN CsvLine(w.rows[i]) ELSE PtmLine(w.rows[i])]
    \o (IF w.sentinel THEN <<PtmLabel(<<"unknown">>, <<"unknown">>)>> ELSE <<>>)
    \o (IF w.blank THEN <<<<>>>> ELSE <<>>)

Written(w) ==
    LET eol  == IF w.crlf THEN <<CR, LF>> ELSE <<LF>>
        text == FlattenSeq([i \in DOMAIN Lines(w) |-> Lines(w)[i] \o eol])
        open == IF w.lastbreak \/ text = <<>> THEN text ELSE SubSeq(text, 1, Len(text) - Len(eol))
    IN  (IF w.bom THEN <<BOM>> ELSE <<>>) \o open

\* gRPC's peer(): a TCP peer, an IPv6 one with its brackets as they are or
\* percent-encoded (the newer releases), or a local socket.
PeerString(p) ==
    CASE p.family = "ipv4"     -> <<"ipv4", ":">> \o p.address \o <<":">> \o p.port
      [] p.family = "ipv6"     -> <<"ipv6", ":", "[">> \o p.address \o <<"]", ":">> \o p.port
      [] p.family = "ipv6_enc" -> <<"ipv6", ":", "%5B">> \o p.address \o <<"%5D", ":">> \o p.port
      [] p.family = "unix"     -> <<"unix", ":">> \o p.address

-----------------------------------------------------------------------------

RewriteFile ==
    /\ pc = "serving" /\ loaded = file
    /\ file' \in {w \in Rewrites : w.style = file.style /\ w # file}
    /\ input' = NoInput
    /\ payload' = NoPayload
    /\ UNCHANGED <<method, labels, loaded, pc, seq>>

\* main() and ReloadLabelMaps(): the loader of the configured style.  A name
\* read past the end of nid is garbage, or the end of the process.
LoadLabels ==
    /\ pc \in {"start", "serving"} /\ loaded # file
    /\ LET r == IF file.style = "csv" THEN LoadLabelMap(Written(file))
                ELSE LoadLabelMapPreTagStyle(Written(file))
       IN  /\ labels' = r.map
           /\ \/ pc' = IF r.ended = "loaded" THEN "serving" ELSE r.ended
              \/ /\ \E ip \in DOMAIN r.map : r.map[ip][1] = Garbage
                 /\ pc' = "crashed"
    /\ loaded' = file
    /\ UNCHANGED <<file, method, seq, input, payload>>

\* The body a message is decoded into, or a raw one, which need not be JSON;
\* JuniperUpdate() is skipped, and the body empty, when JuniperExtension() fails.
BodyOf(m) ==
    CASE m.kind = "cisco"   -> [valid |-> TRUE, json |-> CiscoGpbkv2Json(m.rows)]
      [] m.kind = "juniper" -> IF JuniperExtension(m) THEN [valid |-> TRUE, json |-> JuniperUpdate(m)]
                               ELSE EmptyText
      [] m.kind = "nokia"   -> [valid |-> TRUE, json |-> NokiaUpdate(m)]
      [] m.kind = "raw"     -> [valid |-> m.valid, json |-> m.json]

BuildDataWrapper(body, peer, number) ==
    [seq |-> number, telemetry_node |-> peer.ip, telemetry_port |-> peer.port,
     telemetry_data |-> body]

\* HandleMessage() and deliver_payload().
HandleMessage ==
    /\ pc = "serving" /\ loaded = file
    /\ seq < MaxMsgs
    /\ seq' = seq + 1
    /\ \E in \in Inputs(file) :
         LET peer   == ParsePeer(PeerString(in.peer))
             body   == BodyOf(in.message)
             throws == \/ in.message.kind = "juniper" /\ JuniperThrows(in.message)
                       \/ method = "Kafka" /\ EnvelopeThrows(body, peer, PortNumbers)
         IN  /\ input' = in
             /\ pc' = IF throws THEN "crashed" ELSE pc
             /\ payload' = IF throws THEN NoPayload
                           ELSE IF method = "Zmq" THEN BuildDataWrapper(body, peer, seq')
                           ELSE BuildEnvelope(body, peer, labels, TRUE, seq')
    /\ UNCHANGED <<file, method, labels, loaded>>

Next == RewriteFile \/ LoadLabels \/ HandleMessage

Spec == Init /\ [][Next]_vars

-----------------------------------------------------------------------------
(* Properties.                                                             *)

\* The file follows its format: every row has its columns, a PTM file ends
\* with the sentinel the loader drops, and there is no blank line.
WellFormed(w) ==
    /\ \A i \in DOMAIN w.rows : w.rows[i].full /\ w.rows[i].mask
    /\ w.sentinel = (w.style = "ptm")
    /\ ~w.blank

\* The names a row gives its host; the last row of a host counts.
RowNames(r) == <<r.node, r.platform>>

AsWritten(rows) ==
    [ip \in {rows[i].ip : i \in DOMAIN rows} |->
        LET of == {i \in DOMAIN rows : rows[i].ip = ip}
        IN  RowNames(rows[CHOOSE i \in of : \A j \in of : j <= i])]

\* A well-formed file is accepted, and every host gets the names its row has,
\* with any line ends, a byte order mark, quoted separators and quotes, a last
\* line that is not ended, and a file rewritten with fewer or other rows.
LabelsAsWritten ==
    loaded # NoFile /\ WellFormed(loaded) =>
        /\ pc # "exited"
        /\ pc = "crashed" => input # NoInput
        /\ labels = AsWritten(loaded.rows)

\* Whatever the file, a host has the names of one row, and never a node name
\* of one router with the platform of another, unless a pretag label has no
\* node name: then the names of the rows behind it move up.
NoMixedLabels ==
    loaded # NoFile /\ pc = "serving"
    /\ (loaded.style = "csv" \/ \A i \in DOMAIN loaded.rows : loaded.rows[i].full) =>
        \A ip \in DOMAIN labels :
            \E i \in DOMAIN loaded.rows : loaded.rows[i].ip = ip /\ labels[ip] = RowNames(loaded.rows[i])

\* A place in a Cisco message: the position of a row, of a sub-field of it, and
\* so on; the fields on the way there.
FieldsOn(rows, place) ==
    LET at[k \in 1..Len(place)] == IF k = 1 THEN rows[place[1]] ELSE at[k - 1].fields[place[k]]
    IN  at

FieldAt(rows, place) == FieldsOn(rows, place)[Len(place)]

IsPlace(rows, place) ==
    /\ place # <<>> /\ place[1] \in DOMAIN rows
    /\ \A k \in 2..Len(place) : place[k] \in DOMAIN FieldsOn(rows, place)[k - 1].fields

\* What a JSON value holds behind the name of its field.
Unnamed(f, json) == IF f.name = "" THEN json ELSE json.m[f.name]

Key(json, k) == IF json.t = "object" /\ k \in DOMAIN json.m THEN json.m[k] ELSE Null

\* The array of sub-fields of a field's JSON value, and the field's own value.
SubFields(json) == IF Key(json, "fields") = Null THEN <<>> ELSE Key(json, "fields").a
OwnValue(json) == IF json.t = "object" THEN Key(json, "value") ELSE json

\* The JSON value at the place of the record.
JsonAt(rows, json, place) ==
    LET at[k \in 1..Len(place)] ==
            Unnamed(FieldsOn(rows, place)[k],
                    IF k = 1 THEN Key(json, "data_gpbkv").a[place[1]] ELSE SubFields(at[k - 1])[place[k]])
    IN  at[Len(place)]

Delivered(kind) == payload # NoPayload /\ input # NoInput /\ input.message.kind = kind

\* However deep the fields of a Cisco message are nested, with or without
\* names, timestamps and values of their own, every value is in the record
\* that is delivered at the place its field has, and no field is added.
CiscoLeavesKept ==
    Delivered("cisco") =>
        LET rows == input.message.rows
            json == payload.telemetry_data.json
        IN  /\ Len(Key(json, "data_gpbkv").a) = Len(rows)
            /\ \A place \in Places : IsPlace(rows, place) =>
                  /\ OwnValue(JsonAt(rows, json, place)) = FieldAt(rows, place).value
                  /\ Len(SubFields(JsonAt(rows, json, place))) = Len(FieldAt(rows, place).fields)

\* The value under a path of nested objects.
Lookup(m, names) ==
    LET at[i \in 0..Len(names)] == IF i = 0 THEN Obj(m) ELSE Key(at[i - 1], names[i])
    IN  at[Len(names)]

Related(p, q) == IsPrefix(p, q) \/ IsPrefix(q, p)

\* The members of a value, if it is an object.
ObjectOf(json) == IF json.t = "object" THEN json.m ELSE NoKeys

\* An update of a Juniper notification is found at its path, unless a later
\* update writes that path, one above it or one below it; a header extension
\* that does not parse costs the whole notification.  An update of a Nokia
\* notification is found at its path, unless a later one has the same names
\* (their keys make no difference); of its value only JSON_IETF text is kept.
GnmiUpdatesVisible ==
    /\ Delivered("juniper") =>
          LET us == input.message.updates
              p(i) == PathNames(us[i].path)
              tree == ObjectOf(Key(payload.telemetry_data.json, "metrics"))
          IN  IF ~JuniperExtension(input.message) THEN payload.telemetry_data = EmptyText
              ELSE \A i \in DOMAIN us :
                     \/ p(i) = <<>>
                     \/ \E k \in DOMAIN us : k > i /\ p(k) # <<>> /\ Related(p(i), p(k))
                     \/ Lookup(tree, p(i)) = JuniperValue(us[i].val)
    /\ Delivered("nokia") =>
          LET us == input.message.updates
              p(i) == Names(us[i].path)
          IN  \A i \in DOMAIN us :
                 \/ \E k \in DOMAIN us : k > i /\ p(k) = p(i)
                 \/ Key(payload.telemetry_data.json, p(i)) = NokiaValue(us[i].val)

\* The record names the router it came from, and, on the Kafka path, carries
\* that router's own label: its names under "nkey" and "pkey" if it is in the
\* label file, where ptm/README.md and csv/README.md show "node_id" and
\* "platform_id", which are the keys for an unknown router.
PayloadFromPeer ==
    payload # NoPayload /\ input # NoInput /\ input.peer.family \in {"ipv4", "ipv6"} =>
        /\ payload.telemetry_node = input.peer.address
        /\ payload.telemetry_port = input.peer.port
        /\ method = "Kafka" /\ WellFormed(loaded) =>
              payload.label = LabelOf(AsWritten(loaded.rows), input.peer.address)

\* Where a value of an update ends up in the body: behind "metrics" and its path.
ReachesLimit(u) ==
    \E d \in 0..StackLimit : d + Len(u.path) + 1 >= StackLimit /\ Nested(JuniperValue(u.val), d)

\* The messages that end the process: on the Kafka path a peer without a port
\* number, a raw text that nests as deep as the JSON parser goes, and a Juniper
\* value that does so below its path; on both paths a Juniper value whose JSON
\* text alone does.  No Cisco GPB-KV message and no Nokia message does.
MessageDeathsKnown ==
    pc = "crashed" /\ input # NoInput =>
        LET m == input.message
        IN  \/ method = "Kafka" /\ input.peer.family = "unix"
            \/ method = "Kafka" /\ m.kind = "raw" /\ Exceeds(m.json)
            \/ /\ m.kind = "juniper" /\ JuniperExtension(m)
               /\ \E i \in DOMAIN m.updates :
                     \/ IsJson(m.updates[i].val) /\ Exceeds(m.updates[i].val.json)
                     \/ method = "Kafka" /\ ReachesLimit(m.updates[i])

\* ptm/README.md: a file "resembling the above format", which has no sentinel,
\* labels every client whose address is in it.
EveryHostLabelled ==
    pc = "serving" /\ loaded = file /\ (\A i \in DOMAIN file.rows : file.rows[i].full) =>
        \A i \in DOMAIN file.rows : file.rows[i].ip \in DOMAIN labels
=============================================================================
