----------------------------- MODULE Decoders ------------------------------
(***************************************************************************)
(* DataManipulation's decoders, the envelope (dataManipulation/             *)
(* data_manipulation.cc) and ParsePeer() (utils/peer_parser.cc) as          *)
(* functions of their input.  A JSON value is a record tagged with its      *)
(* type; numbers and strings are scalars.                                   *)
(***************************************************************************)
EXTENDS Naturals, Sequences, SequencesExt

CONSTANTS
    Fields,         \* the fields of Cisco messages, with their sub-fields
    Depth(_),       \* how deep the sub-fields of a field nest
    MaxDepth,       \* bound: protobuf parses no message that nests deeper
    StackLimit      \* jsoncpp parses no JSON value that nests as deep (1000)

IsSequence(s) == s \in Seq(ToSet(s))

\* The value of a field's oneof is none or a scalar.
ASSUME FieldsAssumption ==
    /\ UNION {ToSet(f.fields) : f \in Fields} \subseteq Fields
    /\ \A f \in Fields : IsSequence(f.fields) /\ f.value.t \in {"null", "scalar"}
    /\ MaxDepth \in Nat /\ \A f \in Fields : Depth(f) \in 0..MaxDepth
    /\ \A f \in Fields : \A i \in DOMAIN f.fields : Depth(f.fields[i]) < Depth(f)

\* Protobuf's limit (100 messages) is well below that of jsoncpp.
ASSUME LimitsAssumption == StackLimit \in Nat /\ StackLimit >= 3 * MaxDepth + 5

Null      == [t |-> "null"]
Scalar(x) == [t |-> "scalar", v |-> x]
Obj(m)    == [t |-> "object", m |-> m]
Arr(s)    == [t |-> "array", a |-> s]
NoKeys    == [k \in {} |-> Null]

\* m[name] = value.
With(m, name, value) == [k \in DOMAIN m \cup {name} |-> IF k = name THEN value ELSE m[k]]

\* The values in a value, and those n levels below it.
Parts(json) ==
    IF json.t = "object" THEN {json.m[k] : k \in DOMAIN json.m}
    ELSE IF json.t = "array" THEN ToSet(json.a)
    ELSE {}

Level(json, n) ==
    LET level[k \in 0..n] == IF k = 0 THEN {json} ELSE UNION {Parts(v) : v \in level[k - 1]}
    IN  level[n]

Nested(json, n) == Level(json, n) # {}

\* CharReader::parse() throws "Exceeded stackLimit", and nothing catches it.
Exceeds(json) == Nested(json, StackLimit)

-----------------------------------------------------------------------------
(* Cisco GPB-KV.  A field has a name, a timestamp, the value of its oneof   *)
(* (Null when it has none) and sub-fields.                                  *)

\* An element of an array: the bare value when the field has no name.
NamedField(f, json) == IF f.name = "" THEN json ELSE Obj([k \in {f.name} |-> json])

\* A field with neither a timestamp nor sub-fields is its bare value.
FieldJson(f, subs) ==
    LET keys == (IF f.timestamp # 0 THEN {"timestamp"} ELSE {})
                \cup (IF subs # <<>> THEN {"fields"} ELSE {})
    IN  IF keys = {} THEN f.value
        ELSE Obj([k \in keys \cup (IF f.value # Null THEN {"value"} ELSE {}) |->
                    CASE k = "timestamp" -> Scalar("time")
                      [] k = "fields"    -> Arr(subs)
                      [] k = "value"     -> f.value])

CiscoGpbkvField2Json[f \in Fields] ==
    FieldJson(f, [i \in DOMAIN f.fields |-> NamedField(f.fields[i], CiscoGpbkvField2Json[f.fields[i]])])

\* Mutant: a field's own value is dropped when it has sub-fields.
CiscoGpbkv2Json_Leafless(rows) ==
    Obj([k \in {"data_gpbkv"} |-> Arr([i \in DOMAIN rows |->
        NamedField(rows[i], CiscoGpbkvField2Json[
            IF rows[i].fields # <<>> THEN [rows[i] EXCEPT !.value = Null] ELSE rows[i]])])])

\* The rows of data_gpbkv; the message's header fields are left out.
CiscoGpbkv2Json(rows) ==
    Obj([k \in {"data_gpbkv"} |->
            Arr([i \in DOMAIN rows |-> NamedField(rows[i], CiscoGpbkvField2Json[rows[i]])])])

-----------------------------------------------------------------------------
(* gNMI: Juniper and Nokia.  An element of a path has a name and keys, in   *)
(* the order in which the protobuf map yields them.                         *)

\* JSON text that is kept as it is.
TextOf(val) == [t |-> "text", text |-> val.json]

IsJson(val) == val.kind \in {"json", "json_ietf"}

\* A TypedValue: JSON text that does not parse is kept as text, a type the
\* code does not know becomes a fixed word.
JuniperValue(val) ==
    CASE val.kind = "scalar"            -> val.json
      [] IsJson(val) /\ val.valid       -> val.json
      [] IsJson(val) /\ ~val.valid      -> TextOf(val)
      [] val.kind = "other"             -> Scalar("unsupported_type")

\* node_name: the element's name with its keys behind it.
NodeName(elem) == <<elem.name, elem.keys>>

PathNames(path) == [i \in DOMAIN path |-> NodeName(path[i])]

\* Mutant: an inner node is made anew, whatever is there.
Child_Anew(m, name) == NoKeys

\* An inner node that is missing or is no object is replaced by an empty one.
Child(m, name) == IF name \in DOMAIN m /\ m[name].t = "object" THEN m[name].m ELSE NoKeys

\* One update, written into the tree m: the objects on the way down, and from
\* the value up the objects that hold it; an empty path writes nothing.
SetMetric(m, names, value) ==
    LET n == Len(names)
        down[i \in 0..n] == IF i = 0 THEN m ELSE Child(down[i - 1], names[i])
        up[k \in 0..n]   == IF k = 0 THEN value ELSE Obj(With(down[n - k], names[n - k + 1], up[k - 1]))
    IN  IF n = 0 THEN m ELSE up[n].m

\* "metrics" of a notification, its updates applied in order.
JuniperMetrics(updates) ==
    LET metrics[i \in 0..Len(updates)] ==
            IF i = 0 THEN NoKeys
            ELSE SetMetric(metrics[i - 1], PathNames(updates[i].path), JuniperValue(updates[i].val))
    IN  metrics[Len(updates)]

\* The members beside "metrics" nest four deep at most and are left out.
JuniperUpdate(n) ==
    LET metrics == JuniperMetrics(n.updates)
    IN  Obj([k \in IF metrics = NoKeys THEN {} ELSE {"metrics"} |-> Obj(metrics)])

\* What is a header extension of Juniper's parses; another extension is ignored.
JuniperExtension(n) == "bad" \notin ToSet(n.headers)

\* Reading the JSON text of a value.
JuniperThrows(n) ==
    JuniperExtension(n) /\ \E i \in DOMAIN n.updates : IsJson(n.updates[i].val) /\ Exceeds(n.updates[i].val.json)

Names(path) == [i \in DOMAIN path |-> path[i].name]

\* Mutant: the path is not cleared between two updates.
NokiaPath_Uncleared(updates, i) == FlattenSeq([j \in 1..i |-> Names(updates[j].path)])

\* The key of an update in the JSON object: its path without the keys.
NokiaPath(updates, i) == Names(updates[i].path)

\* json_ietf_val() of a TypedValue: its text, and nothing of another type.
NokiaValue(val) == IF val.kind = "json_ietf" THEN TextOf(val) ELSE Scalar("")

NokiaUpdate(n) ==
    LET root[i \in 0..Len(n.updates)] ==
            IF i = 0 THEN NoKeys
            ELSE With(root[i - 1], NokiaPath(n.updates, i), NokiaValue(n.updates[i].val))
    IN  Obj(root[Len(n.updates)])

-----------------------------------------------------------------------------
(* The peer and the envelope.                                              *)

NoEndpoint == [ip |-> <<>>, port |-> <<>>]

\* Mutant: the address ends at its first colon.
PortSeparator_First(s) == SelectInSeq(s, LAMBDA c : c = ":")

PortSeparator(s) == SelectLastInSeq(s, LAMBDA c : c = ":")

\* Mutant: the opening bracket stays in the address.
InBrackets_Kept(address, bracket) == SubSeq(address, 1, bracket - 1)

InBrackets(address, bracket) == SubSeq(address, 2, bracket - 1)

\* "ipv4:address:port", or "ipv6:[address]:port"; anything else is no endpoint.
ParsePeer(peer) ==
    LET family   == SelectInSeq(peer, LAMBDA c : c = ":")
        address  == SubSeq(peer, family + 1, Len(peer))
        bracket  == SelectInSeq(address, LAMBDA c : c = "]")
        port_sep == PortSeparator(address)
    IN  CASE family = 0 \/ address = <<>> -> NoEndpoint
          [] family # 0 /\ address # <<>> /\ Head(address) = "[" ->
                IF bracket # 0 /\ bracket < Len(address) /\ address[bracket + 1] = ":"
                THEN [ip   |-> InBrackets(address, bracket),
                      port |-> SubSeq(address, bracket + 2, Len(address))]
                ELSE NoEndpoint
          [] OTHER ->
                IF port_sep = 0 THEN NoEndpoint
                ELSE [ip   |-> SubSeq(address, 1, port_sep - 1),
                      port |-> SubSeq(address, port_sep + 1, Len(address))]

\* A body without text.
EmptyText == [valid |-> FALSE, json |-> Null]

\* std::stoi() of the port throws unless it starts with a number.
PortConverts(port, numbers) == port # <<>> /\ Head(port) \in numbers

\* "label": the host's own names, or "unknown", under other keys.
LabelOf(map, ip) ==
    IF ip \in DOMAIN map
    THEN [nkey |-> map[ip][1], pkey |-> map[ip][2]]
    ELSE [node_id |-> <<"unknown">>, platform_id |-> <<"unknown">>]

NoLabel == [none |-> <<>>]

\* Nothing catches what std::stoi() and the JSON parser throw.
EnvelopeThrows(body, peer, numbers) == ~PortConverts(peer.port, numbers) \/ Exceeds(body.json)

\* A body that parses as JSON is nested, another is kept as a string.
BuildEnvelope(body, peer, labels, encode, seq) ==
    [seq |-> seq, telemetry_node |-> peer.ip, telemetry_port |-> peer.port,
     telemetry_data |-> body,
     label |-> IF encode THEN LabelOf(labels, peer.ip) ELSE NoLabel]
=============================================================================
