------------------------------ MODULE MCIngest -----------------------------
(* The instance of Ingest for TLC: small label files in every shape, and,    *)
(* with one of them, messages of every vendor.                              *)
EXTENDS Ingest, TLC

IPs == {<<"1.1.1.1">>, <<"2001", ":", ":", "1">>}

Host(ip, n, p) == [ip |-> ip, node |-> n, platform |-> p, full |-> TRUE, mask |-> TRUE]

\* Rows as a format asks for, with cells that need quotes, and as it does not.
Plain   == Host(<<"1.1.1.1">>, <<"r1">>, <<"XR">>)
Second  == Host(<<"2001", ":", ":", "1">>, <<"r2">>, <<"XE">>)
Again   == Host(<<"1.1.1.1">>, <<"r3">>, <<>>)
Spaced  == Host(<<"2.2.2.2">>, <<"r", ",", "4">>, <<"Jun", " ", Quote, "OS">>)
Bare    == [Host(<<"3.3.3.3">>, <<"r5">>, <<"VRP">>) EXCEPT !.full = FALSE]
Unmask  == [Host(<<"4.4.4.4">>, <<"r6">>, <<"SR">>) EXCEPT !.mask = FALSE]

Shapes == [style : {"csv", "ptm"}, crlf : BOOLEAN, lastbreak : BOOLEAN, bom : BOOLEAN,
           sentinel : BOOLEAN, blank : BOOLEAN]

Shaped(s, rows) == s @@ [rows |-> rows]

MCFiles ==
    {Shaped(s, rows) : s \in {s \in Shapes : s.sentinel => s.style = "ptm"},
                       rows \in BoundedSeq({Plain, Second, Again, Spaced}, 2)
                                \cup {<<Plain, Bare>>, <<Bare, Plain, Second>>, <<Unmask, Plain>>}}

Simple(style, sentinel) ==
    [style |-> style, crlf |-> FALSE, lastbreak |-> TRUE, bom |-> FALSE, sentinel |-> sentinel, blank |-> FALSE]

Sample == Shaped(Simple("csv", FALSE), <<Plain, Second>>)

MCRewrites ==
    {Sample, Shaped(Simple("csv", FALSE), <<Again>>),
     Shaped(Simple("ptm", TRUE), <<Second, Plain>>), Shaped(Simple("ptm", TRUE), <<>>)}

\* ptm/README.md's example: rows, and no sentinel.
DocFiles == {Shaped(Simple("ptm", FALSE), rows) : rows \in BoundedSeq({Plain, Second}, 2) \ {<<>>}}

MCCharacters == {"1.1.1.1", "2.2.2.2", "3.3.3.3", "4.4.4.4", "9.9.9.9", "2001", "1", "/run/x", "80",
                 ":", ",", " ", Quote, "r", "r1", "r2", "r3", "4", "r5", "r6",
                 "XR", "XE", "Jun", "OS", "VRP", "SR"}

Peer(f, a, p) == [family |-> f, address |-> a, port |-> p]
Peers ==
    {Peer("ipv4", <<"1.1.1.1">>, <<"80">>), Peer("ipv4", <<"9.9.9.9">>, <<"80">>),
     Peer("ipv6", <<"2001", ":", ":", "1">>, <<"80">>),
     Peer("ipv6_enc", <<"2001", ":", ":", "1">>, <<"80">>), Peer("unix", <<"/run/x">>, <<>>)}

Field(n, t, v, fs) == [name |-> n, timestamp |-> t, value |-> v, fields |-> fs]
FieldNames == {"", "name"}
Values == {Null, Scalar("x"), Scalar("y")}
Leaves == {Field(n, t, v, <<>>) : n \in FieldNames, t \in {0, 1}, v \in Values}
Inner  == {Field(n, t, v, fs) : n \in FieldNames, t \in {0, 1}, v \in {Null, Scalar("z")},
                                fs \in {<<a>> : a \in Leaves} \cup {<<a, b>> : a, b \in Leaves}}
Deep   == {Field("name", 0, Null, <<f, Field("", 1, Scalar("x"), <<f>>)>>) : f \in Inner}

\* Everything there, at every depth: JSON as deep as it gets.
FullAbove(f) == Field("name", 1, Scalar("x"), <<f>>)
FullInner == Field("name", 1, Scalar("z"), <<Field("name", 1, Scalar("y"), <<>>)>>)
Full  == {FullAbove(FullInner), FullAbove(FullAbove(FullInner))}

MCFields == Leaves \cup Inner \cup {Field("", 1, Scalar("x"), <<f>>) : f \in Inner} \cup Deep \cup Full

RECURSIVE MCDepth(_)
MCDepth(f) == IF f.fields = <<>> THEN 0 ELSE 1 + Max({MCDepth(f.fields[i]) : i \in DOMAIN f.fields})

MCPlaces == BoundedSeq(1..2, 4)

CiscoMessages == {[kind |-> "cisco", rows |-> rows] :
                    rows \in BoundedSeq(Leaves, 2) \cup {<<f>> : f \in Inner \cup Deep \cup Full}}

\* JSON that nests n deep.
RECURSIVE Chain(_)
Chain(n) == IF n = 0 THEN Scalar("x") ELSE Arr(<<Chain(n - 1)>>)

Elem(n, ks) == [name |-> n, keys |-> ks]
A  == Elem("a", <<>>)
B1 == Elem("b", <<"k=1">>)
B2 == Elem("b", <<"k=2">>)
Paths == {<<>>, <<A>>, <<B1>>, <<A, B1>>, <<A, B2>>, <<B1, A>>, <<A, B1, A>>}
Long(n) == [i \in 1..n |-> A]

Val(kind, valid, json) == [kind |-> kind, valid |-> valid, json |-> json]
Inside == Obj(<<"c", <<>>>> :> Scalar("y"))
Typed == {Val("scalar", TRUE, Scalar("x")), Val("json", TRUE, Inside), Val("json_ietf", TRUE, Inside),
          Val("json_ietf", FALSE, Null), Val("other", TRUE, Null)}
Updates == [path : Paths, val : Typed]
Three(ps) == [i \in 1..3 |-> [path |-> ps[i], val |-> Val("scalar", TRUE, Scalar(<<"x", "y", "z">>[i]))]]

\* Updates that reach the limit of the parser alone, below their path, or not.
DeepUpdates ==
    [path : Paths, val : {Val(kind, valid, Chain(n)) : kind \in {"json", "json_ietf"},
                                                       valid \in BOOLEAN, n \in 9..14}]
    \cup {[path |-> Long(n), val |-> Val("scalar", TRUE, Scalar("x"))] : n \in 11..13}

Gnmi(kind, headers, updates) == [kind |-> kind, headers |-> headers, updates |-> updates]
GnmiMessages ==
    {Gnmi(kind, <<"other", "good">>, us) :
        kind \in {"juniper", "nokia"},
        us \in BoundedSeq(Updates, 2) \cup {Three(ps) : ps \in [1..3 -> Paths]} \cup {<<u>> : u \in DeepUpdates}}
    \cup {Gnmi("juniper", <<"good", "bad">>, <<u>>) : u \in Updates \cup DeepUpdates}

RawMessages == {[kind |-> "raw", valid |-> valid, json |-> Chain(n)] : valid \in BOOLEAN, n \in {0, 13, 14, 15}}
RawText     == [kind |-> "raw", valid |-> FALSE, json |-> Null]

\* Every message with the sample file; with the others, every peer.
MCInputs(w) ==
    {[peer |-> p, message |-> RawText] : p \in Peers}
    \cup IF w = Sample
         THEN {[peer |-> CHOOSE p \in Peers : p.family = "ipv6", message |-> m] :
                  m \in CiscoMessages \cup GnmiMessages \cup RawMessages}
         ELSE {}
=============================================================================
