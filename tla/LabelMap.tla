----------------------------- MODULE LabelMap ------------------------------
(***************************************************************************)
(* The two label-map loaders of mdt_dialout_collector.cc and the CSV reader *)
(* they use (include/csv/rapidcsv.h).  A file is a sequence of symbols: the *)
(* characters the code looks at, and, as one symbol each, the runs of       *)
(* characters it does not.  A cell, an address, a name is such a sequence.  *)
(***************************************************************************)
EXTENDS Naturals, Sequences, FiniteSets, SequencesExt

Quote == "QUOTE"
CR    == "CR"
LF    == "LF"
BOM   == "BOM"          \* the byte order mark of UTF-8

Garbage == <<"GARBAGE">>     \* a string read past the end of a vector

-----------------------------------------------------------------------------
(* rapidcsv, with the parameters the loaders give it: no column or row      *)
(* labels, no trimming, no quoted line breaks, no line skipped.             *)

\* ReplaceString(): from the left, each pair of quotes becomes one, that is, a
\* quote is left out when the one before it has no partner yet.
ReplaceSymbol(st, c) ==
    IF c = Quote /\ st.unpaired THEN [st EXCEPT !.unpaired = FALSE]
    ELSE [out |-> Append(st.out, c), unpaired |-> c = Quote]

ReplaceString(s) ==
    LET run[i \in 0..Len(s)] ==
            IF i = 0 THEN [out |-> <<>>, unpaired |-> FALSE] ELSE ReplaceSymbol(run[i - 1], s[i])
    IN  run[Len(s)].out

Unquote(cell) ==
    IF Len(cell) >= 2 /\ cell[1] = Quote /\ cell[Len(cell)] = Quote
    THEN ReplaceString(SubSeq(cell, 2, Len(cell) - 1))
    ELSE cell

\* A quote counts at the start of a cell, and inside one that starts with it.
TogglesQuoted(st) == st.cell = <<>> \/ Head(st.cell) = Quote

EndOfRow(st) ==
    [row |-> <<>>, cell |-> <<>>, quoted |-> FALSE,
     data |-> Append(st.data, Append(st.row, Unquote(st.cell)))]

\* Mutant: a carriage return is kept as part of its cell.
ParseSymbol_KeepsCR(st, c, separator) ==
    CASE c = separator /\ ~st.quoted ->
            [st EXCEPT !.row = Append(@, Unquote(st.cell)), !.cell = <<>>]
      [] c = LF -> EndOfRow(st)
      [] OTHER -> [st EXCEPT !.cell = Append(@, c)]

\* The body of ParseCsv()'s loop.
ParseSymbol(st, c, separator) ==
    CASE c = Quote ->
            [st EXCEPT !.quoted = IF TogglesQuoted(st) THEN ~@ ELSE @, !.cell = Append(@, c)]
      [] c = separator /\ ~st.quoted ->
            [st EXCEPT !.row = Append(@, Unquote(st.cell)), !.cell = <<>>]
      [] c = CR -> st
      [] c = LF -> EndOfRow(st)
      [] OTHER -> [st EXCEPT !.cell = Append(@, c)]

StartOfFile == [row |-> <<>>, cell |-> <<>>, quoted |-> FALSE, data |-> <<>>]

\* ParseCsv()'s loop, from a state st of its variables.
ParseSymbols(st, text, separator) ==
    LET run[i \in 0..Len(text)] ==
            IF i = 0 THEN st ELSE ParseSymbol(run[i - 1], text[i], separator)
    IN  run[Len(text)]

\* The rows of a file; the last line may lack its line break.
ParseCsv(file, separator) ==
    LET end == ParseSymbols(StartOfFile, file, separator)
    IN  (IF end.cell # <<>> \/ end.row # <<>> THEN EndOfRow(end) ELSE end).data

\* The Document constructor skips the mark of UTF-8; what it does with others is
\* not built in (HAS_CODECVT).
ReadCsv(file, separator) ==
    ParseCsv(IF file # <<>> /\ Head(file) = BOM THEN Tail(file) ELSE file, separator)

\* GetColumn() throws at the first row that is too short.
HasColumn(data, i) == \A r \in DOMAIN data : Len(data[r]) > i

-----------------------------------------------------------------------------
(* The loaders.  Each clears the map and yields how it ended and the map.   *)

Exits   == [ended |-> "exited", map |-> << >>]
Crashes == [ended |-> "crashed", map |-> << >>]

\* label_map[ips[i]] = {nids[i], pids[i]} for every i: the last row of a host
\* is the one that stays.
FillMap(ips, nids, pids) ==
    [ip \in ToSet(ips) |->
        LET i == CHOOSE i \in DOMAIN ips : ips[i] = ip /\ \A j \in DOMAIN ips : ips[j] = ip => j <= i
        IN  <<IF i \in DOMAIN nids THEN nids[i] ELSE Garbage, pids[i]>>]

Column(data, i) == [r \in DOMAIN data |-> data[r][i + 1]]

LoadLabelMap(file) ==
    LET data == ReadCsv(file, ",")
    IN  IF \A i \in 0..2 : HasColumn(data, i)
        THEN [ended |-> "loaded", map |-> FillMap(Column(data, 0), Column(data, 1), Column(data, 2))]
        ELSE Exits

\* From behind the first "=" to the last "/": when there is no "/" behind it
\* the unsigned length wraps and everything up to the end is taken.
AddressOf(cell) ==
    LET start == SelectInSeq(cell, LAMBDA c : c = "=") + 1
        stop  == SelectLastInSeq(cell, LAMBDA c : c = "/")
    IN  SubSeq(cell, start, IF stop >= start THEN stop - 1 ELSE Len(cell))

\* The tokens between the "%" of a label, behind its first "=".
TokenSymbol(st, c) ==
    IF c = "%" THEN [done |-> Append(st.done, st.token), token |-> <<>>]
    ELSE [st EXCEPT !.token = Append(@, c)]

Tokens(label) ==
    LET run[i \in 0..Len(label)] ==
            IF i = 0 THEN [done |-> <<>>, token |-> <<>>] ELSE TokenSymbol(run[i - 1], label[i])
    IN  Append(run[Len(label)].done, run[Len(label)].token)

LabelTokens(cell) ==
    Tokens(SubSeq(cell, SelectInSeq(cell, LAMBDA c : c = "=") + 1, Len(cell)))

\* Mutant: the row before the last is taken for the sentinel, too.
DropSentinel_Two(data) == IF Len(data) < 2 THEN <<>> ELSE SubSeq(data, 1, Len(data) - 2)

\* RemoveRow(GetRowCount()) erases past the end, which is undefined; with
\* libstdc++'s vector the last row is destroyed.
DropSentinel(data) == Front(data)

\* Mutant: the node name is the token before the first "%".
NodeNames_First(labels) == [i \in DOMAIN labels |-> labels[i][1]]

\* nid holds the second token of the labels that have one closed by a "%";
\* a label with fewer adds none, and the names behind it move up.
NodeNames(labels) ==
    LET named == {i \in DOMAIN labels : Len(labels[i]) >= 3}
        nth(k) == CHOOSE i \in named : Cardinality({j \in named : j <= i}) = k
    IN  [k \in 1..Cardinality(named) |-> labels[nth(k)][2]]

\* On a file without rows the erase runs off the front of the vector.
LoadLabelMapPreTagStyle(file) ==
    LET data   == ReadCsv(file, " ")
        rows   == DropSentinel(data)
        labels == [r \in DOMAIN rows |-> LabelTokens(rows[r][1])]
    IN  CASE data = <<>> -> Crashes
          [] data # <<>> /\ ~(HasColumn(rows, 0) /\ HasColumn(rows, 1)) -> Exits
          [] OTHER -> [ended |-> "loaded",
                       map   |-> FillMap([r \in DOMAIN rows |-> AddressOf(rows[r][2])],
                                         NodeNames(labels),
                                         [r \in DOMAIN rows |-> Last(labels[r])])]
=============================================================================
