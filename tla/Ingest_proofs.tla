--------------------------- MODULE Ingest_proofs ---------------------------
(***************************************************************************)
(* Proofs about Ingest, for all label files, messages and peers: the CSV     *)
(* reader reads what an editor wrote, both loaders make label_map of it,     *)
(* ParsePeer() takes an endpoint apart, the decoders keep what they are      *)
(* given, and, with the inductive invariant IInv, the six properties of     *)
(* the module.                                                             *)
(* The model's loops are recursive functions.  Facts about them are proved   *)
(* by induction over sets: G is the set of the numbers, or sequences, that  *)
(* have the fact, and the lemmas Induction and SeqInduction say that G has   *)
(* them all.                                                               *)
(***************************************************************************)
EXTENDS Ingest, FiniteSetTheorems, SequenceTheorems, TLAPS

-----------------------------------------------------------------------------
(* Induction.                                                              *)

\* A set of naturals that has 0, and with a number the next one, has them all:
\* on a number it lacks, subtracting one would be an injection of the finite
\* set of those it lacks below into itself that misses the number.
LEMMA Induction ==
    ASSUME NEW S, 0 \in S, \A n \in Nat : n \in S => n + 1 \in S
    PROVE  \A n \in Nat : n \in S
<1> SUFFICES ASSUME NEW n \in Nat, n \notin S PROVE FALSE
    OBVIOUS
<1> DEFINE B == (0..n) \ S
           f == [x \in B |-> x - 1]
<1>1. IsFiniteSet(0..n)
    BY FS_Interval
<1>2. IsFiniteSet(B)
    BY <1>1, FS_Subset
<1>3. f \in [B -> B]
    <2> SUFFICES ASSUME NEW x \in B PROVE x - 1 \in B
        OBVIOUS
    <2>1. x \in Nat /\ x # 0 /\ x <= n /\ x \notin S
        OBVIOUS
    <2>2. x - 1 \in Nat /\ (x - 1) + 1 = x
        BY <2>1
    <2> QED BY <2>1, <2>2
<1>4. f \in Injection(B, B)
    BY <1>3 DEF Injection, IsInjective
<1>5. f \in Surjection(B, B)
    BY <1>2, <1>4, FS_Injection
<1>6. n \in B
    OBVIOUS
<1>7. PICK x \in B : f[x] = n
    BY <1>5, <1>6 DEF Surjection
<1> QED
    BY <1>7

\* The same over sequences: the empty one, and with a sequence every longer one.
LEMMA SeqInduction ==
    ASSUME NEW S, NEW G, <<>> \in G, \A u \in Seq(S), c \in S : u \in G => Append(u, c) \in G
    PROVE  \A t \in Seq(S) : t \in G
<1> SUFFICES ASSUME NEW t \in Seq(S) PROVE t \in G
    OBVIOUS
<1> DEFINE N == {i \in Nat : i <= Len(t) => SubSeq(t, 1, i) \in G}
<1>1. 0 \in N
    <2>1. SubSeq(t, 1, 0) = <<>>
        BY SubSeqEmpty
    <2> QED BY <2>1
<1>2. ASSUME NEW i \in Nat, i \in N PROVE i + 1 \in N
    <2> SUFFICES ASSUME i + 1 <= Len(t) PROVE SubSeq(t, 1, i + 1) \in G
        OBVIOUS
    <2>1. SubSeq(t, 1, i) \in Seq(S) /\ t[i + 1] \in S /\ SubSeq(t, 1, i) \in G
        BY <1>2, LenProperties
    <2>2. SubSeq(t, 1, i + 1) = SubSeq(t, 1, i) \o <<t[i + 1]>>
        <3>1. 1 \in 1..Len(t) /\ i + 1 \in 1..Len(t) /\ (i + 1) - 1 = i
            OBVIOUS
        <3> QED BY <3>1, SubSeqRecursiveSecond
    <2>3. SubSeq(t, 1, i) \o <<t[i + 1]>> = Append(SubSeq(t, 1, i), t[i + 1])
        BY <2>1, AppendIsConcat
    <2> QED BY <2>1, <2>2, <2>3
<1>3. Len(t) \in N
    <2> HIDE DEF N
    <2> QED BY <1>1, <1>2, Induction
<1>4. SubSeq(t, 1, Len(t)) \in G
    BY <1>3
<1>5. SubSeq(t, 1, Len(t)) = t
    BY SubSeqFull
<1> QED BY <1>4, <1>5

-----------------------------------------------------------------------------
(* Running over a text: the loops of the reader, one symbol at a time.     *)

\* ParseCsv()'s loop is a run: a state per symbol read, each made from the one before.
LEMMA ParseTrace ==
    ASSUME NEW st, NEW separator, NEW text, Len(text) \in Nat
    PROVE  \E run : /\ run[0] = st
                    /\ \A i \in 1..Len(text) : run[i] = ParseSymbol(run[i - 1], text[i], separator)
                    /\ ParseSymbols(st, text, separator) = run[Len(text)]
<1> DEFINE Run(n, f) == f = [i \in 0..n |-> IF i = 0 THEN st ELSE ParseSymbol(f[i - 1], text[i], separator)]
           G == {n \in Nat : \E f : Run(n, f)}
<1>1. 0 \in G
    <2> Run(0, [i \in 0..0 |-> st])
        OBVIOUS
    <2> QED OBVIOUS
<1>2. ASSUME NEW n \in Nat, n \in G PROVE n + 1 \in G
    <2>1. PICK f : Run(n, f)
        BY <1>2
    <2> DEFINE g == [i \in 0..(n + 1) |-> IF i <= n THEN f[i] ELSE ParseSymbol(f[n], text[n + 1], separator)]
    <2>2. ASSUME NEW i \in 0..(n + 1)
          PROVE  g[i] = IF i = 0 THEN st ELSE ParseSymbol(g[i - 1], text[i], separator)
        <3>1. CASE i = 0
            BY <2>1, <3>1
        <3>2. CASE i \in 1..n
            BY <2>1, <3>2
        <3>3. CASE i = n + 1
            BY <3>3
        <3> QED BY <3>1, <3>2, <3>3
    <2>3. Run(n + 1, g)
        BY <2>2, Zenon
    <2> HIDE DEF Run, g
    <2> QED BY <2>3
<1>3. Len(text) \in G
    <2> HIDE DEF G
    <2> QED BY <1>1, <1>2, Induction
<1>4. PICK run : Run(Len(text), run) /\ ParseSymbols(st, text, separator) = run[Len(text)]
    <2>1. PICK f : Run(Len(text), f)
        BY <1>3
    <2>2. Run(Len(text), CHOOSE g : Run(Len(text), g))
        BY <2>1, Zenon
    <2>3. ParseSymbols(st, text, separator) = (CHOOSE g : Run(Len(text), g))[Len(text)]
        BY DEF ParseSymbols
    <2> QED BY <2>2, <2>3, Zenon
<1>5. run[0] = st
    BY <1>4
<1>6. \A i \in 1..Len(text) : run[i] = ParseSymbol(run[i - 1], text[i], separator)
    BY <1>4
<1> QED BY <1>4, <1>5, <1>6

\* The loop over one more symbol.
LEMMA ParseAppend ==
    ASSUME NEW st, NEW separator, NEW S, NEW text \in Seq(S), NEW c \in S
    PROVE  ParseSymbols(st, Append(text, c), separator) = ParseSymbol(ParseSymbols(st, text, separator), c, separator)
<1>1. /\ Len(text) \in Nat /\ Len(Append(text, c)) = Len(text) + 1
      /\ \A i \in 1..Len(text) : Append(text, c)[i] = text[i]
      /\ Append(text, c)[Len(text) + 1] = c
    BY AppendProperties
<1>2. PICK f : /\ f[0] = st
               /\ \A i \in 1..Len(text) : f[i] = ParseSymbol(f[i - 1], text[i], separator)
               /\ ParseSymbols(st, text, separator) = f[Len(text)]
    BY <1>1, ParseTrace
<1>3. PICK g : /\ g[0] = st
               /\ \A i \in 1..Len(Append(text, c)) : g[i] = ParseSymbol(g[i - 1], Append(text, c)[i], separator)
               /\ ParseSymbols(st, Append(text, c), separator) = g[Len(Append(text, c))]
    <2> DEFINE longer == Append(text, c)
    <2>1. Len(longer) \in Nat
        BY <1>1
    <2> HIDE DEF longer
    <2>2. \E g : /\ g[0] = st
                 /\ \A i \in 1..Len(longer) : g[i] = ParseSymbol(g[i - 1], longer[i], separator)
                 /\ ParseSymbols(st, longer, separator) = g[Len(longer)]
        BY <2>1, ParseTrace
    <2> QED BY <2>2 DEF longer
<1> DEFINE G == {i \in Nat : i <= Len(text) => f[i] = g[i]}
<1>4. 0 \in G
    BY <1>2, <1>3
<1>5. ASSUME NEW i \in Nat, i \in G PROVE i + 1 \in G
    <2> SUFFICES ASSUME i + 1 <= Len(text) PROVE f[i + 1] = g[i + 1]
        OBVIOUS
    <2>1. i + 1 \in 1..Len(text) /\ i + 1 \in 1..Len(Append(text, c)) /\ (i + 1) - 1 = i
        BY <1>1
    <2>2. f[i] = g[i]
        BY <1>5, <2>1, <1>1
    <2> QED BY <1>1, <1>2, <1>3, <2>1, <2>2
<1>6. f[Len(text)] = g[Len(text)]
    <2>1. Len(text) \in G
        <3> HIDE DEF G
        <3> QED BY <1>1, <1>4, <1>5, Induction
    <2> QED BY <2>1, <1>1
<1> QED BY <1>1, <1>2, <1>3, <1>6

\* No text leaves the state as it is.
LEMMA ParseEmpty ==
    ASSUME NEW st, NEW separator
    PROVE  ParseSymbols(st, <<>>, separator) = st
    BY ParseTrace, EmptySeq

\* And over one text after another.
LEMMA ParseConcat ==
    ASSUME NEW st, NEW separator, NEW S, NEW s \in Seq(S), NEW t \in Seq(S)
    PROVE  ParseSymbols(st, s \o t, separator) = ParseSymbols(ParseSymbols(st, s, separator), t, separator)
<1> DEFINE G == {u \in Seq(S) : ParseSymbols(st, s \o u, separator)
                                = ParseSymbols(ParseSymbols(st, s, separator), u, separator)}
<1>1. <<>> \in G
    BY ParseEmpty, ConcatEmptySeq, EmptySeq
<1>2. ASSUME NEW u \in Seq(S), NEW c \in S, u \in G PROVE Append(u, c) \in G
    <2>1. s \o u \in Seq(S) /\ Append(u, c) \in Seq(S)
        BY ConcatProperties, AppendProperties
    <2>2. s \o Append(u, c) = Append(s \o u, c)
        <3>1. Append(u, c) = u \o <<c>> /\ Append(s \o u, c) = (s \o u) \o <<c>> /\ <<c>> \in Seq(S)
            BY <2>1, AppendIsConcat
        <3>2. (s \o u) \o <<c>> = s \o (u \o <<c>>)
            BY <3>1, ConcatAssociative, SMTT(40)
        <3> QED BY <3>1, <3>2
    <2>3. ParseSymbols(st, Append(s \o u, c), separator)
              = ParseSymbol(ParseSymbols(st, s \o u, separator), c, separator)
        BY <2>1, ParseAppend
    <2>4. ParseSymbols(ParseSymbols(st, s, separator), Append(u, c), separator)
              = ParseSymbol(ParseSymbols(ParseSymbols(st, s, separator), u, separator), c, separator)
        BY ParseAppend
    <2> QED BY <1>2, <2>1, <2>2, <2>3, <2>4
<1> HIDE DEF G
<1>3. t \in G
    BY <1>1, <1>2, SeqInduction
<1> QED BY <1>3 DEF G

\* ReplaceString()'s loop, likewise.
ReplaceRun(st, text) ==
    LET run[i \in 0..Len(text)] ==
            IF i = 0 THEN st ELSE ReplaceSymbol(run[i - 1], text[i])
    IN  run[Len(text)]

\* Its run, as above.
LEMMA ReplaceTrace ==
    ASSUME NEW st, NEW text, Len(text) \in Nat
    PROVE  \E run : /\ run[0] = st
                    /\ \A i \in 1..Len(text) : run[i] = ReplaceSymbol(run[i - 1], text[i])
                    /\ ReplaceRun(st, text) = run[Len(text)]
<1> DEFINE Run(n, f) == f = [i \in 0..n |-> IF i = 0 THEN st ELSE ReplaceSymbol(f[i - 1], text[i])]
           G == {n \in Nat : \E f : Run(n, f)}
<1>1. 0 \in G
    <2> Run(0, [i \in 0..0 |-> st])
        OBVIOUS
    <2> QED OBVIOUS
<1>2. ASSUME NEW n \in Nat, n \in G PROVE n + 1 \in G
    <2>1. PICK f : Run(n, f)
        BY <1>2
    <2> DEFINE g == [i \in 0..(n + 1) |-> IF i <= n THEN f[i] ELSE ReplaceSymbol(f[n], text[n + 1])]
    <2>2. ASSUME NEW i \in 0..(n + 1)
          PROVE  g[i] = IF i = 0 THEN st ELSE ReplaceSymbol(g[i - 1], text[i])
        <3>1. CASE i = 0
            BY <2>1, <3>1
        <3>2. CASE i \in 1..n
            BY <2>1, <3>2
        <3>3. CASE i = n + 1
            BY <3>3
        <3> QED BY <3>1, <3>2, <3>3
    <2>3. Run(n + 1, g)
        BY <2>2, Zenon
    <2> HIDE DEF Run, g
    <2> QED BY <2>3
<1>3. Len(text) \in G
    <2> HIDE DEF G
    <2> QED BY <1>1, <1>2, Induction
<1>4. PICK run : Run(Len(text), run) /\ ReplaceRun(st, text) = run[Len(text)]
    <2>1. PICK f : Run(Len(text), f)
        BY <1>3
    <2>2. Run(Len(text), CHOOSE g : Run(Len(text), g))
        BY <2>1, Zenon
    <2>3. ReplaceRun(st, text) = (CHOOSE g : Run(Len(text), g))[Len(text)]
        BY DEF ReplaceRun
    <2> QED BY <2>2, <2>3, Zenon
<1>5. run[0] = st
    BY <1>4
<1>6. \A i \in 1..Len(text) : run[i] = ReplaceSymbol(run[i - 1], text[i])
    BY <1>4
<1> QED BY <1>4, <1>5, <1>6

\* The loop over one more symbol.
LEMMA ReplaceAppend ==
    ASSUME NEW st, NEW S, NEW text \in Seq(S), NEW c \in S
    PROVE  ReplaceRun(st, Append(text, c)) = ReplaceSymbol(ReplaceRun(st, text), c)
<1>1. /\ Len(text) \in Nat /\ Len(Append(text, c)) = Len(text) + 1
      /\ \A i \in 1..Len(text) : Append(text, c)[i] = text[i]
      /\ Append(text, c)[Len(text) + 1] = c
    BY AppendProperties
<1>2. PICK f : /\ f[0] = st
               /\ \A i \in 1..Len(text) : f[i] = ReplaceSymbol(f[i - 1], text[i])
               /\ ReplaceRun(st, text) = f[Len(text)]
    BY <1>1, ReplaceTrace
<1>3. PICK g : /\ g[0] = st
               /\ \A i \in 1..Len(Append(text, c)) : g[i] = ReplaceSymbol(g[i - 1], Append(text, c)[i])
               /\ ReplaceRun(st, Append(text, c)) = g[Len(Append(text, c))]
    <2> DEFINE longer == Append(text, c)
    <2>1. Len(longer) \in Nat
        BY <1>1
    <2> HIDE DEF longer
    <2>2. \E g : /\ g[0] = st
                 /\ \A i \in 1..Len(longer) : g[i] = ReplaceSymbol(g[i - 1], longer[i])
                 /\ ReplaceRun(st, longer) = g[Len(longer)]
        BY <2>1, ReplaceTrace
    <2> QED BY <2>2 DEF longer
<1> DEFINE G == {i \in Nat : i <= Len(text) => f[i] = g[i]}
<1>4. 0 \in G
    BY <1>2, <1>3
<1>5. ASSUME NEW i \in Nat, i \in G PROVE i + 1 \in G
    <2> SUFFICES ASSUME i + 1 <= Len(text) PROVE f[i + 1] = g[i + 1]
        OBVIOUS
    <2>1. i + 1 \in 1..Len(text) /\ i + 1 \in 1..Len(Append(text, c)) /\ (i + 1) - 1 = i
        BY <1>1
    <2>2. f[i] = g[i]
        BY <1>5, <2>1, <1>1
    <2> QED BY <1>1, <1>2, <1>3, <2>1, <2>2
<1>6. f[Len(text)] = g[Len(text)]
    <2>1. Len(text) \in G
        <3> HIDE DEF G
        <3> QED BY <1>1, <1>4, <1>5, Induction
    <2> QED BY <2>1, <1>1
<1> QED BY <1>1, <1>2, <1>3, <1>6

\* And over none.
LEMMA ReplaceEmpty ==
    ASSUME NEW st
    PROVE  ReplaceRun(st, <<>>) = st
    BY ReplaceTrace, EmptySeq

\* The loop that cuts a label into tokens, likewise.
TokenRun(st, text) ==
    LET run[i \in 0..Len(text)] ==
            IF i = 0 THEN st ELSE TokenSymbol(run[i - 1], text[i])
    IN  run[Len(text)]

\* Its run, as above.
LEMMA TokenTrace ==
    ASSUME NEW st, NEW text, Len(text) \in Nat
    PROVE  \E run : /\ run[0] = st
                    /\ \A i \in 1..Len(text) : run[i] = TokenSymbol(run[i - 1], text[i])
                    /\ TokenRun(st, text) = run[Len(text)]
<1> DEFINE Run(n, f) == f = [i \in 0..n |-> IF i = 0 THEN st ELSE TokenSymbol(f[i - 1], text[i])]
           G == {n \in Nat : \E f : Run(n, f)}
<1>1. 0 \in G
    <2> Run(0, [i \in 0..0 |-> st])
        OBVIOUS
    <2> QED OBVIOUS
<1>2. ASSUME NEW n \in Nat, n \in G PROVE n + 1 \in G
    <2>1. PICK f : Run(n, f)
        BY <1>2
    <2> DEFINE g == [i \in 0..(n + 1) |-> IF i <= n THEN f[i] ELSE TokenSymbol(f[n], text[n + 1])]
    <2>2. ASSUME NEW i \in 0..(n + 1)
          PROVE  g[i] = IF i = 0 THEN st ELSE TokenSymbol(g[i - 1], text[i])
        <3>1. CASE i = 0
            BY <2>1, <3>1
        <3>2. CASE i \in 1..n
            BY <2>1, <3>2
        <3>3. CASE i = n + 1
            BY <3>3
        <3> QED BY <3>1, <3>2, <3>3
    <2>3. Run(n + 1, g)
        BY <2>2, Zenon
    <2> HIDE DEF Run, g
    <2> QED BY <2>3
<1>3. Len(text) \in G
    <2> HIDE DEF G
    <2> QED BY <1>1, <1>2, Induction
<1>4. PICK run : Run(Len(text), run) /\ TokenRun(st, text) = run[Len(text)]
    <2>1. PICK f : Run(Len(text), f)
        BY <1>3
    <2>2. Run(Len(text), CHOOSE g : Run(Len(text), g))
        BY <2>1, Zenon
    <2>3. TokenRun(st, text) = (CHOOSE g : Run(Len(text), g))[Len(text)]
        BY DEF TokenRun
    <2> QED BY <2>2, <2>3, Zenon
<1>5. run[0] = st
    BY <1>4
<1>6. \A i \in 1..Len(text) : run[i] = TokenSymbol(run[i - 1], text[i])
    BY <1>4
<1> QED BY <1>4, <1>5, <1>6

\* The loop over one more symbol.
LEMMA TokenAppend ==
    ASSUME NEW st, NEW S, NEW text \in Seq(S), NEW c \in S
    PROVE  TokenRun(st, Append(text, c)) = TokenSymbol(TokenRun(st, text), c)
<1>1. /\ Len(text) \in Nat /\ Len(Append(text, c)) = Len(text) + 1
      /\ \A i \in 1..Len(text) : Append(text, c)[i] = text[i]
      /\ Append(text, c)[Len(text) + 1] = c
    BY AppendProperties
<1>2. PICK f : /\ f[0] = st
               /\ \A i \in 1..Len(text) : f[i] = TokenSymbol(f[i - 1], text[i])
               /\ TokenRun(st, text) = f[Len(text)]
    BY <1>1, TokenTrace
<1>3. PICK g : /\ g[0] = st
               /\ \A i \in 1..Len(Append(text, c)) : g[i] = TokenSymbol(g[i - 1], Append(text, c)[i])
               /\ TokenRun(st, Append(text, c)) = g[Len(Append(text, c))]
    <2> DEFINE longer == Append(text, c)
    <2>1. Len(longer) \in Nat
        BY <1>1
    <2> HIDE DEF longer
    <2>2. \E g : /\ g[0] = st
                 /\ \A i \in 1..Len(longer) : g[i] = TokenSymbol(g[i - 1], longer[i])
                 /\ TokenRun(st, longer) = g[Len(longer)]
        BY <2>1, TokenTrace
    <2> QED BY <2>2 DEF longer
<1> DEFINE G == {i \in Nat : i <= Len(text) => f[i] = g[i]}
<1>4. 0 \in G
    BY <1>2, <1>3
<1>5. ASSUME NEW i \in Nat, i \in G PROVE i + 1 \in G
    <2> SUFFICES ASSUME i + 1 <= Len(text) PROVE f[i + 1] = g[i + 1]
        OBVIOUS
    <2>1. i + 1 \in 1..Len(text) /\ i + 1 \in 1..Len(Append(text, c)) /\ (i + 1) - 1 = i
        BY <1>1
    <2>2. f[i] = g[i]
        BY <1>5, <2>1, <1>1
    <2> QED BY <1>1, <1>2, <1>3, <2>1, <2>2
<1>6. f[Len(text)] = g[Len(text)]
    <2>1. Len(text) \in G
        <3> HIDE DEF G
        <3> QED BY <1>1, <1>4, <1>5, Induction
    <2> QED BY <2>1, <1>1
<1> QED BY <1>1, <1>2, <1>3, <1>6

\* And over none.
LEMMA TokenEmpty ==
    ASSUME NEW st
    PROVE  TokenRun(st, <<>>) = st
    BY TokenTrace, EmptySeq

Joined(s, t) == s \o t

\* FlattenSeq() joins the first two sequences, then the next to what it has.
LEMMA FlattenTrace ==
    ASSUME NEW seqs, Len(seqs) \in Nat \ {0}
    PROVE  \E run : /\ run[1] = seqs[1]
                    /\ \A i \in 2..Len(seqs) : run[i] = Joined(run[i - 1], seqs[i])
                    /\ FlattenSeq(seqs) = run[Len(seqs)]
<1> DEFINE Run(n, f) == f = [i \in 1..n |-> IF i = 1 THEN seqs[i] ELSE Joined(f[i - 1], seqs[i])]
           G == {n \in Nat : \E f : Run(n + 1, f)}
<1>1. 0 \in G
    <2> Run(0 + 1, [i \in 1..(0 + 1) |-> seqs[i]])
        OBVIOUS
    <2> QED OBVIOUS
<1>2. ASSUME NEW n \in Nat, n \in G PROVE n + 1 \in G
    <2>1. PICK f : Run(n + 1, f)
        BY <1>2
    <2> DEFINE g == [i \in 1..((n + 1) + 1) |-> IF i <= n + 1 THEN f[i] ELSE Joined(f[n + 1], seqs[i])]
    <2>2. ASSUME NEW i \in 1..((n + 1) + 1)
          PROVE  g[i] = IF i = 1 THEN seqs[i] ELSE Joined(g[i - 1], seqs[i])
        <3>1. CASE i = 1
            BY <2>1, <3>1
        <3>2. CASE i \in 2..(n + 1)
            BY <2>1, <3>2
        <3>3. CASE i = (n + 1) + 1
            BY <3>3
        <3> QED BY <3>1, <3>2, <3>3
    <2>3. Run((n + 1) + 1, g)
        BY <2>2, Zenon
    <2> HIDE DEF Run, g
    <2> QED BY <2>3
<1> DEFINE N == Len(seqs)
<1>3. \E f : Run(N, f)
    <2>1. N - 1 \in G
        <3> HIDE DEF G
        <3> QED BY <1>1, <1>2, Induction
    <2>2. (N - 1) + 1 = N
        OBVIOUS
    <2> QED BY <2>1, <2>2
<1>4. PICK run : Run(N, run) /\ FlattenSeq(seqs) = run[N]
    <2>1. Run(N, CHOOSE g : Run(N, g))
        BY <1>3, Zenon
    <2>2. FlattenSeq(seqs) = (CHOOSE g : Run(N, g))[N]
        BY DEF FlattenSeq, Joined
    <2> QED BY <2>1, <2>2, Zenon
<1>5. run[1] = seqs[1]
    BY <1>4
<1>6. \A i \in 2..N : run[i] = Joined(run[i - 1], seqs[i])
    BY <1>4
<1> QED BY <1>4, <1>5, <1>6

\* No sequences yield the empty one.
LEMMA FlattenEmpty ==
    FlattenSeq(<<>>) = <<>>
    BY EmptySeq DEF FlattenSeq

\* One more sequence is joined at the end.
LEMMA FlattenAppend ==
    ASSUME NEW S, NEW seqs \in Seq(Seq(S)), NEW s \in Seq(S)
    PROVE  FlattenSeq(Append(seqs, s)) = FlattenSeq(seqs) \o s
<1> DEFINE longer == Append(seqs, s)
<1>1. /\ Len(seqs) \in Nat /\ Len(longer) = Len(seqs) + 1
      /\ \A i \in 1..Len(seqs) : longer[i] = seqs[i]
      /\ longer[Len(seqs) + 1] = s
    BY AppendProperties
<1>2. CASE seqs = <<>>
    <2>1. Len(seqs) = 0 /\ Len(longer) = 1 /\ longer[1] = s
        BY <1>1, <1>2
    <2> HIDE DEF longer
    <2>2. FlattenSeq(longer) = s
        <3>1. Len(longer) \in Nat \ {0}
            BY <2>1
        <3>2. PICK g : g[1] = longer[1] /\ FlattenSeq(longer) = g[Len(longer)]
            BY <3>1, FlattenTrace
        <3> QED BY <2>1, <3>2
    <2> QED BY <1>2, <2>2, FlattenEmpty, ConcatEmptySeq DEF longer
<1>3. CASE seqs # <<>>
    <2> HIDE DEF longer
    <2>1. Len(seqs) \in Nat \ {0} /\ Len(longer) \in Nat \ {0}
        BY <1>1, <1>3, EmptySeq
    <2>2. PICK f : /\ f[1] = seqs[1]
                   /\ \A i \in 2..Len(seqs) : f[i] = Joined(f[i - 1], seqs[i])
                   /\ FlattenSeq(seqs) = f[Len(seqs)]
        BY <2>1, FlattenTrace
    <2>3. PICK g : /\ g[1] = longer[1]
                   /\ \A i \in 2..Len(longer) : g[i] = Joined(g[i - 1], longer[i])
                   /\ FlattenSeq(longer) = g[Len(longer)]
        BY <2>1, FlattenTrace
    <2> DEFINE G == {i \in Nat : i + 1 <= Len(seqs) => f[i + 1] = g[i + 1]}
    <2>4. 0 \in G
        BY <1>1, <2>1, <2>2, <2>3
    <2>5. ASSUME NEW i \in Nat, i \in G PROVE i + 1 \in G
        <3> SUFFICES ASSUME (i + 1) + 1 <= Len(seqs) PROVE f[(i + 1) + 1] = g[(i + 1) + 1]
            OBVIOUS
        <3> DEFINE k == (i + 1) + 1
        <3>1. k \in 2..Len(seqs) /\ k \in 2..Len(longer) /\ k - 1 = i + 1 /\ k \in 1..Len(seqs)
            BY <1>1
        <3>2. f[k - 1] = g[k - 1]
            BY <2>5, <3>1
        <3> HIDE DEF k
        <3>3. f[k] = g[k]
            BY <1>1, <2>2, <2>3, <3>1, <3>2
        <3> QED BY <3>3 DEF k
    <2>6. f[Len(seqs)] = g[Len(seqs)]
        <3>1. Len(seqs) - 1 \in G
            <4>1. Len(seqs) - 1 \in Nat
                BY <2>1
            <4> HIDE DEF G
            <4> QED BY <4>1, <2>4, <2>5, Induction
        <3> QED BY <3>1, <2>1
    <2>7. g[Len(longer)] = Joined(g[Len(seqs)], s)
        <3>1. Len(longer) \in 2..Len(longer) /\ Len(longer) - 1 = Len(seqs)
            BY <1>1, <2>1
        <3> QED BY <1>1, <2>3, <3>1
    <2> QED BY <2>2, <2>3, <2>6, <2>7 DEF longer, Joined
<1> QED BY <1>2, <1>3

-----------------------------------------------------------------------------
(* Cells.  What an editor quotes, the reader reads as it was.              *)

\* The reader in a cell, outside quotes and inside them.
Outside(row, cell, data) == [row |-> row, cell |-> cell, quoted |-> FALSE, data |-> data]
Inside(row, cell, data)  == [row |-> row, cell |-> cell, quoted |-> TRUE, data |-> data]

Separators == {",", " "}

\* One symbol, in the five cases of the loop.
LEMMA PlainSymbol ==
    ASSUME NEW row, NEW cell, NEW data, NEW separator \in Separators, NEW c,
           c \notin {Quote, separator, CR, LF}
    PROVE  ParseSymbol(Outside(row, cell, data), c, separator) = Outside(row, Append(cell, c), data)
BY DEF ParseSymbol, Outside, Inside, Separators, Quote, CR, LF

\* Inside quotes even a separator is part of the cell.
LEMMA QuotedSymbol ==
    ASSUME NEW row, NEW cell, NEW data, NEW separator \in Separators, NEW c, c \notin {Quote, CR, LF}
    PROVE  ParseSymbol(Inside(row, cell, data), c, separator) = Inside(row, Append(cell, c), data)
BY DEF ParseSymbol, Outside, Inside, Separators, Quote, CR, LF

\* A quote at the start of a cell, or in one that starts with it, toggles.
LEMMA QuoteSymbol ==
    ASSUME NEW row, NEW cell, NEW data, NEW separator \in Separators,
           cell = <<>> \/ Head(cell) = Quote
    PROVE  /\ ParseSymbol(Outside(row, cell, data), Quote, separator)
                  = Inside(row, Append(cell, Quote), data)
           /\ ParseSymbol(Inside(row, cell, data), Quote, separator)
                  = Outside(row, Append(cell, Quote), data)
BY DEF ParseSymbol, TogglesQuoted, Outside, Inside, Separators, Quote, CR, LF

\* Outside quotes a separator ends the cell.
LEMMA SeparatorSymbol ==
    ASSUME NEW row, NEW cell, NEW data, NEW separator \in Separators
    PROVE  ParseSymbol(Outside(row, cell, data), separator, separator)
               = Outside(Append(row, Unquote(cell)), <<>>, data)
BY DEF ParseSymbol, Outside, Inside, Separators, Quote, CR, LF

\* A carriage return is skipped, and a line feed ends the row.
LEMMA LineBreakSymbols ==
    ASSUME NEW row, NEW cell, NEW data, NEW separator \in Separators
    PROVE  /\ ParseSymbol(Outside(row, cell, data), CR, separator) = Outside(row, cell, data)
           /\ ParseSymbol(Outside(row, cell, data), LF, separator)
                  = Outside(<<>>, <<>>, Append(data, Append(row, Unquote(cell))))
BY DEF ParseSymbol, EndOfRow, Outside, Inside, Separators, Quote, CR, LF

\* A cell without quotes and separators.
LEMMA ParsePlain ==
    ASSUME NEW row, NEW data, NEW separator \in Separators, NEW S,
           S \cap {Quote, separator, CR, LF} = {}, NEW cell \in Seq(S)
    PROVE  ParseSymbols(Outside(row, <<>>, data), cell, separator) = Outside(row, cell, data)
<1> DEFINE G == {u \in Seq(S) : ParseSymbols(Outside(row, <<>>, data), u, separator)
                                = Outside(row, u, data)}
<1>1. <<>> \in G
    BY ParseEmpty, EmptySeq
<1>2. ASSUME NEW u \in Seq(S), NEW c \in S, u \in G PROVE Append(u, c) \in G
    <2>1. ParseSymbols(Outside(row, <<>>, data), Append(u, c), separator)
              = ParseSymbol(Outside(row, u, data), c, separator)
        BY <1>2, ParseAppend
    <2>2. ParseSymbol(Outside(row, u, data), c, separator) = Outside(row, Append(u, c), data)
        <3>1. c \notin {Quote, separator, CR, LF}
            OBVIOUS
        <3> QED BY <3>1, PlainSymbol
    <2>3. Append(u, c) \in Seq(S)
        BY AppendProperties
    <2> QED BY <2>1, <2>2, <2>3
<1> HIDE DEF G
<1>3. cell \in G
    BY <1>1, <1>2, SeqInduction
<1> QED BY <1>3 DEF G

\* Doubling quotes, one symbol at a time.
LEMMA DoubledSteps ==
    ASSUME NEW S, Quote \in S
    PROVE  /\ Doubled(<<>>) = <<>>
           /\ \A cell \in Seq(S), c \in S :
                 Doubled(Append(cell, c)) = Doubled(cell) \o (IF c = Quote THEN <<Quote, Quote>> ELSE <<c>>)
<1> DEFINE D(c) == IF c = Quote THEN <<Quote, Quote>> ELSE <<c>>
           Ds(cell) == [i \in DOMAIN cell |-> D(cell[i])]
<1>1. \A cell : Doubled(cell) = FlattenSeq(Ds(cell))
    BY DEF Doubled
<1>2. Ds(<<>>) = <<>>
    BY EmptySeq
<1>3. ASSUME NEW cell \in Seq(S), NEW c \in S
      PROVE  Doubled(Append(cell, c)) = Doubled(cell) \o D(c)
    <2>1. \A x \in S : D(x) \in Seq(S)
        OBVIOUS
    <2> HIDE DEF D
    <2>2. Ds(cell) \in Seq(Seq(S))
        <3>1. Len(cell) \in Nat /\ DOMAIN cell = 1..Len(cell) /\ \A i \in 1..Len(cell) : cell[i] \in S
            BY LenProperties
        <3>2. Ds(cell) \in [1..Len(cell) -> Seq(S)]
            BY <2>1, <3>1
        <3> QED BY <3>1, <3>2, SeqDef
    <2>3. Ds(Append(cell, c)) = Append(Ds(cell), D(c))
        OBVIOUS
    <2> HIDE DEF Ds
    <2>4. FlattenSeq(Append(Ds(cell), D(c))) = FlattenSeq(Ds(cell)) \o D(c)
        BY <2>1, <2>2, FlattenAppend
    <2> QED BY <1>1, <2>3, <2>4
<1> QED BY <1>1, <1>2, <1>3, FlattenEmpty

\* Doubling the quotes adds no other symbols.
LEMMA DoubledType ==
    ASSUME NEW S, Quote \in S, NEW cell \in Seq(S)
    PROVE  Doubled(cell) \in Seq(S)
<1> DEFINE G == {u \in Seq(S) : Doubled(u) \in Seq(S)}
<1>1. <<>> \in G
    BY DoubledSteps, EmptySeq
<1>2. ASSUME NEW u \in Seq(S), NEW c \in S, u \in G PROVE Append(u, c) \in G
    <2> DEFINE d == IF c = Quote THEN <<Quote, Quote>> ELSE <<c>>
    <2>1. d \in Seq(S)
        OBVIOUS
    <2>2. Doubled(Append(u, c)) = Doubled(u) \o d
        BY DoubledSteps
    <2> HIDE DEF d
    <2> QED BY <1>2, <2>1, <2>2, ConcatProperties, AppendProperties
<1> HIDE DEF G
<1>3. cell \in G
    BY <1>1, <1>2, SeqInduction
<1> QED BY <1>3 DEF G

\* A cell in quotes: inside them the separator is a symbol like any other, and
\* of the two quotes that stand for one, each toggles the state.
LEMMA ParseQuotes ==
    ASSUME NEW row, NEW data, NEW separator \in Separators, NEW S,
           S \cap {CR, LF} = {}, Quote \in S, NEW cell \in Seq(S)
    PROVE  ParseSymbols(Outside(row, <<>>, data), <<Quote>> \o Doubled(cell) \o <<Quote>>, separator)
               = Outside(row, <<Quote>> \o Doubled(cell) \o <<Quote>>, data)
<1> DEFINE st == Outside(row, <<>>, data)
           open(u) == <<Quote>> \o Doubled(u)
           G == {u \in Seq(S) : ParseSymbols(st, open(u), separator) = Inside(row, open(u), data)}
<1>0. <<Quote>> \in Seq(S) /\ \A u \in Seq(S) : /\ open(u) \in Seq(S) /\ open(u) # <<>> /\ Head(open(u)) = Quote
    <2> SUFFICES ASSUME NEW u \in Seq(S)
                 PROVE  <<Quote>> \in Seq(S) /\ open(u) \in Seq(S) /\ open(u) # <<>> /\ Head(open(u)) = Quote
        BY EmptySeq
    <2>1. Doubled(u) \in Seq(S) /\ <<Quote>> \in Seq(S) /\ Len(<<Quote>>) = 1 /\ <<Quote>>[1] = Quote
        BY DoubledType
    <2>2. open(u) \in Seq(S) /\ Len(open(u)) = 1 + Len(Doubled(u)) /\ open(u)[1] = Quote
        BY <2>1, ConcatProperties
    <2>3. open(u) # <<>>
        BY <2>1, <2>2, LenProperties, EmptySeq
    <2> QED BY <2>1, <2>2, <2>3, HeadTailProperties
<1>1. <<>> \in G
    <2>1. open(<<>>) = Append(<<>>, Quote)
        <3>1. <<Quote>> \o <<>> = <<Quote>>
            BY <1>0, ConcatEmptySeq
        <3>2. Append(<<>>, Quote) = <<Quote>>
            OBVIOUS
        <3> QED BY <3>1, <3>2, DoubledSteps
    <2>2. ParseSymbols(st, Append(<<>>, Quote), separator) = ParseSymbol(ParseSymbols(st, <<>>, separator), Quote, separator)
        BY ParseAppend, EmptySeq
    <2>3. ParseSymbols(st, <<>>, separator) = st
        BY ParseEmpty
    <2>4. ParseSymbol(st, Quote, separator) = Inside(row, Append(<<>>, Quote), data)
        <3> DEFINE nothing == <<>>
        <3>1. nothing = <<>> \/ Head(nothing) = Quote
            OBVIOUS
        <3> HIDE DEF nothing
        <3>2. ParseSymbol(Outside(row, nothing, data), Quote, separator) = Inside(row, Append(nothing, Quote), data)
            BY <3>1, QuoteSymbol
        <3> QED BY <3>2 DEF nothing
    <2> QED BY <2>1, <2>2, <2>3, <2>4, EmptySeq
<1>2. ASSUME NEW u \in Seq(S), NEW c \in S, u \in G PROVE Append(u, c) \in G
    <2>1. ParseSymbols(st, open(u), separator) = Inside(row, open(u), data)
        BY <1>2
    <2>2. open(Append(u, c)) = open(u) \o (IF c = Quote THEN <<Quote, Quote>> ELSE <<c>>)
        <3> DEFINE d == IF c = Quote THEN <<Quote, Quote>> ELSE <<c>>
        <3>1. d \in Seq(S)
            OBVIOUS
        <3>2. Doubled(Append(u, c)) = Doubled(u) \o d /\ Doubled(u) \in Seq(S)
            BY DoubledSteps, DoubledType
        <3> HIDE DEF d
        <3>3. <<Quote>> \o (Doubled(u) \o d) = (<<Quote>> \o Doubled(u)) \o d
            BY <1>0, <3>1, <3>2, ConcatAssociative, SMTT(40)
        <3> QED BY <3>2, <3>3 DEF d
    <2>3. open(u) \in Seq(S) /\ open(u) # <<>> /\ Head(open(u)) = Quote
        BY <1>0
    <2> DEFINE o == open(u)
    <2>4. Append(u, c) \in Seq(S)
        BY AppendProperties
    <2> HIDE DEF open
    <2> SUFFICES ParseSymbols(st, open(Append(u, c)), separator) = Inside(row, open(Append(u, c)), data)
        BY <2>4
    <2>5. CASE c # Quote
        <3>1. open(Append(u, c)) = Append(o, c)
            BY <2>2, <2>3, <2>5, AppendIsConcat
        <3>2. ParseSymbols(st, Append(o, c), separator) = ParseSymbol(Inside(row, o, data), c, separator)
            BY <2>1, <2>3, ParseAppend
        <3>3. c \notin {Quote, CR, LF}
            BY <2>5
        <3>4. ParseSymbol(Inside(row, o, data), c, separator) = Inside(row, Append(o, c), data)
            BY <3>3, QuotedSymbol
        <3> QED BY <3>1, <3>2, <3>4
    <2>6. CASE c = Quote
        <3>1. Append(o, Quote) \in Seq(S) /\ Append(o, Quote) # <<>> /\ Head(Append(o, Quote)) = Quote
            BY <2>3
        <3>2. open(Append(u, c)) = Append(Append(o, Quote), Quote)
            <4>1. open(Append(u, c)) = o \o <<Quote, Quote>>
                BY <2>2, <2>6
            <4>2. o \o <<Quote, Quote>> = Append(Append(o, Quote), Quote)
                BY <2>3
            <4> QED BY <4>1, <4>2
        <3>3. ParseSymbols(st, Append(o, Quote), separator) = Outside(row, Append(o, Quote), data)
            <4>1. ParseSymbols(st, Append(o, Quote), separator) = ParseSymbol(Inside(row, o, data), Quote, separator)
                BY <2>1, <2>3, ParseAppend
            <4>2. ParseSymbol(Inside(row, o, data), Quote, separator) = Outside(row, Append(o, Quote), data)
                BY <2>3, QuoteSymbol
            <4> QED BY <4>1, <4>2
        <3>4. ParseSymbols(st, Append(Append(o, Quote), Quote), separator)
                  = ParseSymbol(Outside(row, Append(o, Quote), data), Quote, separator)
            BY <3>1, <3>3, ParseAppend
        <3>5. ParseSymbol(Outside(row, Append(o, Quote), data), Quote, separator)
                  = Inside(row, Append(Append(o, Quote), Quote), data)
            <4> DEFINE p == Append(o, Quote)
            <4>1. Head(p) = Quote
                BY <3>1
            <4> HIDE DEF p
            <4>2. ParseSymbol(Outside(row, p, data), Quote, separator) = Inside(row, Append(p, Quote), data)
                BY <4>1, QuoteSymbol
            <4> QED BY <4>2 DEF p
        <3> QED BY <3>2, <3>4, <3>5
    <2> QED BY <2>5, <2>6
<1>3. cell \in G
    <2> HIDE DEF G
    <2> QED BY <1>1, <1>2, SeqInduction
<1> DEFINE o == open(cell)
<1>4. o \in Seq(S) /\ o # <<>> /\ Head(o) = Quote /\ ParseSymbols(st, o, separator) = Inside(row, o, data)
    BY <1>0, <1>3
<1> HIDE DEF open, o
<1>5. ParseSymbols(st, Append(o, Quote), separator) = ParseSymbol(Inside(row, o, data), Quote, separator)
    BY <1>4, ParseAppend
<1>6. ParseSymbol(Inside(row, o, data), Quote, separator) = Outside(row, Append(o, Quote), data)
    BY <1>4, QuoteSymbol
<1>7. Append(o, Quote) = o \o <<Quote>>
    BY <1>4, AppendIsConcat
<1> QED BY <1>5, <1>6, <1>7 DEF o, open

\* ReplaceString() undoes the doubling, and Unquote() the quotes around it.
LEMMA ReplaceDoubled ==
    ASSUME NEW S, Quote \in S, NEW cell \in Seq(S)
    PROVE  ReplaceString(Doubled(cell)) = cell
<1> DEFINE st == [out |-> <<>>, unpaired |-> FALSE]
           R(u) == [out |-> u, unpaired |-> FALSE]
           G == {u \in Seq(S) : ReplaceRun(st, Doubled(u)) = R(u)}
<1>1. <<>> \in G
    BY DoubledSteps, ReplaceEmpty, EmptySeq
<1>2. ASSUME NEW u \in Seq(S), NEW c \in S, u \in G PROVE Append(u, c) \in G
    <2>1. ReplaceRun(st, Doubled(u)) = R(u) /\ Doubled(u) \in Seq(S) /\ Append(u, c) \in Seq(S)
        BY <1>2, DoubledType, AppendProperties
    <2>2. Doubled(Append(u, c)) = Doubled(u) \o (IF c = Quote THEN <<Quote, Quote>> ELSE <<c>>)
        BY DoubledSteps
    <2> DEFINE d == Doubled(u)
    <2>3. ReplaceRun(st, Append(d, c)) = ReplaceSymbol(R(u), c)
        BY <2>1, ReplaceAppend
    <2>4. CASE c # Quote
        <3>1. Doubled(Append(u, c)) = Append(d, c)
            BY <2>1, <2>2, <2>4, AppendIsConcat
        <3>2. ReplaceSymbol(R(u), c) = R(Append(u, c))
            BY <2>4 DEF ReplaceSymbol
        <3> QED BY <2>1, <2>3, <3>1, <3>2
    <2>5. CASE c = Quote
        <3>1. Doubled(Append(u, c)) = Append(Append(d, Quote), Quote)
            <4>1. Doubled(Append(u, c)) = d \o <<Quote, Quote>>
                BY <2>2, <2>5
            <4> HIDE DEF d
            <4>2. d \in Seq(S)
                BY <2>1 DEF d
            <4>3. d \o <<Quote, Quote>> = Append(Append(d, Quote), Quote)
                BY <4>2
            <4> QED BY <4>1, <4>3
        <3>2. Append(d, Quote) \in Seq(S)
            BY <2>1, AppendProperties
        <3>3. ReplaceRun(st, Append(Append(d, Quote), Quote)) = ReplaceSymbol(ReplaceRun(st, Append(d, Quote)), Quote)
            BY <3>2, ReplaceAppend, ZenonT(40)
        <3>4. ReplaceSymbol(ReplaceSymbol(R(u), Quote), Quote) = R(Append(u, Quote))
            BY DEF ReplaceSymbol
        <3> QED BY <2>1, <2>3, <2>5, <3>1, <3>3, <3>4
    <2> QED BY <2>4, <2>5
<1>3. cell \in G
    <2> HIDE DEF G
    <2> QED BY <1>1, <1>2, SeqInduction
<1>4. ReplaceString(Doubled(cell)) = ReplaceRun(st, Doubled(cell)).out
    BY DEF ReplaceString, ReplaceRun
<1> QED BY <1>3, <1>4


\* Unquoting undoes quoting.
LEMMA UnquoteQuoted ==
    ASSUME NEW separator \in Separators, NEW S, Quote \in S, NEW cell \in Seq(S)
    PROVE  Quoted(cell, separator) \in Seq(S) /\ Unquote(Quoted(cell, separator)) = cell
<1>1. CASE {separator, Quote} \cap ToSet(cell) = {}
    <2>1. Quoted(cell, separator) = cell
        BY <1>1 DEF Quoted
    <2>2. Len(cell) >= 2 => cell[1] # Quote
        BY <1>1, LenProperties DEF ToSet
    <2> QED BY <2>1, <2>2 DEF Unquote
<1>2. CASE {separator, Quote} \cap ToSet(cell) # {}
    <2> DEFINE d == Doubled(cell)
               q == <<Quote>> \o d \o <<Quote>>
    <2>1. Quoted(cell, separator) = q
        BY <1>2 DEF Quoted
    <2>2. d \in Seq(S) /\ <<Quote>> \in Seq(S) /\ Len(<<Quote>>) = 1 /\ <<Quote>>[1] = Quote
        BY DoubledType
    <2>3. ReplaceString(d) = cell
        BY ReplaceDoubled
    <2> HIDE DEF d
    <2>4. /\ q \in Seq(S) /\ Len(q) = Len(d) + 2
          /\ q[1] = Quote /\ q[Len(q)] = Quote
          /\ \A i \in 1..Len(d) : q[i + 1] = d[i]
        BY <2>2
    <2> HIDE DEF q
    <2>5. SubSeq(q, 2, Len(q) - 1) = d
        <3>1. SubSeq(q, 2, Len(q) - 1) \in Seq(S) /\ Len(SubSeq(q, 2, Len(q) - 1)) = Len(d)
            BY <2>2, <2>4
        <3>2. \A i \in 1..Len(d) : SubSeq(q, 2, Len(q) - 1)[i] = d[i]
            BY <2>2, <2>4
        <3> QED BY <2>2, <3>1, <3>2, SeqEqual
    <2>6. Len(q) >= 2
        BY <2>2, <2>4, LenProperties
    <2> QED BY <2>1, <2>3, <2>4, <2>5, <2>6 DEF Unquote
<1> QED BY <1>1, <1>2

\* A cell is read whole, whether or not it is quoted.
LEMMA ParseQuoted ==
    ASSUME NEW row, NEW data, NEW separator \in Separators, NEW S,
           S \cap {CR, LF} = {}, Quote \in S, NEW cell \in Seq(S)
    PROVE  ParseSymbols(Outside(row, <<>>, data), Quoted(cell, separator), separator)
               = Outside(row, Quoted(cell, separator), data)
<1>1. CASE {separator, Quote} \cap ToSet(cell) = {}
    <2> DEFINE T == ToSet(cell)
    <2>1. cell \in Seq(T) /\ T \subseteq S
        BY LenProperties, SeqDef DEF ToSet
    <2>2. T \cap {Quote, separator, CR, LF} = {}
        BY <1>1, <2>1
    <2> HIDE DEF T
    <2>3. ParseSymbols(Outside(row, <<>>, data), cell, separator) = Outside(row, cell, data)
        BY <2>1, <2>2, ParsePlain
    <2> QED BY <1>1, <2>3 DEF Quoted
<1>2. CASE {separator, Quote} \cap ToSet(cell) # {}
    BY <1>2, ParseQuotes DEF Quoted
<1> QED BY <1>1, <1>2

\* A cell that is followed by another.
LEMMA ParseField ==
    ASSUME NEW row, NEW data, NEW separator \in Separators, NEW S,
           S \cap {CR, LF} = {}, {Quote, separator} \subseteq S, NEW cell \in Seq(S), NEW rest \in Seq(S)
    PROVE  ParseSymbols(Outside(row, <<>>, data), Quoted(cell, separator) \o <<separator>> \o rest, separator)
               = ParseSymbols(Outside(Append(row, cell), <<>>, data), rest, separator)
<1> DEFINE q  == Quoted(cell, separator)
           st == Outside(row, <<>>, data)
<1>1. q \in Seq(S) /\ Unquote(q) = cell
    BY UnquoteQuoted
<1>2. ParseSymbols(st, q, separator) = Outside(row, q, data)
    BY ParseQuoted
<1> HIDE DEF q
<1>3. ParseSymbols(st, Append(q, separator), separator) = ParseSymbol(Outside(row, q, data), separator, separator)
    BY <1>1, <1>2, ParseAppend
<1>4. ParseSymbol(Outside(row, q, data), separator, separator) = Outside(Append(row, cell), <<>>, data)
    BY <1>1, SeparatorSymbol
<1>5. q \o <<separator>> = Append(q, separator) /\ Append(q, separator) \in Seq(S)
    BY <1>1, AppendIsConcat, AppendProperties
<1>6. ParseSymbols(st, Append(q, separator) \o rest, separator)
          = ParseSymbols(ParseSymbols(st, Append(q, separator), separator), rest, separator)
    BY <1>5, ParseConcat
<1> QED BY <1>3, <1>4, <1>5, <1>6 DEF q

-----------------------------------------------------------------------------
(* Lines.                                                                  *)

\* What a line is made of.
Printable == Characters \cup {Quote, ",", " ", "=", "%", "/", "32", "set_label", "nkey", "pkey", "ip", "unknown"}

\* None of them is a line break or a byte order mark.
LEMMA PrintableSymbols ==
    /\ Printable \cap {CR, LF, BOM} = {}
    /\ Characters \subseteq Printable
    /\ {Quote, ",", " ", "=", "%", "/", "32", "set_label", "nkey", "pkey", "ip", "unknown"} \subseteq Printable
    /\ \A s \in Text : s \in Seq(Printable)
BY CharactersAssumption, SeqMonotonic DEF Printable, Quote, CR, LF, BOM, Text

\* The cells of a line.
RowCells(style, r) ==
    IF style = "csv" THEN IF r.full THEN <<r.ip, r.node, r.platform>> ELSE <<r.ip, r.node>>
    ELSE <<PtmLabelOf(r), PtmAddress(r)>>

\* What the reader has of a line before the line break: all cells but the last,
\* and that one as it is written.
Parsed(line, separator, cells) ==
    /\ line \in Seq(Printable)
    /\ \A data : \E row, cell :
          /\ ParseSymbols(Outside(<<>>, <<>>, data), line, separator) = Outside(row, cell, data)
          /\ Append(row, Unquote(cell)) = cells
          /\ line # <<>> => row # <<>> \/ cell # <<>>

\* A pair and a triple, built by appending.
LEMMA AppendPair ==
    ASSUME NEW S, NEW t \in Seq(S), NEW a \in S, NEW b \in S, Len(t) = 1, t[1] = a
    PROVE  Append(t, b) = <<a, b>>
<1> DEFINE two == <<a, b>>
<1>1. two \in Seq(S) /\ Len(two) = 2 /\ two[1] = a /\ two[2] = b
    OBVIOUS
<1> HIDE DEF two
<1> DEFINE u == Append(t, b)
<1>2. u \in Seq(S) /\ Len(u) = Len(t) + 1 /\ (\A i \in 1..Len(t) : u[i] = t[i]) /\ u[Len(t) + 1] = b
    <2>1. u \in Seq(S)
        BY AppendProperties
    <2>2. Len(u) = Len(t) + 1
        BY AppendProperties
    <2>3. \A i \in 1..Len(t) : u[i] = t[i]
        BY AppendProperties
    <2>4. u[Len(t) + 1] = b
        BY AppendProperties
    <2> QED BY <2>1, <2>2, <2>3, <2>4
<1> HIDE DEF u
<1>3. \A i \in 1..Len(u) : u[i] = two[i]
    BY <1>1, <1>2
<1>4. u = two
    BY <1>1, <1>2, <1>3, SeqEqual
<1> QED BY <1>4 DEF two, u

\* A pair with a third element.
LEMMA AppendTriple ==
    ASSUME NEW S, NEW t \in Seq(S), NEW a \in S, NEW b \in S, NEW c \in S, Len(t) = 2, t[1] = a, t[2] = b
    PROVE  Append(t, c) = <<a, b, c>>
<1> DEFINE three == <<a, b, c>>
<1>1. three \in Seq(S) /\ Len(three) = 3 /\ three[1] = a /\ three[2] = b /\ three[3] = c
    OBVIOUS
<1> HIDE DEF three
<1> DEFINE u == Append(t, c)
<1>2. u \in Seq(S) /\ Len(u) = Len(t) + 1 /\ (\A i \in 1..Len(t) : u[i] = t[i]) /\ u[Len(t) + 1] = c
    BY AppendProperties
<1> HIDE DEF u
<1>3. \A i \in 1..Len(u) : u[i] = three[i]
    BY <1>1, <1>2
<1>4. u = three
    BY <1>1, <1>2, <1>3, SeqEqual
<1> QED BY <1>4 DEF three, u

\* One, two and three elements appended to nothing.
LEMMA Tuples ==
    ASSUME NEW S, NEW a \in S, NEW b \in S, NEW c \in S
    PROVE  /\ Append(<<>>, a) = <<a>> /\ Append(<<>>, a) # <<>>
           /\ Append(Append(<<>>, a), b) = <<a, b>> /\ Append(Append(<<>>, a), b) # <<>>
           /\ Append(Append(Append(<<>>, a), b), c) = <<a, b, c>>
<1> DEFINE s == Append(<<>>, a)
<1>1. s \in Seq(S) /\ Len(s) = 1 /\ s[1] = a /\ s = <<a>>
    OBVIOUS
<1> HIDE DEF s
<1>2. Append(s, b) = <<a, b>>
    BY <1>1, AppendPair
<1> DEFINE t == Append(s, b)
<1>3. t \in Seq(S) /\ Len(t) = 2 /\ t[1] = a /\ t[2] = b
    BY <1>1, AppendProperties
<1> HIDE DEF t
<1>4. Append(t, c) = <<a, b, c>>
    BY <1>3, AppendTriple
<1> QED BY <1>1, <1>2, <1>3, <1>4, EmptySeq DEF s, t

\* A line of one, two and three cells, each quoted when it has to be.
LEMMA OneCell ==
    ASSUME NEW separator \in Separators, NEW a \in Seq(Printable)
    PROVE  Parsed(Quoted(a, separator), separator, <<a>>)
<1>1. Printable \cap {CR, LF} = {} /\ Quote \in Printable
    BY PrintableSymbols
<1>2. Quoted(a, separator) \in Seq(Printable) /\ Unquote(Quoted(a, separator)) = a
    BY <1>1, UnquoteQuoted
<1>3. ASSUME NEW data
      PROVE  \E row, cell :
                /\ ParseSymbols(Outside(<<>>, <<>>, data), Quoted(a, separator), separator) = Outside(row, cell, data)
                /\ Append(row, Unquote(cell)) = <<a>>
                /\ Quoted(a, separator) # <<>> => row # <<>> \/ cell # <<>>
    <2> DEFINE nothing == <<>>
               q == Quoted(a, separator)
    <2>1. Append(nothing, Unquote(q)) = <<a>>
        <3>1. Unquote(q) = a /\ Append(nothing, a) = <<a>>
            BY <1>2, Tuples
        <3> HIDE DEF q, nothing
        <3> QED BY <3>1
    <2> HIDE DEF nothing
    <2>2. ParseSymbols(Outside(nothing, <<>>, data), q, separator) = Outside(nothing, q, data)
        BY <1>1, ParseQuoted
    <2> HIDE DEF q
    <2>3. \E row, cell :
                /\ ParseSymbols(Outside(nothing, <<>>, data), q, separator) = Outside(row, cell, data)
                /\ Append(row, Unquote(cell)) = <<a>>
                /\ q # <<>> => row # <<>> \/ cell # <<>>
        BY <2>1, <2>2, Zenon
    <2> QED BY <2>3 DEF nothing, q
<1> QED BY <1>2, <1>3 DEF Parsed

\* Two cells and the separator between them.
LEMMA TwoCells ==
    ASSUME NEW separator \in Separators, separator \in Printable, NEW a \in Seq(Printable), NEW b \in Seq(Printable)
    PROVE  Parsed(Quoted(a, separator) \o <<separator>> \o Quoted(b, separator), separator, <<a, b>>)
<1> DEFINE p == Quoted(a, separator)
           q == Quoted(b, separator)
           line == p \o <<separator>> \o q
<1>1. Printable \cap {CR, LF} = {} /\ {Quote, separator} \subseteq Printable /\ Quote \in Printable
    BY PrintableSymbols
<1>2. q \in Seq(Printable) /\ Unquote(q) = b /\ p \in Seq(Printable)
    BY <1>1, UnquoteQuoted
<1>3. line \in Seq(Printable)
    <2> HIDE DEF p, q
    <2> QED BY <1>1, <1>2
<1>4. ASSUME NEW data
      PROVE  \E row, cell :
                /\ ParseSymbols(Outside(<<>>, <<>>, data), line, separator) = Outside(row, cell, data)
                /\ Append(row, Unquote(cell)) = <<a, b>>
                /\ line # <<>> => row # <<>> \/ cell # <<>>
    <2> DEFINE nothing == <<>>
               first == Append(nothing, a)
    <2>1. Append(first, Unquote(q)) = <<a, b>> /\ first # <<>>
        <3>1. Unquote(q) = b
            BY <1>2
        <3> HIDE DEF q
        <3> QED BY <3>1, Tuples
    <2> HIDE DEF nothing
    <2>2. ParseSymbols(Outside(nothing, <<>>, data), line, separator)
              = ParseSymbols(Outside(first, <<>>, data), q, separator)
        <3> HIDE DEF q
        <3> QED BY <1>1, <1>2, ParseField
    <2> HIDE DEF first
    <2>3. ParseSymbols(Outside(first, <<>>, data), q, separator) = Outside(first, q, data)
        BY <1>1, ParseQuoted
    <2> HIDE DEF q, line
    <2>4. \E row, cell :
                /\ ParseSymbols(Outside(nothing, <<>>, data), line, separator) = Outside(row, cell, data)
                /\ Append(row, Unquote(cell)) = <<a, b>>
                /\ line # <<>> => row # <<>> \/ cell # <<>>
        BY <2>1, <2>2, <2>3, Zenon
    <2> QED BY <2>4 DEF nothing
<1> QED BY <1>3, <1>4 DEF Parsed

\* Three cells and their separators.
LEMMA ThreeCells ==
    ASSUME NEW separator \in Separators, separator \in Printable,
           NEW a \in Seq(Printable), NEW b \in Seq(Printable), NEW c \in Seq(Printable)
    PROVE  Parsed(Quoted(a, separator) \o <<separator>>
                      \o (Quoted(b, separator) \o <<separator>> \o Quoted(c, separator)), separator, <<a, b, c>>)
<1> DEFINE p == Quoted(a, separator)
           q == Quoted(b, separator)
           r == Quoted(c, separator)
           rest == q \o <<separator>> \o r
           line == p \o <<separator>> \o rest
<1>1. Printable \cap {CR, LF} = {} /\ {Quote, separator} \subseteq Printable /\ Quote \in Printable
    BY PrintableSymbols
<1>2. q \in Seq(Printable) /\ r \in Seq(Printable) /\ Unquote(r) = c /\ p \in Seq(Printable)
    BY <1>1, UnquoteQuoted
<1>3. rest \in Seq(Printable) /\ line \in Seq(Printable)
    <2> HIDE DEF p, q, r
    <2>1. rest \in Seq(Printable)
        BY <1>1, <1>2
    <2> HIDE DEF rest
    <2> QED BY <1>1, <1>2, <2>1
<1>4. ASSUME NEW data
      PROVE  \E row, cell :
                /\ ParseSymbols(Outside(<<>>, <<>>, data), line, separator) = Outside(row, cell, data)
                /\ Append(row, Unquote(cell)) = <<a, b, c>>
                /\ line # <<>> => row # <<>> \/ cell # <<>>
    <2> DEFINE nothing == <<>>
               first == Append(nothing, a)
               second == Append(first, b)
    <2>1. Append(second, Unquote(r)) = <<a, b, c>> /\ second # <<>>
        <3>1. Unquote(r) = c
            BY <1>2
        <3> HIDE DEF r
        <3> QED BY <3>1, Tuples
    <2> HIDE DEF nothing
    <2>2. ParseSymbols(Outside(nothing, <<>>, data), line, separator)
              = ParseSymbols(Outside(first, <<>>, data), rest, separator)
        <3>1. rest \in Seq(Printable)
            BY <1>3
        <3> HIDE DEF rest
        <3> QED BY <1>1, <3>1, ParseField
    <2> HIDE DEF first
    <2>3. ParseSymbols(Outside(first, <<>>, data), rest, separator)
              = ParseSymbols(Outside(second, <<>>, data), r, separator)
        <3> HIDE DEF r
        <3> QED BY <1>1, <1>2, ParseField
    <2> HIDE DEF second
    <2>4. ParseSymbols(Outside(second, <<>>, data), r, separator) = Outside(second, r, data)
        BY <1>1, ParseQuoted
    <2> HIDE DEF rest, line, r
    <2>5. \E row, cell :
                /\ ParseSymbols(Outside(nothing, <<>>, data), line, separator) = Outside(row, cell, data)
                /\ Append(row, Unquote(cell)) = <<a, b, c>>
                /\ line # <<>> => row # <<>> \/ cell # <<>>
        BY <2>1, <2>2, <2>3, <2>4, Zenon
    <2> QED BY <2>5 DEF nothing
<1> QED BY <1>3, <1>4 DEF Parsed


\* The pieces of text the lines of a pretag map are made with.
LEMMA Pieces ==
    /\ <<",">> \in Seq(Printable) /\ <<"unknown">> \in Seq(Printable)
    /\ <<"set_label", "=", "nkey", "%">> \in Seq(Printable) /\ <<"%", "pkey", "%">> \in Seq(Printable)
    /\ <<"set_label", "=">> \in Seq(Printable)
    /\ <<"ip", "=">> \in Seq({"ip", "="}) /\ <<"/", "32">> \in Seq({"/", "32"})
    /\ <<"ip", "=">> \in Seq(Printable) /\ <<"/", "32">> \in Seq(Printable)
<1> DEFINE T == {",", "=", "%", "/", "32", "set_label", "nkey", "pkey", "ip", "unknown"}
<1>1. /\ <<",">> \in Seq(T) /\ <<"unknown">> \in Seq(T)
      /\ <<"set_label", "=", "nkey", "%">> \in Seq(T) /\ <<"%", "pkey", "%">> \in Seq(T)
      /\ <<"set_label", "=">> \in Seq(T)
      /\ <<"ip", "=">> \in Seq(T) /\ <<"/", "32">> \in Seq(T)
    OBVIOUS
<1>2. <<"ip", "=">> \in Seq({"ip", "="}) /\ <<"/", "32">> \in Seq({"/", "32"})
    OBVIOUS
<1>3. T \subseteq Printable
    BY PrintableSymbols
<1> HIDE DEF T
<1>4. \A s \in Seq(T) : s \in Seq(Printable)
    BY <1>3, SeqMonotonic
<1> QED BY <1>1, <1>2, <1>4, Zenon

\* A sequence over a set holds elements of the set.
LEMMA SymbolsOf ==
    ASSUME NEW S, NEW s \in Seq(S)
    PROVE  ToSet(s) \subseteq S
BY LenProperties DEF ToSet

\* The lines of the two styles, the sentinel and a blank line.
LEMMA Regroup ==
    ASSUME NEW S, NEW a \in Seq(S), NEW b \in Seq(S), NEW c \in Seq(S), NEW d \in Seq(S)
    PROVE  Joined(Joined(Joined(a, b), c), Joined(b, d)) = Joined(Joined(a, b), Joined(Joined(c, b), d))
<1> DEFINE x == a \o b
           y == b \o d
<1>1. x \in Seq(S) /\ y \in Seq(S)
    BY ConcatProperties
<1>2. c \o y = c \o b \o d
    BY ConcatAssociative, SMTT(40)
<1> HIDE DEF x, y
<1>3. (x \o c) \o y = x \o (c \o y)
    BY <1>1, ConcatAssociative, SMTT(40)
<1> QED BY <1>2, <1>3 DEF x, y, Joined

\* A line of a CSV file has the address, the node name and, unless it lacks it, the platform.
LEMMA CsvLineParsed ==
    ASSUME NEW r \in Row
    PROVE  Parsed(CsvLine(r), ",", RowCells("csv", r))
<1> DEFINE i1 == Quoted(r.ip, ",")
           n1 == Quoted(r.node, ",")
           p1 == Quoted(r.platform, ",")
           c1 == <<",">>
<1>1. /\ Quote \in Printable /\ "," \in Separators /\ "," \in Printable /\ r.full \in BOOLEAN
      /\ r.ip \in Seq(Printable) /\ r.node \in Seq(Printable) /\ r.platform \in Seq(Printable)
    BY PrintableSymbols DEF Row, Separators
<1>2. i1 \in Seq(Printable) /\ n1 \in Seq(Printable) /\ p1 \in Seq(Printable) /\ c1 \in Seq(Printable)
    BY <1>1, UnquoteQuoted, Pieces, Zenon
<1>3. CASE r.full
    <2>1. CsvLine(r) = i1 \o c1 \o (n1 \o c1 \o p1)
        <3>1. CsvLine(r) = (i1 \o c1 \o n1) \o (c1 \o p1)
            BY <1>3 DEF CsvLine
        <3> HIDE DEF i1, n1, p1, c1
        <3>2. (i1 \o c1 \o n1) \o (c1 \o p1) = i1 \o c1 \o (n1 \o c1 \o p1)
            <4>1. Joined(Joined(Joined(i1, c1), n1), Joined(c1, p1))
                      = Joined(Joined(i1, c1), Joined(Joined(n1, c1), p1))
                BY <1>2, Regroup
            <4> QED BY <4>1 DEF Joined
        <3> QED BY <3>1, <3>2
    <2>2. Parsed(i1 \o c1 \o (n1 \o c1 \o p1), ",", <<r.ip, r.node, r.platform>>)
        BY <1>1, ThreeCells
    <2> QED BY <1>3, <2>1, <2>2 DEF RowCells
<1>4. CASE ~r.full
    <2>1. CsvLine(r) = i1 \o c1 \o n1
        <3>1. CsvLine(r) = (i1 \o c1 \o n1) \o <<>>
            BY <1>4 DEF CsvLine
        <3> HIDE DEF i1, n1, p1, c1
        <3>2. (i1 \o c1 \o n1) \o <<>> = i1 \o c1 \o n1
            BY <1>2
        <3> QED BY <3>1, <3>2
    <2>2. Parsed(i1 \o c1 \o n1, ",", <<r.ip, r.node>>)
        BY <1>1, TwoCells
    <2> QED BY <1>4, <2>1, <2>2 DEF RowCells
<1> QED BY <1>3, <1>4

\* A text without some symbols.
LEMMA Without ==
    ASSUME NEW S, NEW X, NEW s \in Seq(S), ToSet(s) \cap X = {}
    PROVE  s \in Seq(S \ X)
<1>1. DOMAIN s = 1..Len(s) /\ Len(s) \in Nat /\ \A i \in 1..Len(s) : s[i] \in S /\ s = [j \in 1..Len(s) |-> s[j]]
    BY LenProperties
<1>2. \A i \in 1..Len(s) : s[i] \in S \ X
    BY <1>1 DEF ToSet
<1> QED BY <1>1, <1>2, SeqDef

\* The address of a pretag line needs no quotes.
LEMMA PtmAddressQuoted ==
    ASSUME NEW r \in Row, ToSet(r.ip) \cap {" ", Quote, "/"} = {}
    PROVE  /\ PtmAddress(r) \in Seq(Printable)
           /\ Quoted(PtmAddress(r), " ") = PtmAddress(r)
<1> DEFINE front == <<"ip", "=">>
           m == IF r.mask THEN <<"/", "32">> ELSE <<>>
           T == Printable \ {" ", Quote}
<1>1. r.ip \in Seq(T)
    <2>1. r.ip \in Seq(Printable) /\ ToSet(r.ip) \cap {" ", Quote} = {}
        BY PrintableSymbols DEF Row
    <2> QED BY <2>1, Without
<1>2. front \in Seq(T) /\ m \in Seq(T)
    <2>1. front \in Seq({"ip", "="}) /\ m \in Seq({"/", "32"})
        BY Pieces, EmptySeq
    <2>2. {"ip", "="} \subseteq T /\ {"/", "32"} \subseteq T
        BY PrintableSymbols DEF Quote
    <2> HIDE DEF front, m, T
    <2> QED BY <2>1, <2>2, SeqMonotonic
<1>3. PtmAddress(r) = (front \o r.ip) \o m
    BY DEF PtmAddress
<1>4. PtmAddress(r) \in Seq(T)
    <2> HIDE DEF front, m, T
    <2>1. front \o r.ip \in Seq(T)
        BY <1>1, <1>2, ConcatProperties
    <2> QED BY <1>2, <1>3, <2>1, ConcatProperties, ZenonT(40)
<1>5. PtmAddress(r) \in Seq(Printable)
    <2>1. T \subseteq Printable
        OBVIOUS
    <2> HIDE DEF T
    <2> QED BY <1>4, <2>1, SeqMonotonic
<1>6. ToSet(PtmAddress(r)) \subseteq T
    <2> HIDE DEF T
    <2> QED BY <1>4, SymbolsOf
<1> QED BY <1>5, <1>6 DEF Quoted

\* A label is text.
LEMMA PtmLabelType ==
    \A node, platform \in Seq(Printable) : PtmLabel(node, platform) \in Seq(Printable)
<1> SUFFICES ASSUME NEW node \in Seq(Printable), NEW platform \in Seq(Printable)
             PROVE  PtmLabel(node, platform) \in Seq(Printable)
    OBVIOUS
<1> DEFINE a == <<"set_label", "=", "nkey", "%">>
           b == <<"%", "pkey", "%">>
<1>1. a \in Seq(Printable) /\ b \in Seq(Printable)
    BY Pieces, Zenon
<1>2. PtmLabel(node, platform) = a \o node \o b \o platform
    BY DEF PtmLabel
<1> HIDE DEF a, b
<1> QED BY <1>1, <1>2

\* The label of a row is text.
LEMMA PtmLabelOfType ==
    ASSUME NEW r \in Row
    PROVE  PtmLabelOf(r) \in Seq(Printable)
<1> DEFINE a == <<"set_label", "=">>
<1>1. r.node \in Seq(Printable) /\ r.platform \in Seq(Printable) /\ a \in Seq(Printable)
    BY PrintableSymbols, Pieces DEF Row
<1>2. a \o r.platform \in Seq(Printable)
    <2> HIDE DEF a
    <2> QED BY <1>1
<1> QED BY <1>1, <1>2, PtmLabelType DEF PtmLabelOf

\* A line of a pretag file has the label and the address.
LEMMA PtmLineParsed ==
    ASSUME NEW r \in Row, ToSet(r.ip) \cap {" ", Quote, "/"} = {}
    PROVE  Parsed(PtmLine(r), " ", RowCells("ptm", r))
<1>1. PtmLabelOf(r) \in Seq(Printable) /\ PtmAddress(r) \in Seq(Printable)
    BY PtmLabelOfType, PtmAddressQuoted
<1>2. " " \in Separators /\ " " \in Printable
    BY PrintableSymbols DEF Separators
<1>3. Parsed(Quoted(PtmLabelOf(r), " ") \o <<" ">> \o Quoted(PtmAddress(r), " "), " ",
             <<PtmLabelOf(r), PtmAddress(r)>>)
    BY <1>1, <1>2, TwoCells
<1> QED BY <1>3, PtmAddressQuoted DEF PtmLine, RowCells

Sentinel == PtmLabel(<<"unknown">>, <<"unknown">>)

\* The sentinel is a line of one cell.
LEMMA SentinelParsed ==
    ASSUME NEW separator \in Separators
    PROVE  Parsed(Sentinel, separator, <<Sentinel>>)
<1>1. Sentinel \in Seq(Printable)
    <2>1. <<"unknown">> \in Seq(Printable)
        BY Pieces, Zenon
    <2> QED BY <2>1, PtmLabelType DEF Sentinel
<1>2. Quoted(Sentinel, separator) = Sentinel
    <2> DEFINE a == <<"set_label", "=", "nkey", "%">>
               b == <<"%", "pkey", "%">>
               u == <<"unknown">>
               S == {"set_label", "=", "nkey", "%", "pkey", "unknown"}
    <2>1. a \in Seq(S) /\ b \in Seq(S) /\ u \in Seq(S)
        OBVIOUS
    <2>2. S \cap {separator, Quote} = {}
        BY DEF Separators, Quote
    <2>3. Sentinel = a \o u \o b \o u
        BY DEF Sentinel, PtmLabel
    <2> HIDE DEF a, b, u, S
    <2>4. Sentinel \in Seq(S)
        BY <2>1, <2>3
    <2>5. ToSet(Sentinel) \subseteq S
        BY <2>4, LenProperties DEF ToSet
    <2> QED BY <2>2, <2>5 DEF Quoted
<1> QED BY <1>1, <1>2, OneCell

\* A blank line is one empty cell.
LEMMA BlankParsed ==
    ASSUME NEW separator \in Separators
    PROVE  Parsed(<<>>, separator, <<<<>>>>)
<1> DEFINE nothing == <<>>
<1>1. nothing \in Seq(Printable) /\ ToSet(nothing) = {}
    BY EmptySeq DEF ToSet
<1> HIDE DEF nothing
<1>2. Quoted(nothing, separator) = nothing
    BY <1>1 DEF Quoted
<1>3. Parsed(Quoted(nothing, separator), separator, <<nothing>>)
    BY <1>1, OneCell
<1> QED BY <1>2, <1>3 DEF nothing

-----------------------------------------------------------------------------
(* Files.                                                                  *)

\* Lines, and the cells the reader has of each.
AllParsed(lines, separator, cells) ==
    /\ lines \in Seq(Seq(Printable))
    /\ cells \in Seq(Seq(Seq(Printable)))
    /\ Len(lines) = Len(cells)
    /\ \A i \in 1..Len(lines) : Parsed(lines[i], separator, cells[i])

\* Of two blocks of lines, one behind the other.
LEMMA AllParsedConcat ==
    ASSUME NEW separator, NEW l1, NEW c1, NEW l2, NEW c2,
           AllParsed(l1, separator, c1), AllParsed(l2, separator, c2)
    PROVE  AllParsed(l1 \o l2, separator, c1 \o c2)
<1> DEFINE L == Seq(Printable)
           C == Seq(Seq(Printable))
           l == l1 \o l2
           c == c1 \o c2
<1>1. /\ l1 \in Seq(L) /\ l2 \in Seq(L) /\ c1 \in Seq(C) /\ c2 \in Seq(C)
      /\ Len(l1) = Len(c1) /\ Len(l2) = Len(c2)
      /\ \A i \in 1..Len(l1) : Parsed(l1[i], separator, c1[i])
      /\ \A i \in 1..Len(l2) : Parsed(l2[i], separator, c2[i])
    BY DEF AllParsed
<1> HIDE DEF L, C
<1>2. /\ l \in Seq(L) /\ Len(l) = Len(l1) + Len(l2)
      /\ \A i \in 1..Len(l) : l[i] = IF i <= Len(l1) THEN l1[i] ELSE l2[i - Len(l1)]
    <2>1. l1 \in Seq(L) /\ l2 \in Seq(L)
        BY <1>1
    <2> QED BY <2>1, ConcatProperties
<1>3. /\ c \in Seq(C) /\ Len(c) = Len(c1) + Len(c2)
      /\ \A i \in 1..Len(c) : c[i] = IF i <= Len(c1) THEN c1[i] ELSE c2[i - Len(c1)]
    BY <1>1, ConcatProperties
<1> HIDE DEF l, c
<1>4. Len(l) = Len(c) /\ Len(l1) \in Nat /\ Len(l2) \in Nat
    BY <1>1, <1>2, <1>3, LenProperties
<1>5. ASSUME NEW i \in 1..Len(l) PROVE Parsed(l[i], separator, c[i])
    <2>1. CASE i <= Len(l1)
        <3>1. l[i] = l1[i] /\ c[i] = c1[i] /\ i \in 1..Len(l1)
            BY <1>1, <1>2, <1>3, <1>4, <2>1
        <3> QED BY <1>1, <3>1
    <2>2. CASE ~(i <= Len(l1))
        <3>1. l[i] = l2[i - Len(l1)] /\ c[i] = c2[i - Len(l1)]
            BY <1>1, <1>2, <1>3, <1>4, <2>2
        <3>2. i - Len(l1) \in 1..Len(l2)
            BY <1>2, <1>4, <2>2
        <3> QED BY <1>1, <3>1, <3>2
    <2> QED BY <2>1, <2>2
<1> QED BY <1>2, <1>3, <1>4, <1>5 DEF AllParsed, L, C, l, c

\* Of no lines.
LEMMA AllParsedEmpty ==
    ASSUME NEW separator
    PROVE  AllParsed(<<>>, separator, <<>>)
<1>1. Len(<<>>) = 0
    OBVIOUS
<1> QED BY <1>1, EmptySeq DEF AllParsed

\* Of one line.
LEMMA AllParsedOne ==
    ASSUME NEW separator, NEW line, NEW cells \in Seq(Seq(Printable)), Parsed(line, separator, cells)
    PROVE  AllParsed(<<line>>, separator, <<cells>>)
<1> DEFINE L == Seq(Printable)
           C == Seq(Seq(Printable))
           l == <<line>>
           c == <<cells>>
<1>1. line \in L /\ cells \in C
    BY DEF Parsed
<1> HIDE DEF L, C
<1>2. l \in Seq(L) /\ c \in Seq(C) /\ Len(l) = 1 /\ Len(c) = 1 /\ l[1] = line /\ c[1] = cells
    BY <1>1
<1> HIDE DEF l, c
<1>3. \A i \in 1..Len(l) : Parsed(l[i], separator, c[i])
    <2>1. \A i \in 1..Len(l) : i = 1
        BY <1>2
    <2> QED BY <1>2, <2>1
<1> QED BY <1>2, <1>3 DEF AllParsed, L, C, l, c

\* The ends of lines.
LineEnds == {<<LF>>, <<CR, LF>>}

\* A line with its end adds its cells as a row.
LEMMA LineRead ==
    ASSUME NEW separator \in Separators, NEW line, NEW cells, Parsed(line, separator, cells),
           NEW eol \in LineEnds, NEW data
    PROVE  ParseSymbols(Outside(<<>>, <<>>, data), line \o eol, separator)
               = Outside(<<>>, <<>>, Append(data, cells))
<1> DEFINE S == Printable \cup {CR, LF}
           st == Outside(<<>>, <<>>, data)
<1>1. line \in Seq(S) /\ CR \in S /\ LF \in S
    <2>1. line \in Seq(Printable)
        BY DEF Parsed
    <2> QED BY <2>1, SeqMonotonic
<1>2. PICK row, cell : /\ ParseSymbols(st, line, separator) = Outside(row, cell, data)
                       /\ Append(row, Unquote(cell)) = cells
    BY DEF Parsed
<1> HIDE DEF S, st
<1>3. CASE eol = <<LF>>
    <2>1. line \o eol = Append(line, LF)
        BY <1>1, <1>3, AppendIsConcat
    <2>2. ParseSymbols(st, Append(line, LF), separator) = ParseSymbol(Outside(row, cell, data), LF, separator)
        BY <1>1, <1>2, ParseAppend
    <2> QED BY <1>2, <2>1, <2>2, LineBreakSymbols DEF st
<1>4. CASE eol = <<CR, LF>>
    <2>1. line \o eol = Append(Append(line, CR), LF)
        BY <1>1, <1>4
    <2>2. Append(line, CR) \in Seq(S)
        BY <1>1, AppendProperties
    <2>3. ParseSymbols(st, Append(line, CR), separator) = ParseSymbol(Outside(row, cell, data), CR, separator)
        BY <1>1, <1>2, ParseAppend
    <2>4. ParseSymbol(Outside(row, cell, data), CR, separator) = Outside(row, cell, data)
        BY LineBreakSymbols
    <2>5. ParseSymbols(st, Append(Append(line, CR), LF), separator)
              = ParseSymbol(Outside(row, cell, data), LF, separator)
        BY <1>1, <2>2, <2>3, <2>4, ParseAppend
    <2> QED BY <1>2, <2>1, <2>5, LineBreakSymbols DEF st
<1> QED BY <1>3, <1>4 DEF LineEnds

\* The first n of the lines of a file, each with its end.
Ended(lines, eol, n) == FlattenSeq([i \in 1..n |-> lines[i] \o eol])

\* They grow by a line at a time.
LEMMA EndedSteps ==
    ASSUME NEW S, NEW lines \in Seq(Seq(S)), NEW eol \in Seq(S)
    PROVE  /\ Ended(lines, eol, 0) = <<>>
           /\ \A n \in 0..Len(lines) : Ended(lines, eol, n) \in Seq(S)
           /\ \A n \in 1..Len(lines) : Ended(lines, eol, n) = Ended(lines, eol, n - 1) \o (lines[n] \o eol)
<1> DEFINE E(n) == [i \in 1..n |-> lines[i] \o eol]
           x(i) == lines[i] \o eol
<1>1. Len(lines) \in Nat /\ \A i \in 1..Len(lines) : lines[i] \in Seq(S)
    BY LenProperties
<1>2. \A i \in 1..Len(lines) : x(i) \in Seq(S)
    BY <1>1, ConcatProperties
<1>3. E(0) = <<>>
    BY EmptySeq
<1>4. ASSUME NEW n \in 1..Len(lines)
      PROVE  E(n - 1) \in Seq(Seq(S)) /\ E(n) = Append(E(n - 1), x(n))
    <2> HIDE DEF x
    <2>1. E(n - 1) \in [1..(n - 1) -> Seq(S)] /\ n - 1 \in Nat /\ n \in Nat
        BY <1>1, <1>2, <1>4 DEF x
    <2>2. E(n - 1) \in Seq(Seq(S)) /\ Len(E(n - 1)) = n - 1
        BY <2>1, SeqDef, LenProperties
    <2>3. E(n) \in [1..n -> Seq(S)]
        BY <1>1, <1>2, <1>4 DEF x
    <2>4. E(n) \in Seq(Seq(S)) /\ Len(E(n)) = n
        BY <2>1, <2>3, SeqDef, LenProperties
    <2>5. x(n) \in Seq(S)
        BY <1>2
    <2> DEFINE e == Append(E(n - 1), x(n))
    <2>6. e \in Seq(Seq(S)) /\ Len(e) = n /\ e[n] = x(n) /\ \A i \in 1..(n - 1) : e[i] = E(n - 1)[i]
        <3> DEFINE f == E(n - 1)
        <3>1. f \in Seq(Seq(S)) /\ Len(f) + 1 = n /\ Len(f) = n - 1
            BY <2>1, <2>2
        <3> HIDE DEF f
        <3>2. Append(f, x(n)) \in Seq(Seq(S)) /\ Len(Append(f, x(n))) = Len(f) + 1
            BY <2>5, <3>1, AppendProperties
        <3>3. Append(f, x(n))[Len(f) + 1] = x(n) /\ \A i \in 1..Len(f) : Append(f, x(n))[i] = f[i]
            BY <2>5, <3>1, AppendProperties
        <3> QED BY <3>1, <3>2, <3>3 DEF f
    <2>7. \A i \in 1..n : E(n)[i] = x(i)
        BY DEF x
    <2>8. \A i \in 1..(n - 1) : E(n - 1)[i] = x(i)
        BY DEF x
    <2> HIDE DEF e, E
    <2>9. \A i \in 1..n : E(n)[i] = e[i]
        <3> SUFFICES ASSUME NEW i \in 1..n PROVE E(n)[i] = e[i]
            OBVIOUS
        <3>1. CASE i = n
            BY <2>6, <2>7, <3>1
        <3>2. CASE i # n
            <4>1. i \in 1..(n - 1)
                BY <2>1, <3>2
            <4> QED BY <2>6, <2>7, <2>8, <4>1
        <3> QED BY <3>1, <3>2
    <2>10. E(n) = e
        BY <2>4, <2>6, <2>9, SeqEqual
    <2> QED BY <2>2, <2>10 DEF e
<1>5. ASSUME NEW n \in 1..Len(lines)
      PROVE  Ended(lines, eol, n) = Ended(lines, eol, n - 1) \o (lines[n] \o eol)
    <2> HIDE DEF E
    <2>1. FlattenSeq(Append(E(n - 1), x(n))) = FlattenSeq(E(n - 1)) \o x(n)
        BY <1>2, <1>4, FlattenAppend
    <2>2. FlattenSeq(E(n)) = FlattenSeq(E(n - 1)) \o x(n)
        BY <1>4, <2>1
    <2> QED BY <2>2 DEF Ended, E
<1>6. Ended(lines, eol, 0) = <<>>
    BY <1>3, FlattenEmpty DEF Ended
<1> DEFINE G == {n \in Nat : n <= Len(lines) => Ended(lines, eol, n) \in Seq(S)}
<1>7. 0 \in G
    BY <1>6, EmptySeq
<1>8. ASSUME NEW n \in Nat, n \in G PROVE n + 1 \in G
    <2> SUFFICES ASSUME n + 1 <= Len(lines) PROVE Ended(lines, eol, n + 1) \in Seq(S)
        OBVIOUS
    <2>1. n + 1 \in 1..Len(lines) /\ (n + 1) - 1 = n /\ n <= Len(lines)
        BY <1>1
    <2>2. Ended(lines, eol, n + 1) = Ended(lines, eol, n) \o x(n + 1)
        BY <1>5, <2>1
    <2>3. Ended(lines, eol, n) \in Seq(S) /\ x(n + 1) \in Seq(S)
        BY <1>2, <1>8, <2>1
    <2> HIDE DEF x
    <2> QED BY <2>2, <2>3, ConcatProperties
<1>9. \A n \in Nat : n \in G
    <2> HIDE DEF G
    <2> QED BY <1>7, <1>8, Induction
<1>10. \A n \in 0..Len(lines) : Ended(lines, eol, n) \in Seq(S)
    BY <1>1, <1>9
<1> QED BY <1>5, <1>6, <1>10

\* The reader after n lines: at the start of the next, with the rows of those.
LEMMA LinesRead ==
    ASSUME NEW separator \in Separators, NEW lines, NEW cells, AllParsed(lines, separator, cells),
           NEW eol \in LineEnds
    PROVE  \A n \in 0..Len(lines) :
              ParseSymbols(StartOfFile, Ended(lines, eol, n), separator)
                  = Outside(<<>>, <<>>, SubSeq(cells, 1, n))
<1> DEFINE S == Printable \cup {CR, LF}
           C == Seq(Seq(Printable))
           st(n) == Outside(<<>>, <<>>, SubSeq(cells, 1, n))
           G == {n \in Nat : n <= Len(lines) =>
                    ParseSymbols(StartOfFile, Ended(lines, eol, n), separator) = st(n)}
<1>1. lines \in Seq(Seq(S)) /\ eol \in Seq(S)
    <2>1. eol \in Seq({CR, LF})
        <3>1. <<LF>> \in Seq({CR, LF}) /\ <<CR, LF>> \in Seq({CR, LF})
            OBVIOUS
        <3> QED BY <3>1 DEF LineEnds
    <2>2. lines \in Seq(Seq(Printable)) /\ Seq(Printable) \subseteq Seq(S) /\ Seq({CR, LF}) \subseteq Seq(S)
        BY SeqMonotonic DEF AllParsed
    <2> QED BY <2>1, <2>2, SeqMonotonic
<1>2. /\ cells \in Seq(C) /\ Len(lines) = Len(cells) /\ Len(lines) \in Nat
      /\ \A i \in 1..Len(lines) : Parsed(lines[i], separator, cells[i])
    BY <1>1, LenProperties DEF AllParsed
<1> HIDE DEF S, C
<1>3. 0 \in G
    <2>1. Ended(lines, eol, 0) = <<>>
        BY <1>1, EndedSteps
    <2>2. SubSeq(cells, 1, 0) = <<>>
        BY <1>2, SubSeqEmpty
    <2>3. StartOfFile = st(0)
        BY <2>2 DEF StartOfFile, Outside
    <2> QED BY <2>1, <2>3, ParseEmpty
<1>4. ASSUME NEW n \in Nat, n \in G PROVE n + 1 \in G
    <2> SUFFICES ASSUME n + 1 <= Len(lines)
                 PROVE  ParseSymbols(StartOfFile, Ended(lines, eol, n + 1), separator) = st(n + 1)
        OBVIOUS
    <2>1. /\ n + 1 \in 1..Len(lines) /\ (n + 1) - 1 = n /\ n \in 0..Len(lines)
          /\ ParseSymbols(StartOfFile, Ended(lines, eol, n), separator) = st(n)
        BY <1>2, <1>4
    <2> DEFINE x == lines[n + 1] \o eol
               t == Ended(lines, eol, n)
    <2>2. Ended(lines, eol, n + 1) = t \o x /\ t \in Seq(S)
        <3> DEFINE k == n + 1
        <3>1. k \in 1..Len(lines) /\ k - 1 = n
            BY <2>1
        <3> HIDE DEF k
        <3>2. Ended(lines, eol, k) = Ended(lines, eol, n) \o (lines[k] \o eol)
            BY <1>1, <3>1, EndedSteps
        <3>3. Ended(lines, eol, n) \in Seq(S)
            BY <1>1, <2>1, EndedSteps
        <3> QED BY <3>2, <3>3 DEF k
    <2>3. x \in Seq(S)
        BY <1>1, <2>1, LenProperties, ConcatProperties
    <2>4. ParseSymbols(st(n), x, separator) = Outside(<<>>, <<>>, Append(SubSeq(cells, 1, n), cells[n + 1]))
        BY <1>2, <2>1, LineRead
    <2>5. SubSeq(cells, 1, n + 1) = Append(SubSeq(cells, 1, n), cells[n + 1])
        <3>1. SubSeq(cells, 1, n) \in Seq(C) /\ cells[n + 1] \in C
            BY <1>2, <2>1, LenProperties, SubSeqProperties
        <3>2. SubSeq(cells, 1, n + 1) = SubSeq(cells, 1, n) \o <<cells[n + 1]>>
            BY <1>2, <2>1, SubSeqRecursiveSecond
        <3> QED BY <3>1, <3>2, AppendIsConcat
    <2> HIDE DEF x, t
    <2>6. ParseSymbols(StartOfFile, t \o x, separator)
              = ParseSymbols(ParseSymbols(StartOfFile, t, separator), x, separator)
        BY <2>2, <2>3, ParseConcat
    <2>7. ParseSymbols(StartOfFile, t, separator) = st(n)
        BY <2>1 DEF t
    <2> QED BY <2>2, <2>4, <2>5, <2>6, <2>7
<1>5. \A n \in Nat : n \in G
    <2> HIDE DEF G
    <2> QED BY <1>3, <1>4, Induction
<1> QED BY <1>2, <1>5

\* A file of lines as it is stored, without the byte order mark.
Stored(lines, eol, lastbreak) ==
    LET text == Ended(lines, eol, Len(lines))
    IN  IF lastbreak \/ text = <<>> THEN text ELSE SubSeq(text, 1, Len(text) - Len(eol))

\* How three sequences are joined makes no difference.
LEMMA JoinedAssociative ==
    ASSUME NEW S, NEW s \in Seq(S), NEW t \in Seq(S), NEW u \in Seq(S)
    PROVE  Joined(s, Joined(t, u)) = Joined(Joined(s, t), u)
BY ConcatAssociative, SMTT(40) DEF Joined

\* Without its end, the last line ends the file.
LEMMA StoredOpen ==
    ASSUME NEW S, NEW lines \in Seq(Seq(S)), NEW eol \in Seq(S), Len(eol) > 0
    PROVE  /\ Ended(lines, eol, Len(lines)) = <<>> => lines = <<>>
           /\ lines # <<>> =>
                 /\ Ended(lines, eol, Len(lines)) # <<>>
                 /\ Stored(lines, eol, FALSE) = Ended(lines, eol, Len(lines) - 1) \o lines[Len(lines)]
<1> DEFINE n == Len(lines)
           text == Ended(lines, eol, n)
           t == Ended(lines, eol, n - 1)
           l == lines[n]
<1> SUFFICES ASSUME lines # <<>> PROVE text # <<>> /\ Stored(lines, eol, FALSE) = t \o l
    OBVIOUS
<1>1. n \in 1..n /\ n \in Nat /\ n - 1 \in 0..n /\ n \in 0..n
    BY EmptySeq, LenProperties
<1>2. l \in Seq(S)
    BY <1>1, LenProperties
<1>3. text = t \o (l \o eol) /\ t \in Seq(S) /\ text \in Seq(S)
    BY <1>1, EndedSteps
<1> HIDE DEF t, l, n
<1>4. t \o (l \o eol) = (t \o l) \o eol
    <2>1. Joined(t, Joined(l, eol)) = Joined(Joined(t, l), eol)
        BY <1>2, <1>3, JoinedAssociative
    <2> QED BY <2>1 DEF Joined
<1> DEFINE u == t \o l
<1>5. u \in Seq(S)
    BY <1>2, <1>3, ConcatProperties
<1> HIDE DEF u
<1>6. /\ u \o eol \in Seq(S) /\ Len(u \o eol) = Len(u) + Len(eol) /\ Len(u) \in Nat /\ Len(eol) \in Nat
      /\ \A i \in 1..(Len(u) + Len(eol)) : (u \o eol)[i] = IF i <= Len(u) THEN u[i] ELSE eol[i - Len(u)]
    BY <1>5, ConcatProperties, LenProperties
<1>7. text = u \o eol
    BY <1>3, <1>4 DEF u
<1> HIDE DEF text
<1>8. text # <<>>
    BY <1>6, <1>7, EmptySeq
<1>9. SubSeq(text, 1, Len(text) - Len(eol)) = u
    <2>1. Len(text) - Len(eol) = Len(u) /\ \A i \in 1..Len(u) : text[i] = u[i]
        BY <1>6, <1>7
    <2>2. \A i \in 1..Len(u) : text[i] \in S
        BY <1>5, <2>1, LenProperties
    <2>3. /\ SubSeq(text, 1, Len(u)) \in Seq(S) /\ Len(SubSeq(text, 1, Len(u))) = Len(u)
          /\ \A i \in 1..Len(u) : SubSeq(text, 1, Len(u))[i] = text[i]
        BY <1>6, <2>2, SubSeqProperties
    <2>4. SubSeq(text, 1, Len(u)) = u
        BY <1>5, <2>1, <2>3, SeqEqual
    <2> QED BY <2>1, <2>4
<1>10. Stored(lines, eol, FALSE) = IF text = <<>> THEN text ELSE SubSeq(text, 1, Len(text) - Len(eol))
    BY DEF Stored, text, n
<1> QED BY <1>8, <1>9, <1>10 DEF u

\* The reader has the cells of every line; only a last line that is empty and
\* has no end is none.
LEMMA FileRead ==
    ASSUME NEW separator \in Separators, NEW lines, NEW cells, AllParsed(lines, separator, cells),
           NEW eol \in LineEnds, NEW lastbreak \in BOOLEAN
    PROVE  ParseCsv(Stored(lines, eol, lastbreak), separator)
               = IF ~lastbreak /\ lines # <<>> /\ lines[Len(lines)] = <<>>
                 THEN SubSeq(cells, 1, Len(cells) - 1) ELSE cells
<1> DEFINE S == Printable \cup {CR, LF}
           C == Seq(Seq(Printable))
           n == Len(lines)
           text == Ended(lines, eol, n)
           parsed(contents) == ParseSymbols(StartOfFile, contents, separator)
           ended(end) == IF end.cell # <<>> \/ end.row # <<>> THEN EndOfRow(end) ELSE end
<1>0. \A contents : ParseCsv(contents, separator) = ended(parsed(contents)).data
    BY DEF ParseCsv
<1>1. lines \in Seq(Seq(S)) /\ eol \in Seq(S) /\ Len(eol) > 0
    <2>1. eol \in Seq({CR, LF}) /\ Len(eol) > 0
        <3>1. /\ <<LF>> \in Seq({CR, LF}) /\ <<CR, LF>> \in Seq({CR, LF})
              /\ Len(<<LF>>) > 0 /\ Len(<<CR, LF>>) > 0
            OBVIOUS
        <3> QED BY <3>1 DEF LineEnds
    <2>2. lines \in Seq(Seq(Printable)) /\ Seq(Printable) \subseteq Seq(S) /\ Seq({CR, LF}) \subseteq Seq(S)
        BY SeqMonotonic DEF AllParsed
    <2> QED BY <2>1, <2>2, SeqMonotonic
<1>2. /\ cells \in Seq(C) /\ n = Len(cells) /\ n \in Nat
      /\ \A i \in 1..n : Parsed(lines[i], separator, cells[i])
    BY <1>1, LenProperties DEF AllParsed
<1> HIDE DEF S, C
<1>3. ASSUME lastbreak \/ lines = <<>>
      PROVE  ParseCsv(Stored(lines, eol, lastbreak), separator) = cells
    <2>1. Stored(lines, eol, lastbreak) = text
        <3>1. lines = <<>> => text = <<>>
            <4> SUFFICES ASSUME lines = <<>> PROVE text = <<>>
                OBVIOUS
            <4>1. n = 0
                OBVIOUS
            <4>2. Ended(lines, eol, 0) = <<>>
                BY <1>1, EndedSteps
            <4> QED BY <4>1, <4>2
        <3> QED BY <1>3, <3>1 DEF Stored
    <2>2. parsed(text) = Outside(<<>>, <<>>, cells)
        <3>1. n \in 0..n /\ SubSeq(cells, 1, n) = cells
            BY <1>2, SubSeqFull
        <3>2. parsed(text) = Outside(<<>>, <<>>, SubSeq(cells, 1, n))
            BY <3>1, LinesRead
        <3> QED BY <3>1, <3>2
    <2>3. ended(Outside(<<>>, <<>>, cells)).data = cells
        BY DEF Outside
    <2> HIDE DEF parsed, ended
    <2> QED BY <1>0, <2>1, <2>2, <2>3
<1>4. ASSUME ~lastbreak, lines # <<>>
      PROVE  ParseCsv(Stored(lines, eol, lastbreak), separator)
                 = IF lines[n] = <<>> THEN SubSeq(cells, 1, n - 1) ELSE cells
    <2> DEFINE t == Ended(lines, eol, n - 1)
               l == lines[n]
               c == cells[n]
               before == SubSeq(cells, 1, n - 1)
    <2>1. n \in 1..n /\ n - 1 \in 0..n /\ Parsed(l, separator, c)
        BY <1>1, <1>2, <1>4, EmptySeq
    <2>2. Stored(lines, eol, lastbreak) = t \o l
        <3>1. Stored(lines, eol, FALSE) = t \o l
            BY <1>1, <1>4, StoredOpen
        <3>2. Stored(lines, eol, lastbreak) = Stored(lines, eol, FALSE)
            BY <1>4 DEF Stored
        <3> QED BY <3>1, <3>2
    <2>3. parsed(t) = Outside(<<>>, <<>>, before)
        BY <2>1, LinesRead
    <2>4. t \in Seq(S) /\ l \in Seq(S)
        <3>1. l \in Seq(S)
            BY <1>1, <2>1, LenProperties
        <3> HIDE DEF l
        <3> QED BY <1>1, <2>1, <3>1, EndedSteps
    <2>5. before \in Seq(C) /\ c \in C /\ cells = Append(before, c)
        <3>1. before \in Seq(C) /\ c \in C
            BY <1>2, <2>1, LenProperties, SubSeqProperties
        <3>2. SubSeq(cells, 1, n) = before \o <<c>> /\ SubSeq(cells, 1, n) = cells
            BY <1>2, <2>1, SubSeqRecursiveSecond, SubSeqFull
        <3> HIDE DEF before, c
        <3> QED BY <3>1, <3>2, AppendIsConcat
    <2>6. PICK row, cell : /\ ParseSymbols(Outside(<<>>, <<>>, before), l, separator) = Outside(row, cell, before)
                           /\ Append(row, Unquote(cell)) = c
                           /\ l # <<>> => row # <<>> \/ cell # <<>>
        <3> HIDE DEF before, l, c
        <3> QED BY <2>1 DEF Parsed
    <2>7. parsed(t \o l) = Outside(row, cell, before)
        <3>1. parsed(t \o l) = ParseSymbols(parsed(t), l, separator)
            <4> HIDE DEF t, l
            <4> QED BY <2>4, ParseConcat
        <3> QED BY <2>3, <2>6, <3>1
    <2>8. CASE l # <<>>
        <3>1. ended(Outside(row, cell, before)).data = Append(before, c)
            <4> HIDE DEF before, c, l
            <4> QED BY <2>6, <2>8 DEF Outside, EndOfRow
        <3> HIDE DEF parsed, ended
        <3> QED BY <1>0, <2>2, <2>5, <2>7, <2>8, <3>1
    <2>9. CASE l = <<>>
        <3>1. Outside(row, cell, before) = Outside(<<>>, <<>>, before)
            <4>1. ParseSymbols(Outside(<<>>, <<>>, before), l, separator) = Outside(<<>>, <<>>, before)
                BY <2>9, ParseEmpty
            <4> QED BY <2>6, <4>1
        <3>2. ended(Outside(<<>>, <<>>, before)).data = before
            BY DEF Outside
        <3> HIDE DEF parsed, ended
        <3> QED BY <1>0, <2>2, <2>7, <2>9, <3>1, <3>2
    <2> QED BY <2>8, <2>9
<1> QED BY <1>2, <1>3, <1>4

-----------------------------------------------------------------------------
(* What operators write, and what the loaders read.                        *)

SeparatorOf(w) == IF w.style = "csv" THEN "," ELSE " "

\* The cells of a file: those of the rows, and one in a line that is none.
CellsOf(w) == [i \in DOMAIN w.rows |-> RowCells(w.style, w.rows[i])]
LineCells(w) ==
    CellsOf(w) \o (IF w.sentinel THEN <<<<Sentinel>>>> ELSE <<>>) \o (IF w.blank THEN <<<<<<>>>>>> ELSE <<>>)

\* What the assumption on Files says of one of them.
LEMMA FileTypes ==
    ASSUME NEW w \in Files
    PROVE  /\ w.style \in {"csv", "ptm"} /\ SeparatorOf(w) \in Separators
           /\ w.crlf \in BOOLEAN /\ w.lastbreak \in BOOLEAN /\ w.bom \in BOOLEAN
           /\ w.sentinel \in BOOLEAN /\ w.blank \in BOOLEAN
           /\ w.rows \in Seq(Row)
           /\ DOMAIN w.rows = 1..Len(w.rows) /\ Len(w.rows) \in Nat
           /\ \A i \in 1..Len(w.rows) : w.rows[i] \in Row
           /\ w.style = "ptm" => \A i \in 1..Len(w.rows) :
                 /\ ToSet(w.rows[i].ip) \cap {" ", Quote, "/"} = {}
                 /\ "%" \notin ToSet(w.rows[i].node) \cup ToSet(w.rows[i].platform)
<1>1. w.rows \in Seq(Row)
    BY FilesAssumption
<1>2. DOMAIN w.rows = 1..Len(w.rows) /\ Len(w.rows) \in Nat /\ \A i \in 1..Len(w.rows) : w.rows[i] \in Row
    BY <1>1, LenProperties
<1> HIDE DEF Row
<1>3. w.style = "ptm" => \A i \in 1..Len(w.rows) :
                 /\ ToSet(w.rows[i].ip) \cap {" ", Quote, "/"} = {}
                 /\ "%" \notin ToSet(w.rows[i].node) \cup ToSet(w.rows[i].platform)
    BY <1>2, FilesAssumption
<1>4. /\ w.style \in {"csv", "ptm"}
      /\ w.crlf \in BOOLEAN /\ w.lastbreak \in BOOLEAN /\ w.bom \in BOOLEAN
      /\ w.sentinel \in BOOLEAN /\ w.blank \in BOOLEAN
    BY FilesAssumption
<1> QED BY <1>1, <1>2, <1>3, <1>4 DEF SeparatorOf, Separators

\* The line of a row has the cells of the row.
LEMMA RowParsed ==
    ASSUME NEW w \in Files, NEW i \in 1..Len(w.rows)
    PROVE  /\ RowCells(w.style, w.rows[i]) \in Seq(Seq(Printable))
           /\ Len(RowCells(w.style, w.rows[i])) > 1
           /\ Parsed(IF w.style = "csv" THEN CsvLine(w.rows[i]) ELSE PtmLine(w.rows[i]),
                     SeparatorOf(w), RowCells(w.style, w.rows[i]))
<1> DEFINE r == w.rows[i]
<1>1. r \in Row /\ w.style \in {"csv", "ptm"} /\ (w.style = "ptm" => ToSet(r.ip) \cap {" ", Quote, "/"} = {})
    BY FileTypes
<1> HIDE DEF r
<1>2. CASE w.style = "csv"
    <2>1. r.ip \in Seq(Printable) /\ r.node \in Seq(Printable) /\ r.platform \in Seq(Printable)
        BY <1>1, PrintableSymbols DEF Row
    <2> DEFINE L == Seq(Printable)
               two == <<r.ip, r.node>>
               three == <<r.ip, r.node, r.platform>>
    <2>2. two \in Seq(L) /\ Len(two) > 1 /\ three \in Seq(L) /\ Len(three) > 1
        <3> HIDE DEF L
        <3> QED BY <2>1 DEF L
    <2>3. Parsed(CsvLine(r), ",", RowCells("csv", r))
        BY <1>1, CsvLineParsed
    <2> QED BY <1>2, <2>2, <2>3 DEF RowCells, SeparatorOf, r
<1>3. CASE w.style = "ptm"
    <2>1. PtmLabelOf(r) \in Seq(Printable) /\ PtmAddress(r) \in Seq(Printable)
        BY <1>1, <1>3, PtmLabelOfType, PtmAddressQuoted
    <2> DEFINE L == Seq(Printable)
               two == <<PtmLabelOf(r), PtmAddress(r)>>
    <2>2. two \in Seq(L) /\ Len(two) > 1
        BY <2>1
    <2>3. Parsed(PtmLine(r), " ", RowCells("ptm", r))
        BY <1>1, <1>3, PtmLineParsed
    <2> QED BY <1>3, <2>2, <2>3 DEF RowCells, SeparatorOf, r
<1> QED BY <1>1, <1>2, <1>3

\* The lines of a file have its cells.
LEMMA FileParsed ==
    ASSUME NEW w \in Files
    PROVE  AllParsed(Lines(w), SeparatorOf(w), LineCells(w))
<1> DEFINE separator == SeparatorOf(w)
           lines == [i \in DOMAIN w.rows |-> IF w.style = "csv" THEN CsvLine(w.rows[i]) ELSE PtmLine(w.rows[i])]
           sl == IF w.sentinel THEN <<Sentinel>> ELSE <<>>
           sc == IF w.sentinel THEN <<<<Sentinel>>>> ELSE <<>>
           bl == IF w.blank THEN <<<<>>>> ELSE <<>>
           bc == IF w.blank THEN <<<<<<>>>>>> ELSE <<>>
           n == Len(w.rows)
<1>1. DOMAIN w.rows = 1..n /\ n \in Nat /\ separator \in Separators
    BY FileTypes
<1> HIDE DEF separator
<1>2. AllParsed(lines, separator, CellsOf(w))
    <2> DEFINE l(i) == IF w.style = "csv" THEN CsvLine(w.rows[i]) ELSE PtmLine(w.rows[i])
               c(i) == RowCells(w.style, w.rows[i])
               L == Seq(Printable)
               C == Seq(Seq(Printable))
    <2>1. \A i \in 1..n : l(i) \in L /\ c(i) \in C /\ Parsed(l(i), separator, c(i))
        BY RowParsed DEF Parsed, separator
    <2>2. lines = [i \in 1..n |-> l(i)] /\ CellsOf(w) = [i \in 1..n |-> c(i)]
        BY <1>1 DEF CellsOf
    <2> HIDE DEF l, c, L, C, lines
    <2>3. lines \in [1..n -> L] /\ CellsOf(w) \in [1..n -> C]
        BY <2>1, <2>2
    <2>4. lines \in Seq(L) /\ CellsOf(w) \in Seq(C) /\ Len(lines) = n /\ Len(CellsOf(w)) = n
        BY <1>1, <2>3, SeqDef, LenProperties
    <2>5. \A i \in 1..n : Parsed(lines[i], separator, CellsOf(w)[i])
        BY <2>1, <2>2
    <2> QED BY <2>4, <2>5 DEF AllParsed, L, C
<1>3. AllParsed(sl, separator, sc)
    <2>1. AllParsed(<<>>, separator, <<>>)
        BY AllParsedEmpty
    <2>2. AllParsed(<<Sentinel>>, separator, <<<<Sentinel>>>>)
        <3> DEFINE c == <<Sentinel>>
        <3>1. Parsed(Sentinel, separator, c)
            BY <1>1, SentinelParsed
        <3>2. c \in Seq(Seq(Printable))
            <4>1. Sentinel \in Seq(Printable)
                BY <3>1 DEF Parsed
            <4> QED BY <4>1
        <3> HIDE DEF c
        <3>3. AllParsed(<<Sentinel>>, separator, <<c>>)
            BY <3>1, <3>2, AllParsedOne
        <3> QED BY <3>3 DEF c
    <2> QED BY <2>1, <2>2
<1>4. AllParsed(bl, separator, bc)
    <2>1. AllParsed(<<>>, separator, <<>>)
        BY AllParsedEmpty
    <2>2. AllParsed(<<<<>>>>, separator, <<<<<<>>>>>>)
        <3> DEFINE nothing == <<>>
                   c == <<nothing>>
        <3>1. Parsed(nothing, separator, c)
            BY <1>1, BlankParsed
        <3>2. c \in Seq(Seq(Printable))
            <4>1. nothing \in Seq(Printable)
                BY EmptySeq
            <4> HIDE DEF nothing
            <4> QED BY <4>1
        <3> HIDE DEF c, nothing
        <3>3. AllParsed(<<nothing>>, separator, <<c>>)
            BY <3>1, <3>2, AllParsedOne
        <3> QED BY <3>3 DEF c, nothing
    <2> QED BY <2>1, <2>2
<1>5. Lines(w) = (lines \o sl) \o bl /\ LineCells(w) = (CellsOf(w) \o sc) \o bc
    BY DEF Lines, LineCells, Sentinel
<1> HIDE DEF lines, sl, sc, bl, bc
<1>6. AllParsed(lines \o sl, separator, CellsOf(w) \o sc)
    BY <1>2, <1>3, AllParsedConcat
<1>7. AllParsed((lines \o sl) \o bl, separator, (CellsOf(w) \o sc) \o bc)
    BY <1>4, <1>6, AllParsedConcat
<1> QED BY <1>5, <1>7 DEF separator

\* The cells of a file, by position.
LEMMA LineCellsAt ==
    ASSUME NEW w \in Files
    PROVE  LET n == Len(w.rows)
               N == Len(LineCells(w))
           IN  /\ LineCells(w) \in Seq(Seq(Seq(Printable))) /\ N \in Nat
               /\ N = n + (IF w.sentinel THEN 1 ELSE 0) + (IF w.blank THEN 1 ELSE 0)
               /\ \A i \in 1..n : LineCells(w)[i] = RowCells(w.style, w.rows[i])
               /\ \A i \in (n + 1)..N : Len(LineCells(w)[i]) = 1
               /\ w.sentinel => LineCells(w)[n + 1] = <<Sentinel>>
<1> DEFINE C == Seq(Seq(Printable))
           sc == IF w.sentinel THEN <<<<Sentinel>>>> ELSE <<>>
           bc == IF w.blank THEN <<<<<<>>>>>> ELSE <<>>
           n == Len(w.rows)
           c == CellsOf(w)
           d == c \o sc
           e == d \o bc
           s == IF w.sentinel THEN 1 ELSE 0
           b == IF w.blank THEN 1 ELSE 0
<1>1. DOMAIN w.rows = 1..n /\ n \in Nat /\ w.sentinel \in BOOLEAN /\ w.blank \in BOOLEAN
    BY FileTypes
<1>2. c \in Seq(C) /\ Len(c) = n /\ \A i \in 1..n : c[i] = RowCells(w.style, w.rows[i])
    <2>1. \A i \in 1..n : c[i] = RowCells(w.style, w.rows[i]) /\ RowCells(w.style, w.rows[i]) \in C
        BY <1>1, RowParsed DEF CellsOf
    <2> HIDE DEF C
    <2>2. c \in [1..n -> C]
        BY <1>1, <2>1 DEF CellsOf
    <2> QED BY <1>1, <2>1, <2>2, SeqDef, LenProperties
<1>3. sc \in Seq(C) /\ Len(sc) = s /\ (w.sentinel => sc[1] = <<Sentinel>>) /\ \A i \in 1..s : Len(sc[i]) = 1
    <2>1. Sentinel \in Seq(Printable)
        <3>1. <<"unknown">> \in Seq(Printable)
            BY Pieces, Zenon
        <3> QED BY <3>1, PtmLabelType DEF Sentinel
    <2> DEFINE x == <<Sentinel>>
    <2>2. x \in C /\ Len(x) = 1
        BY <2>1
    <2> HIDE DEF x, C
    <2> DEFINE y == <<x>>
    <2>3. y \in Seq(C) /\ Len(y) = 1 /\ y[1] = x
        BY <2>2
    <2>4. sc = IF w.sentinel THEN y ELSE <<>>
        BY DEF x
    <2>5. CASE w.sentinel
        <3>1. \A i \in 1..1 : i = 1
            OBVIOUS
        <3> HIDE DEF y, sc
        <3>2. sc = y /\ s = 1
            BY <2>4, <2>5
        <3> QED BY <2>2, <2>3, <2>5, <3>1, <3>2 DEF x
    <2>6. CASE ~w.sentinel
        <3>1. Len(<<>>) = 0 /\ <<>> \in Seq(C)
            BY EmptySeq
        <3> HIDE DEF y, sc
        <3>2. sc = <<>> /\ s = 0
            BY <2>4, <2>6
        <3> QED BY <2>6, <3>1, <3>2
    <2> QED BY <2>5, <2>6
<1>4. bc \in Seq(C) /\ Len(bc) = b /\ \A i \in 1..b : Len(bc[i]) = 1
    <2> DEFINE nothing == <<>>
               x == <<nothing>>
    <2>1. nothing \in Seq(Printable)
        BY EmptySeq
    <2>2. x \in C /\ Len(x) = 1
        <3> HIDE DEF nothing
        <3> QED BY <2>1
    <2> HIDE DEF x, C
    <2> DEFINE y == <<x>>
    <2>3. y \in Seq(C) /\ Len(y) = 1 /\ y[1] = x
        BY <2>2
    <2>4. bc = IF w.blank THEN y ELSE <<>>
        BY DEF x
    <2>5. CASE w.blank
        <3>1. \A i \in 1..1 : i = 1
            OBVIOUS
        <3> HIDE DEF y, bc
        <3>2. bc = y /\ b = 1
            BY <2>4, <2>5
        <3> QED BY <2>2, <2>3, <3>1, <3>2
    <2>6. CASE ~w.blank
        <3>1. Len(<<>>) = 0 /\ <<>> \in Seq(C)
            BY EmptySeq
        <3> HIDE DEF y, bc
        <3>2. bc = <<>> /\ b = 0
            BY <2>4, <2>6
        <3> QED BY <2>6, <3>1, <3>2
    <2> QED BY <2>5, <2>6
<1>5. LineCells(w) = e
    BY DEF LineCells
<1> HIDE DEF sc, bc, C, c
<1>6. /\ d \in Seq(C) /\ Len(d) = n + s
      /\ \A i \in 1..(n + s) : d[i] = IF i <= n THEN c[i] ELSE sc[i - n]
    <2>1. c \in Seq(C) /\ sc \in Seq(C)
        BY <1>2, <1>3
    <2>2. /\ d \in Seq(C) /\ Len(d) = Len(c) + Len(sc)
          /\ \A i \in 1..(Len(c) + Len(sc)) : d[i] = IF i <= Len(c) THEN c[i] ELSE sc[i - Len(c)]
        BY <2>1, ConcatProperties
    <2> HIDE DEF d
    <2> QED BY <1>2, <1>3, <2>2
<1> HIDE DEF d
<1>7. /\ e \in Seq(C) /\ Len(e) = n + s + b
      /\ \A i \in 1..(n + s + b) : e[i] = IF i <= n + s THEN d[i] ELSE bc[i - (n + s)]
    <2>1. d \in Seq(C) /\ bc \in Seq(C)
        BY <1>4, <1>6
    <2>2. /\ e \in Seq(C) /\ Len(e) = Len(d) + Len(bc)
          /\ \A i \in 1..(Len(d) + Len(bc)) : e[i] = IF i <= Len(d) THEN d[i] ELSE bc[i - Len(d)]
        BY <2>1, ConcatProperties
    <2> HIDE DEF e
    <2> QED BY <1>4, <1>6, <2>2
<1> HIDE DEF e
<1>8. s \in 0..1 /\ b \in 0..1
    OBVIOUS
<1> HIDE DEF s, b, n
<1>9. \A i \in 1..n : e[i] = c[i]
    <2> SUFFICES ASSUME NEW i \in 1..n PROVE e[i] = c[i]
        OBVIOUS
    <2>1. i \in 1..(n + s) /\ i \in 1..(n + s + b) /\ i <= n /\ i <= n + s
        BY <1>1, <1>8
    <2> QED BY <1>6, <1>7, <2>1
<1>10. \A i \in (n + 1)..(n + s + b) : Len(e[i]) = 1
    <2> SUFFICES ASSUME NEW i \in (n + 1)..(n + s + b) PROVE Len(e[i]) = 1
        OBVIOUS
    <2>1. i \in 1..(n + s + b) /\ ~(i <= n)
        BY <1>1, <1>8
    <2>2. CASE i <= n + s
        <3>1. i \in 1..(n + s) /\ i - n \in 1..s
            BY <1>1, <1>8, <2>1, <2>2
        <3>2. e[i] = sc[i - n]
            BY <1>6, <1>7, <2>1, <2>2, <3>1
        <3> QED BY <1>3, <3>1, <3>2
    <2>3. CASE ~(i <= n + s)
        <3>1. i - (n + s) \in 1..b
            BY <1>1, <1>8, <2>1, <2>3
        <3>2. e[i] = bc[i - (n + s)]
            BY <1>7, <2>1, <2>3
        <3> QED BY <1>4, <3>1, <3>2
    <2> QED BY <2>2, <2>3
<1>11. w.sentinel => e[n + 1] = <<Sentinel>>
    <2> SUFFICES ASSUME w.sentinel PROVE e[n + 1] = <<Sentinel>>
        OBVIOUS
    <2>1. s = 1
        BY DEF s
    <2>2. n + 1 \in 1..(n + s) /\ n + 1 \in 1..(n + s + b) /\ ~(n + 1 <= n) /\ n + 1 <= n + s /\ (n + 1) - n = 1
        BY <1>1, <1>8, <2>1
    <2>3. e[n + 1] = sc[1]
        BY <1>6, <1>7, <2>2
    <2> QED BY <1>3, <2>3
<1>12. Len(e) \in Nat
    BY <1>7, <1>1, <1>8
<1> QED BY <1>1, <1>2, <1>5, <1>7, <1>9, <1>10, <1>11, <1>12 DEF n, s, b, C

\* An empty line is read as one empty cell; a row and the sentinel are none.
LEMMA EmptyLineParsed ==
    ASSUME NEW separator, NEW cells, Parsed(<<>>, separator, cells)
    PROVE  cells = <<<<>>>>
<1> DEFINE nothing == <<>>
<1>1. PICK row, cell : /\ ParseSymbols(Outside(nothing, nothing, nothing), nothing, separator) = Outside(row, cell, nothing)
                       /\ Append(row, Unquote(cell)) = cells
    BY DEF Parsed
<1>2. ParseSymbols(Outside(nothing, nothing, nothing), nothing, separator) = Outside(nothing, nothing, nothing)
    BY ParseEmpty
<1>3. row = nothing /\ cell = nothing
    <2> HIDE DEF nothing
    <2>1. Outside(nothing, nothing, nothing) = Outside(row, cell, nothing)
        BY <1>1, <1>2
    <2>2. Outside(nothing, nothing, nothing).row = Outside(row, cell, nothing).row
          /\ Outside(nothing, nothing, nothing).cell = Outside(row, cell, nothing).cell
        BY <2>1
    <2> QED BY <2>2 DEF Outside
<1>4. Unquote(nothing) = nothing
    BY DEF Unquote
<1> QED BY <1>1, <1>3, <1>4

\* The sentinel is no blank line.
LEMMA SentinelNonEmpty ==
    Sentinel # <<>>
<1> DEFINE a == <<"set_label", "=", "nkey", "%">>
           b == <<"%", "pkey", "%">>
           u == <<"unknown">>
<1>1. a \in Seq(Printable) /\ b \in Seq(Printable) /\ u \in Seq(Printable)
    BY Pieces, Zenon
<1>2. Len(a) = 4
    OBVIOUS
<1>3. Sentinel = a \o u \o b \o u
    BY DEF Sentinel, PtmLabel
<1> HIDE DEF a, b, u
<1>4. Len(a \o u \o b \o u) = Len(a) + Len(u) + Len(b) + Len(u)
    <2>1. a \o u \in Seq(Printable) /\ Len(a \o u) = Len(a) + Len(u)
        BY <1>1, ConcatProperties
    <2> DEFINE x == a \o u
    <2> HIDE DEF x
    <2>2. x \o b \in Seq(Printable) /\ Len(x \o b) = Len(x) + Len(b)
        BY <1>1, <2>1, ConcatProperties DEF x
    <2> DEFINE y == x \o b
    <2> HIDE DEF y
    <2>3. Len(y \o u) = Len(y) + Len(u)
        BY <1>1, <2>2, ConcatProperties DEF y
    <2> QED BY <2>1, <2>2, <2>3 DEF x, y
<1>5. Len(u) \in Nat /\ Len(b) \in Nat
    BY <1>1, LenProperties
<1>6. Len(Sentinel) # 0
    BY <1>2, <1>3, <1>4, <1>5
<1> QED BY <1>6, EmptySeq

\* A file is read as the cells of its lines, but for a blank line at its end
\* that has no line break.
LEMMA WrittenRead ==
    ASSUME NEW w \in Files
    PROVE  \E m \in 0..Len(LineCells(w)) :
              /\ ReadCsv(Written(w), SeparatorOf(w)) = SubSeq(LineCells(w), 1, m)
              /\ ~w.blank => m = Len(LineCells(w))
<1> DEFINE lines == Lines(w)
           cells == LineCells(w)
           separator == SeparatorOf(w)
           eol == IF w.crlf THEN <<CR, LF>> ELSE <<LF>>
           contents == Stored(lines, eol, w.lastbreak)
           S == Printable \cup {CR, LF}
<1>1. AllParsed(lines, separator, cells) /\ separator \in Separators /\ eol \in LineEnds /\ w.lastbreak \in BOOLEAN
    BY FileParsed, FileTypes DEF LineEnds
<1>2. lines \in Seq(Seq(S)) /\ eol \in Seq(S) /\ Len(eol) > 0
    <2>1. eol \in Seq({CR, LF}) /\ Len(eol) > 0
        <3>1. /\ <<LF>> \in Seq({CR, LF}) /\ <<CR, LF>> \in Seq({CR, LF})
              /\ Len(<<LF>>) > 0 /\ Len(<<CR, LF>>) > 0
            OBVIOUS
        <3> QED BY <3>1
    <2> HIDE DEF eol, lines
    <2>2. lines \in Seq(Seq(Printable)) /\ Seq(Printable) \subseteq Seq(S) /\ Seq({CR, LF}) \subseteq Seq(S)
        BY <1>1, SeqMonotonic DEF AllParsed
    <2> QED BY <2>1, <2>2, SeqMonotonic
<1>3. Written(w) = (IF w.bom THEN <<BOM>> ELSE <<>>) \o contents
    <2>1. DOMAIN lines = 1..Len(lines)
        BY <1>2, LenProperties
    <2>2. FlattenSeq([i \in DOMAIN lines |-> lines[i] \o eol]) = Ended(lines, eol, Len(lines))
        BY <2>1 DEF Ended
    <2> DEFINE text == Ended(lines, eol, Len(lines))
               written == FlattenSeq([i \in DOMAIN lines |-> lines[i] \o eol])
    <2>3. Written(w) = (IF w.bom THEN <<BOM>> ELSE <<>>)
                       \o (IF w.lastbreak \/ written = <<>> THEN written
                           ELSE SubSeq(written, 1, Len(written) - Len(eol)))
        BY DEF Written
    <2> HIDE DEF written
    <2>4. written = text
        BY <2>2 DEF written
    <2> QED BY <2>3, <2>4 DEF Stored
<1> HIDE DEF eol, lines, cells, separator
<1>4. contents \in Seq(S)
    <2>1. CASE w.lastbreak \/ lines = <<>>
        <3> DEFINE n == Len(lines)
        <3>1. n \in 0..n
            BY <1>2, LenProperties
        <3>2. Ended(lines, eol, n) \in Seq(S) /\ Ended(lines, eol, 0) = <<>>
            BY <1>2, <3>1, EndedSteps
        <3>3. lines = <<>> => n = 0
            OBVIOUS
        <3> QED BY <2>1, <3>2, <3>3 DEF Stored
    <2>2. CASE ~w.lastbreak /\ lines # <<>>
        <3>1. contents = Stored(lines, eol, FALSE)
            BY <2>2 DEF Stored
        <3> DEFINE n == Len(lines)
                   t == Ended(lines, eol, n - 1)
                   l == lines[n]
        <3>2. Stored(lines, eol, FALSE) = t \o l
            BY <1>2, <2>2, StoredOpen
        <3>3. n \in 1..n /\ n - 1 \in 0..n
            BY <1>2, <2>2, EmptySeq, LenProperties
        <3>4. t \in Seq(S) /\ l \in Seq(S)
            <4>1. l \in Seq(S)
                BY <1>2, <3>3, LenProperties
            <4>2. t \in Seq(S)
                BY <1>2, <3>3, EndedSteps
            <4> QED BY <4>1, <4>2
        <3> HIDE DEF t, l
        <3> QED BY <3>1, <3>2, <3>4, ConcatProperties
    <2> QED BY <1>1, <2>1, <2>2
<1>5. ReadCsv(Written(w), separator) = ParseCsv(contents, separator)
    <2> HIDE DEF contents
    <2>1. CASE w.bom
        <3> DEFINE f == <<BOM>> \o contents
        <3>1. f # <<>> /\ Head(f) = BOM /\ Tail(f) = contents
            <4>1. contents \in Seq(S \cup {BOM}) /\ <<BOM>> \in Seq(S \cup {BOM})
                <5>1. contents \in Seq(S \cup {BOM})
                    BY <1>4, SeqMonotonic
                <5>2. <<BOM>> \in Seq({BOM})
                    OBVIOUS
                <5> QED BY <5>1, <5>2, SeqMonotonic
            <4> DEFINE T == S \cup {BOM}
                       o == <<BOM>>
            <4>2. Len(o) = 1 /\ o[1] = BOM
                OBVIOUS
            <4>3. contents \in Seq(T) /\ o \in Seq(T)
                BY <4>1
            <4> HIDE DEF T, o
            <4> DEFINE g == o \o contents
            <4>4. /\ g \in Seq(T) /\ Len(g) = Len(o) + Len(contents)
                  /\ \A i \in 1..(Len(o) + Len(contents)) : g[i] = IF i <= Len(o) THEN o[i] ELSE contents[i - Len(o)]
                BY <4>3, ConcatProperties
            <4> HIDE DEF g
            <4>5. Len(contents) \in Nat
                BY <4>3, LenProperties
            <4>6. g # <<>> /\ g[1] = BOM
                BY <4>2, <4>4, <4>5, EmptySeq
            <4>7. Head(g) = BOM /\ Tail(g) \in Seq(T) /\ Len(Tail(g)) = Len(g) - 1
                  /\ \A i \in 1..Len(Tail(g)) : Tail(g)[i] = g[i + 1]
                BY <4>4, <4>6, HeadTailProperties
            <4>8. \A i \in 1..Len(Tail(g)) : Tail(g)[i] = contents[i]
                <5> SUFFICES ASSUME NEW i \in 1..Len(Tail(g)) PROVE Tail(g)[i] = contents[i]
                    OBVIOUS
                <5>1. i + 1 \in 1..(Len(o) + Len(contents)) /\ ~(i + 1 <= Len(o)) /\ (i + 1) - Len(o) = i
                    BY <4>2, <4>4, <4>5, <4>7
                <5> QED BY <4>4, <4>7, <5>1
            <4>9. Tail(g) = contents
                BY <4>2, <4>3, <4>4, <4>5, <4>7, <4>8, SeqEqual
            <4> QED BY <4>6, <4>7, <4>9 DEF g, o
        <3> QED BY <1>3, <2>1, <3>1 DEF ReadCsv
    <2>2. CASE ~w.bom
        <3>1. Written(w) = contents
            BY <1>3, <1>4, <2>2, ConcatEmptySeq
        <3>2. contents # <<>> => Head(contents) # BOM
            <4>1. BOM \notin S
                BY PrintableSymbols DEF BOM, CR, LF
            <4>2. contents # <<>> => Head(contents) \in S
                BY <1>4, HeadTailProperties
            <4> QED BY <4>1, <4>2
        <3> QED BY <3>1, <3>2 DEF ReadCsv
    <2> QED BY <2>1, <2>2
<1>6. ParseCsv(contents, separator) = IF ~w.lastbreak /\ lines # <<>> /\ lines[Len(lines)] = <<>>
                                  THEN SubSeq(cells, 1, Len(cells) - 1) ELSE cells
    BY <1>1, FileRead
<1> DEFINE N == Len(cells)
           n == Len(w.rows)
<1>7. /\ cells \in Seq(Seq(Seq(Printable))) /\ N \in Nat /\ n \in Nat
      /\ N = n + (IF w.sentinel THEN 1 ELSE 0) + (IF w.blank THEN 1 ELSE 0)
      /\ \A i \in 1..n : cells[i] = RowCells(w.style, w.rows[i])
      /\ w.sentinel => cells[n + 1] = <<Sentinel>>
    BY LineCellsAt, FileTypes DEF cells
<1>8. SubSeq(cells, 1, N) = cells
    BY <1>7, SubSeqFull
<1>9. CASE ~(~w.lastbreak /\ lines # <<>> /\ lines[Len(lines)] = <<>>)
    <2>0. N \in Nat
        BY <1>7
    <2> HIDE DEF N
    <2>1. N \in 0..N
        BY <2>0
    <2> QED BY <1>5, <1>6, <1>8, <1>9, <2>1 DEF cells, separator, N
<1>10. CASE ~w.lastbreak /\ lines # <<>> /\ lines[Len(lines)] = <<>>
    <2>1. Len(lines) = N /\ N \in 1..N /\ Parsed(lines[N], separator, cells[N])
        <3>1. Len(lines) = N /\ \A i \in 1..N : Parsed(lines[i], separator, cells[i])
            BY <1>1 DEF AllParsed
        <3>2. Len(lines) # 0 /\ Len(lines) \in Nat
            BY <1>2, <1>10, EmptySeq, LenProperties
        <3> QED BY <3>1, <3>2
    <2>2. cells[N] = <<<<>>>>
        BY <1>10, <2>1, EmptyLineParsed
    <2>3. w.blank
        <3> SUFFICES ASSUME ~w.blank PROVE FALSE
            BY FileTypes
        <3>1. CASE N \in 1..n
            <4>1. Len(cells[N]) > 1
                BY <1>7, <3>1, RowParsed
            <4>2. Len(<<<<>>>>) = 1
                OBVIOUS
            <4> QED BY <2>2, <4>1, <4>2
        <3>2. CASE N \notin 1..n
            <4> HIDE DEF N, n
            <4>0. w.sentinel
                <5> SUFFICES ASSUME ~w.sentinel PROVE FALSE
                    BY FileTypes
                <5>1. N = n
                    BY <1>7
                <5> QED BY <2>1, <3>2, <5>1
            <4>1. N = n + 1 /\ w.sentinel
                BY <1>7, <4>0
            <4>2. <<Sentinel>> = <<<<>>>>
                BY <1>7, <2>2, <4>1
            <4>3. <<Sentinel>>[1] = <<<<>>>>[1]
                BY <4>2
            <4> QED BY <4>3, SentinelNonEmpty
        <3> QED BY <3>1, <3>2
    <2>4. N - 1 \in 0..N
        BY <2>1
    <2> QED BY <1>5, <1>6, <1>10, <2>3, <2>4 DEF cells, separator
<1> QED BY <1>9, <1>10

\* A text without a "%" becomes the token; a "%" ends it.
LEMMA TokenText ==
    ASSUME NEW S, NEW u \in Seq(S), NEW T, T \subseteq S, "%" \notin T, NEW s \in Seq(T), NEW st, NEW d,
           TokenRun(st, u) = [done |-> d, token |-> <<>>]
    PROVE  TokenRun(st, u \o s) = [done |-> d, token |-> s]
<1> DEFINE G == {t \in Seq(T) : TokenRun(st, u \o t) = [done |-> d, token |-> t]}
<1>1. <<>> \in G
    BY ConcatEmptySeq, EmptySeq
<1>2. ASSUME NEW t \in Seq(T), NEW c \in T, t \in G PROVE Append(t, c) \in G
    <2>1. u \o t \in Seq(S) /\ c \in S /\ c # "%" /\ t \in Seq(S)
        BY SeqMonotonic, ConcatProperties
    <2>2. u \o Append(t, c) = Append(u \o t, c)
        <3>1. <<c>> \in Seq(S) /\ Append(t, c) = t \o <<c>> /\ Append(u \o t, c) = (u \o t) \o <<c>>
            BY <2>1, AppendIsConcat
        <3>2. (u \o t) \o <<c>> = u \o (t \o <<c>>)
            BY <2>1, <3>1, ConcatAssociative
        <3> QED BY <3>1, <3>2
    <2>3. TokenRun(st, Append(u \o t, c)) = TokenSymbol(TokenRun(st, u \o t), c)
        BY <2>1, TokenAppend, ZenonT(40)
    <2>4. TokenSymbol([done |-> d, token |-> t], c) = [done |-> d, token |-> Append(t, c)]
        BY <2>1 DEF TokenSymbol
    <2>5. Append(t, c) \in Seq(T)
        BY AppendProperties
    <2> QED BY <1>2, <2>2, <2>3, <2>4, <2>5
<1>3. s \in G
    <2> HIDE DEF G
    <2> QED BY <1>1, <1>2, SeqInduction
<1> QED BY <1>3

\* A "%" ends a token.
LEMMA TokenPercent ==
    ASSUME NEW S, NEW u \in Seq(S), "%" \in S, NEW st, NEW d, NEW t,
           TokenRun(st, u) = [done |-> d, token |-> t]
    PROVE  TokenRun(st, Append(u, "%")) = [done |-> Append(d, t), token |-> <<>>]
<1>1. TokenRun(st, Append(u, "%")) = TokenSymbol(TokenRun(st, u), "%")
    BY TokenAppend
<1> QED BY <1>1 DEF TokenSymbol

\* The end of a concatenation.
LEMMA SubSeqSuffix ==
    ASSUME NEW S, NEW s \in Seq(S), NEW t \in Seq(S)
    PROVE  SubSeq(s \o t, Len(s) + 1, Len(s \o t)) = t
<1> DEFINE u == s \o t
           m == Len(s) + 1
           n == Len(s) + Len(t)
           v == SubSeq(u, m, n)
<1>1. /\ u \in Seq(S) /\ Len(u) = n /\ Len(s) \in Nat /\ Len(t) \in Nat
      /\ \A i \in 1..n : u[i] = IF i <= Len(s) THEN s[i] ELSE t[i - Len(s)]
    BY ConcatProperties, LenProperties
<1> HIDE DEF u
<1>2. m \in Int /\ n \in Int /\ \A i \in m..n : u[i] \in S
    BY <1>1, LenProperties
<1>3. v \in Seq(S) /\ Len(v) = IF m <= n THEN (n - m) + 1 ELSE 0
    BY <1>2, SubSeqProperties
<1>4. Len(v) = Len(t)
    BY <1>1, <1>3
<1>5. \A i \in 1..Len(t) : v[i] = t[i]
    <2> SUFFICES ASSUME NEW i \in 1..Len(t) PROVE v[i] = t[i]
        OBVIOUS
    <2>1. i \in 1..((n - m) + 1) /\ (m + i) - 1 = i + Len(s)
        BY <1>1
    <2>2. v[i] = u[(m + i) - 1]
        BY <1>2, <2>1, SubSeqProperties
    <2>3. i + Len(s) \in 1..n /\ ~(i + Len(s) <= Len(s)) /\ (i + Len(s)) - Len(s) = i
        BY <1>1
    <2> QED BY <1>1, <2>1, <2>2, <2>3
<1> HIDE DEF v
<1>6. v = t
    BY <1>3, <1>4, <1>5, SeqEqual
<1> QED BY <1>1, <1>6 DEF v, u

\* The pieces of text behind the "=" of a label.
LEMMA LabelPieces ==
    /\ <<"set_label", "=", "nkey", "%">> = <<"set_label", "=">> \o <<"nkey", "%">>
    /\ <<"nkey", "%">> = Append(<<"nkey">>, "%")
    /\ <<"%", "pkey", "%">> = Append(<<"%">> \o <<"pkey">>, "%")
    /\ <<"nkey">> \in Seq({"nkey"}) /\ <<"pkey">> \in Seq({"pkey"}) /\ <<"%">> \in Seq({"%"})
<1> DEFINE T == {"set_label", "=", "nkey", "%", "pkey"}
           a == <<"set_label", "=">>
           b == <<"nkey", "%">>
           c == <<"set_label", "=", "nkey", "%">>
           p == <<"%">>
           k == <<"pkey">>
           q == <<"%", "pkey", "%">>
<1>1. /\ a \in Seq(T) /\ Len(a) = 2 /\ a[1] = "set_label" /\ a[2] = "="
      /\ b \in Seq(T) /\ Len(b) = 2 /\ b[1] = "nkey" /\ b[2] = "%"
    OBVIOUS
<1>2. c \in Seq(T) /\ Len(c) = 4 /\ c[1] = "set_label" /\ c[2] = "=" /\ c[3] = "nkey" /\ c[4] = "%"
    OBVIOUS
<1>3. /\ p \in Seq(T) /\ Len(p) = 1 /\ p[1] = "%" /\ k \in Seq(T) /\ Len(k) = 1 /\ k[1] = "pkey"
      /\ q \in Seq(T) /\ Len(q) = 3 /\ q[1] = "%" /\ q[2] = "pkey" /\ q[3] = "%"
    OBVIOUS
<1>4. <<"nkey">> \in Seq(T) /\ Len(<<"nkey">>) = 1 /\ <<"nkey">>[1] = "nkey" /\ "nkey" \in T /\ "%" \in T
    OBVIOUS
<1>5. <<"nkey">> \in Seq({"nkey"}) /\ <<"pkey">> \in Seq({"pkey"}) /\ <<"%">> \in Seq({"%"})
    OBVIOUS
<1>6. <<"nkey", "%">> = Append(<<"nkey">>, "%")
    <2> DEFINE o == <<"nkey">>
    <2>1. o \in Seq(T) /\ Len(o) = 1 /\ o[1] = "nkey" /\ "nkey" \in T /\ "%" \in T
        BY <1>4
    <2> HIDE DEF o, T
    <2>2. Append(o, "%") = <<"nkey", "%">>
        BY <2>1, AppendPair
    <2> QED BY <2>2 DEF o
<1> HIDE DEF T, a, b, c, p, k, q
<1>7. c = a \o b
    <2> DEFINE d == a \o b
    <2>1. d \in Seq(T) /\ Len(d) = 4 /\ \A i \in 1..4 : d[i] = IF i <= 2 THEN a[i] ELSE b[i - 2]
        <3>1. a \in Seq(T) /\ b \in Seq(T)
            BY <1>1
        <3>2. /\ d \in Seq(T) /\ Len(d) = Len(a) + Len(b)
              /\ \A i \in 1..(Len(a) + Len(b)) : d[i] = IF i <= Len(a) THEN a[i] ELSE b[i - Len(a)]
            BY <3>1, ConcatProperties
        <3> HIDE DEF d
        <3> QED BY <1>1, <3>2
    <2> HIDE DEF d
    <2>2. \A i \in 1..4 : d[i] = c[i]
        BY <1>1, <1>2, <2>1
    <2>3. d = c
        BY <1>2, <2>1, <2>2, SeqEqual
    <2> QED BY <2>3 DEF d
<1>8. q = Append(p \o k, "%")
    <2> DEFINE d == p \o k
    <2>1. d \in Seq(T) /\ Len(d) = 2 /\ \A i \in 1..2 : d[i] = IF i <= 1 THEN p[i] ELSE k[i - 1]
        <3>1. p \in Seq(T) /\ k \in Seq(T)
            BY <1>3
        <3>2. /\ d \in Seq(T) /\ Len(d) = Len(p) + Len(k)
              /\ \A i \in 1..(Len(p) + Len(k)) : d[i] = IF i <= Len(p) THEN p[i] ELSE k[i - Len(p)]
            BY <3>1, ConcatProperties
        <3> HIDE DEF d
        <3> QED BY <1>3, <3>2
    <2> HIDE DEF d
    <2>2. d[1] = "%" /\ d[2] = "pkey"
        BY <1>3, <2>1
    <2>3. "%" \in T /\ "pkey" \in T
        BY DEF T
    <2>4. Append(d, "%") = <<"%", "pkey", "%">>
        BY <2>1, <2>2, <2>3, AppendTriple
    <2> QED BY <2>4 DEF d, q
<1> QED BY <1>5, <1>6, <1>7, <1>8 DEF a, b, c, p, k, q

\* How five sequences are joined makes no difference.
LEMMA JoinedFive ==
    ASSUME NEW S, NEW a \in Seq(S), NEW b \in Seq(S), NEW c \in Seq(S), NEW d \in Seq(S), NEW e \in Seq(S)
    PROVE  Joined(Joined(Joined(Joined(a, b), c), d), e) = Joined(a, Joined(Joined(Joined(b, c), d), e))
<1> DEFINE x == Joined(b, c)
           y == Joined(x, d)
<1>1. x \in Seq(S) /\ y \in Seq(S)
    <2>1. x \in Seq(S)
        BY ConcatProperties DEF Joined
    <2> HIDE DEF x
    <2> QED BY <2>1, ConcatProperties DEF Joined
<1>2. Joined(Joined(a, b), c) = Joined(a, x)
    BY JoinedAssociative
<1> HIDE DEF x
<1>3. Joined(Joined(a, x), d) = Joined(a, y)
    BY <1>1, JoinedAssociative
<1> HIDE DEF y
<1>4. Joined(Joined(a, y), e) = Joined(a, Joined(y, e))
    BY <1>1, JoinedAssociative
<1> QED BY <1>2, <1>3, <1>4 DEF x, y

\* (x)(% k %) is ((x %) k) %.
LEMMA AppendedPercent ==
    ASSUME NEW S, NEW x \in Seq(S), NEW k \in Seq(S), "%" \in S
    PROVE  /\ Append(x, "%") \in Seq(S) /\ Append(x, "%") \o k \in Seq(S)
           /\ x \o Append(<<"%">> \o k, "%") = Append(Append(x, "%") \o k, "%")
<1> DEFINE p == <<"%">>
<1>1. p \in Seq(S) /\ p \o k \in Seq(S) /\ x \o p \in Seq(S) /\ Append(x, "%") = x \o p
    BY AppendIsConcat, ConcatProperties
<1>2. Append(x, "%") \in Seq(S) /\ Append(x, "%") \o k \in Seq(S)
    BY AppendProperties, ConcatProperties
<1> DEFINE y == p \o k
           z == x \o p
<1>3. z \o k = x \o y
    BY <1>1, ConcatAssociative
<1> HIDE DEF p, y, z
<1>4. Append(y, "%") = y \o p /\ Append(z \o k, "%") = (z \o k) \o p
    <2>1. y \in Seq(S) /\ z \o k \in Seq(S)
        BY <1>1, <1>2 DEF y, z
    <2> QED BY <2>1, AppendIsConcat DEF p
<1>5. x \o (y \o p) = (x \o y) \o p
    <2>1. y \in Seq(S)
        BY <1>1 DEF y
    <2>2. Joined(x, Joined(y, p)) = Joined(Joined(x, y), p)
        BY <1>1, <2>1, JoinedAssociative
    <2> QED BY <2>2 DEF Joined
<1> QED BY <1>1, <1>2, <1>3, <1>4, <1>5 DEF p, y, z

\* The tokens of a label: "nkey", the node name, "pkey", the platform name.
LEMMA TokensOfLabel ==
    ASSUME NEW node \in Text, NEW platform \in Text, "%" \notin ToSet(node) \cup ToSet(platform)
    PROVE  /\ LabelTokens(PtmLabel(node, platform)) \in Seq(Seq(Printable))
           /\ Len(LabelTokens(PtmLabel(node, platform))) = 4
           /\ LabelTokens(PtmLabel(node, platform))[2] = node
           /\ LabelTokens(PtmLabel(node, platform))[4] = platform
<1> DEFINE P == Printable
           T == Printable \ {"%"}
           a == <<"set_label", "=">>
           nk == <<"nkey">>
           b == <<"nkey", "%">>
           k == <<"pkey">>
           q == <<"%", "pkey", "%">>
           c == <<"set_label", "=", "nkey", "%">>
           label == PtmLabel(node, platform)
           rest == ((b \o node) \o q) \o platform
           st == [done |-> <<>>, token |-> <<>>]
<1>1. node \in Seq(T) /\ platform \in Seq(T) /\ node \in Seq(P) /\ platform \in Seq(P)
    <2>1. node \in Seq(P) /\ platform \in Seq(P)
        BY PrintableSymbols
    <2>2. ToSet(node) \cap {"%"} = {} /\ ToSet(platform) \cap {"%"} = {}
        OBVIOUS
    <2> QED BY <2>1, <2>2, Without
<1>2. /\ nk \in Seq(T) /\ k \in Seq(T) /\ nk \in Seq(P) /\ k \in Seq(P)
      /\ T \subseteq P /\ "%" \in P /\ "%" \notin T
    <2>1. nk \in Seq({"nkey"}) /\ k \in Seq({"pkey"}) /\ {"nkey"} \subseteq T /\ {"pkey"} \subseteq T /\ T \subseteq P
        BY LabelPieces, PrintableSymbols
    <2> HIDE DEF nk, k
    <2> QED BY <2>1, SeqMonotonic, PrintableSymbols
<1>3. a \in Seq(P) /\ Len(a) = 2 /\ a[1] = "set_label" /\ a[2] = "=" /\ c \in Seq(P) /\ q \in Seq(P)
    <2>1. a \in Seq(P) /\ c \in Seq(P) /\ q \in Seq(P)
        BY Pieces, Zenon
    <2>2. Len(a) = 2 /\ a[1] = "set_label" /\ a[2] = "="
        OBVIOUS
    <2> QED BY <2>1, <2>2
<1>4. c = a \o b /\ b = Append(nk, "%") /\ q = Append(<<"%">> \o k, "%")
    BY LabelPieces, Zenon
<1>5. label = c \o node \o q \o platform
    BY DEF PtmLabel
<1> HIDE DEF P, T, a, nk, b, k, q, c, label
<1>6. b \in Seq(P)
    BY <1>2, <1>4, AppendProperties
<1>7. label = a \o rest
    <2>1. Joined(Joined(Joined(Joined(a, b), node), q), platform)
              = Joined(a, Joined(Joined(Joined(b, node), q), platform))
        BY <1>1, <1>3, <1>6, JoinedFive
    <2> QED BY <1>4, <1>5, <2>1 DEF Joined
<1> DEFINE x == b \o node
           y == x \o q
<1>8. x \in Seq(P) /\ y \in Seq(P) /\ rest \in Seq(P)
    <2>1. x \in Seq(P)
        BY <1>1, <1>6, ConcatProperties
    <2> HIDE DEF x
    <2>2. y \in Seq(P)
        BY <1>3, <2>1, ConcatProperties
    <2> HIDE DEF y
    <2>3. y \o platform \in Seq(P)
        BY <1>1, <2>2, ConcatProperties
    <2> QED BY <2>1, <2>2, <2>3 DEF x, y
<1>9. LabelTokens(label) = Tokens(rest)
    <2> HIDE DEF rest
    <2>1. /\ label \in Seq(P) /\ Len(label) = Len(a) + Len(rest) /\ Len(rest) \in Nat
          /\ \A i \in 1..(Len(a) + Len(rest)) : label[i] = IF i <= Len(a) THEN a[i] ELSE rest[i - Len(a)]
        <3>1. a \in Seq(P) /\ rest \in Seq(P)
            BY <1>3, <1>8
        <3>2. /\ a \o rest \in Seq(P) /\ Len(a \o rest) = Len(a) + Len(rest) /\ Len(rest) \in Nat
              /\ \A i \in 1..(Len(a) + Len(rest)) : (a \o rest)[i] = IF i <= Len(a) THEN a[i] ELSE rest[i - Len(a)]
            BY <3>1, ConcatProperties, LenProperties
        <3> QED BY <1>7, <3>2
    <2>2. label[1] = "set_label" /\ label[2] = "=" /\ Len(label) >= 2
        BY <1>3, <2>1
    <2>3. SelectInSeq(label, LAMBDA e : e = "=") = 2
        <3> DEFINE I == {i \in 1..Len(label) : label[i] = "="}
        <3>1. SelectInSeq(label, LAMBDA e : e = "=") = IF I # {} THEN Min(I) ELSE 0
            BY DEF SelectInSeq
        <3>2. 2 \in I /\ \A i \in I : 2 <= i /\ i \in Nat
            BY <2>1, <2>2
        <3> HIDE DEF I
        <3>3. Min(I) = 2
            BY <3>2 DEF Min
        <3> QED BY <3>1, <3>2, <3>3
    <2>4. SubSeq(label, Len(a) + 1, Len(label)) = rest
        BY <1>3, <1>7, <1>8, SubSeqSuffix
    <2>5. Len(a) + 1 = 2 + 1
        BY <1>3
    <2> QED BY <2>3, <2>4, <2>5 DEF LabelTokens
<1> DEFINE d1 == Append(<<>>, nk)
           d2 == Append(d1, node)
           d3 == Append(d2, k)
<1>10. TokenRun(st, b) = [done |-> d1, token |-> <<>>]
    <2>1. TokenRun(st, <<>>) = [done |-> <<>>, token |-> <<>>] /\ <<>> \in Seq(P)
        BY TokenEmpty, EmptySeq
    <2>2. TokenRun(st, <<>> \o nk) = [done |-> <<>>, token |-> nk]
        <3> DEFINE nothing == <<>>
        <3>1. TokenRun(st, nothing) = [done |-> nothing, token |-> <<>>] /\ nothing \in Seq(P)
            BY <2>1
        <3> HIDE DEF nothing, st
        <3>2. TokenRun(st, nothing \o nk) = [done |-> nothing, token |-> nk]
            BY <1>2, <3>1, TokenText
        <3> QED BY <3>2 DEF nothing
    <2>3. <<>> \o nk = nk
        BY <1>2, ConcatEmptySeq
    <2> HIDE DEF st
    <2> DEFINE nothing == <<>>
    <2>4. TokenRun(st, nk) = [done |-> nothing, token |-> nk]
        BY <2>2, <2>3
    <2> HIDE DEF nothing
    <2>5. TokenRun(st, Append(nk, "%")) = [done |-> Append(nothing, nk), token |-> <<>>]
        BY <1>2, <2>4, TokenPercent
    <2> QED BY <1>4, <2>5 DEF nothing
<1> HIDE DEF st, d1
<1>11. TokenRun(st, x) = [done |-> d1, token |-> node]
    BY <1>1, <1>2, <1>6, <1>10, TokenText
<1> HIDE DEF x
<1>12. TokenRun(st, Append(x, "%")) = [done |-> d2, token |-> <<>>]
    BY <1>2, <1>8, <1>11, TokenPercent
<1>13. /\ Append(x, "%") \in Seq(P) /\ Append(x, "%") \o k \in Seq(P)
       /\ y = Append(Append(x, "%") \o k, "%")
    BY <1>2, <1>4, <1>8, AppendedPercent
<1> HIDE DEF y, d2
<1> DEFINE z == Append(x, "%")
           v == z \o k
<1>14. TokenRun(st, v) = [done |-> d2, token |-> k]
    <2>1. z \in Seq(P) /\ TokenRun(st, z) = [done |-> d2, token |-> <<>>]
        BY <1>12, <1>13
    <2> HIDE DEF z
    <2> QED BY <1>2, <2>1, TokenText
<1>15. TokenRun(st, y) = [done |-> d3, token |-> <<>>]
    <2>1. v \in Seq(P) /\ y = Append(v, "%")
        BY <1>13
    <2> HIDE DEF v
    <2>2. TokenRun(st, Append(v, "%")) = [done |-> Append(d2, k), token |-> <<>>]
        BY <1>2, <1>14, <2>1, TokenPercent
    <2> QED BY <2>1, <2>2 DEF d3
<1>16. TokenRun(st, y \o platform) = [done |-> d3, token |-> platform]
    BY <1>1, <1>2, <1>8, <1>15, TokenText
<1>17. Tokens(rest) = Append(d3, platform)
    <2>1. \A t : Tokens(t) = Append(TokenRun(st, t).done, TokenRun(st, t).token)
        BY DEF Tokens, TokenRun, st
    <2>2. TokenRun(st, rest) = [done |-> d3, token |-> platform]
        BY <1>16 DEF x, y
    <2> HIDE DEF rest
    <2> QED BY <2>1, <2>2
<1> DEFINE L == Seq(P)
<1>18. nk \in L /\ node \in L /\ k \in L /\ platform \in L
    BY <1>1, <1>2
<1> HIDE DEF L
<1>19. d1 \in Seq(L) /\ Len(d1) = 1
    BY <1>18 DEF d1
<1>20. d2 \in Seq(L) /\ Len(d2) = Len(d1) + 1 /\ d2[Len(d1) + 1] = node
    <2>1. d1 \in Seq(L) /\ node \in L
        BY <1>18, <1>19
    <2>2. /\ Append(d1, node) \in Seq(L) /\ Len(Append(d1, node)) = Len(d1) + 1
          /\ Append(d1, node)[Len(d1) + 1] = node
        BY <2>1, AppendProperties
    <2> QED BY <2>2 DEF d2
<1>21. d3 \in Seq(L) /\ Len(d3) = Len(d2) + 1 /\ \A i \in 1..Len(d2) : d3[i] = d2[i]
    BY <1>18, <1>20, AppendProperties DEF d3
<1> DEFINE d4 == Append(d3, platform)
<1>22. d4 \in Seq(L) /\ Len(d4) = Len(d3) + 1 /\ (\A i \in 1..Len(d3) : d4[i] = d3[i]) /\ d4[Len(d3) + 1] = platform
    BY <1>18, <1>21, AppendProperties
<1> HIDE DEF d4
<1>23. Len(d4) = 4 /\ d4[2] = node /\ d4[4] = platform
    BY <1>19, <1>20, <1>21, <1>22
<1> QED BY <1>9, <1>17, <1>22, <1>23 DEF d4, L, P, label

\* The address of a pretag line is read without its mask.
LEMMA AddressOfPtm ==
    ASSUME NEW r \in Row, "/" \notin ToSet(r.ip)
    PROVE  AddressOf(PtmAddress(r)) = r.ip
<1> DEFINE P == Printable
           front == <<"ip", "=">>
           slash == <<"/", "32">>
           m == IF r.mask THEN slash ELSE <<>>
           ip == r.ip
           n == Len(ip)
           h == front \o ip
           cell == h \o m
           M == IF r.mask THEN 2 ELSE 0
<1>1. /\ ip \in Seq(P) /\ n \in Nat /\ DOMAIN ip = 1..n /\ r.mask \in BOOLEAN
      /\ \A i \in 1..n : ip[i] # "/" /\ ip[i] \in P
    <2>1. ip \in Seq(P) /\ r.mask \in BOOLEAN
        BY PrintableSymbols DEF Row
    <2>2. n \in Nat /\ DOMAIN ip = 1..n /\ \A i \in 1..n : ip[i] \in P
        BY <2>1, LenProperties
    <2>3. \A i \in 1..n : ip[i] # "/"
        BY <2>2 DEF ToSet
    <2> QED BY <2>1, <2>2, <2>3
<1>2. /\ front \in Seq(P) /\ Len(front) = 2 /\ front[1] = "ip" /\ front[2] = "="
      /\ slash \in Seq(P) /\ Len(slash) = 2 /\ slash[1] = "/" /\ slash[2] = "32"
    <2>1. front \in Seq(P) /\ slash \in Seq(P)
        BY Pieces, Zenon
    <2>2. /\ Len(front) = 2 /\ front[1] = "ip" /\ front[2] = "="
          /\ Len(slash) = 2 /\ slash[1] = "/" /\ slash[2] = "32"
        OBVIOUS
    <2> QED BY <2>1, <2>2
<1>3. PtmAddress(r) = cell
    BY DEF PtmAddress
<1>4. AddressOf(cell) = SubSeq(cell, SelectInSeq(cell, LAMBDA c : c = "=") + 1,
                               IF SelectLastInSeq(cell, LAMBDA c : c = "/") >= SelectInSeq(cell, LAMBDA c : c = "=") + 1
                               THEN SelectLastInSeq(cell, LAMBDA c : c = "/") - 1 ELSE Len(cell))
    BY DEF AddressOf
<1> HIDE DEF P, front, slash, ip, n
<1>5. m \in Seq(P) /\ Len(m) = M /\ M \in {0, 2} /\ (r.mask => M = 2 /\ m = slash) /\ (~r.mask => M = 0)
    <2>1. <<>> \in Seq(P) /\ Len(<<>>) = 0
        BY EmptySeq
    <2> QED BY <1>2, <2>1, SMTT(40)
<1> HIDE DEF m, M
<1>6. /\ h \in Seq(P) /\ Len(h) = 2 + n
      /\ \A i \in 1..(2 + n) : h[i] = IF i <= 2 THEN front[i] ELSE ip[i - 2]
    <2>1. front \in Seq(P) /\ ip \in Seq(P)
        BY <1>1, <1>2
    <2>2. /\ h \in Seq(P) /\ Len(h) = Len(front) + Len(ip)
          /\ \A i \in 1..(Len(front) + Len(ip)) : h[i] = IF i <= Len(front) THEN front[i] ELSE ip[i - Len(front)]
        BY <2>1, ConcatProperties
    <2> HIDE DEF h
    <2> QED BY <1>2, <2>2 DEF n
<1> HIDE DEF h
<1>7. /\ cell \in Seq(P) /\ Len(cell) = 2 + n + M
      /\ \A i \in 1..(2 + n + M) : cell[i] = IF i <= 2 + n THEN h[i] ELSE m[i - (2 + n)]
    <2>1. h \in Seq(P) /\ m \in Seq(P)
        BY <1>5, <1>6
    <2>2. /\ cell \in Seq(P) /\ Len(cell) = Len(h) + Len(m)
          /\ \A i \in 1..(Len(h) + Len(m)) : cell[i] = IF i <= Len(h) THEN h[i] ELSE m[i - Len(h)]
        BY <2>1, ConcatProperties
    <2> HIDE DEF cell
    <2> QED BY <1>5, <1>6, <2>2
<1> HIDE DEF cell
<1>8. cell[1] = "ip" /\ cell[2] = "="
    <2>1. 1 \in 1..(2 + n) /\ 2 \in 1..(2 + n) /\ 1 \in 1..(2 + n + M) /\ 2 \in 1..(2 + n + M) /\ 1 <= 2 + n /\ 2 <= 2 + n
        BY <1>1, <1>5
    <2> QED BY <1>2, <1>6, <1>7, <2>1
<1>9. \A i \in 1..n : cell[i + 2] = ip[i]
    <2> SUFFICES ASSUME NEW i \in 1..n PROVE cell[i + 2] = ip[i]
        OBVIOUS
    <2> DEFINE j == i + 2
    <2>1. j \in 1..(2 + n) /\ j \in 1..(2 + n + M) /\ j <= 2 + n /\ ~(j <= 2) /\ j - 2 = i
        BY <1>1, <1>5
    <2> HIDE DEF j
    <2>2. cell[j] = ip[i]
        BY <1>6, <1>7, <2>1
    <2> QED BY <2>2 DEF j
<1>10. SelectInSeq(cell, LAMBDA c : c = "=") = 2
    <2> DEFINE I == {i \in 1..Len(cell) : cell[i] = "="}
    <2>1. SelectInSeq(cell, LAMBDA c : c = "=") = IF I # {} THEN Min(I) ELSE 0
        BY DEF SelectInSeq
    <2>2. 2 \in I /\ \A i \in I : 2 <= i /\ i \in Nat
        BY <1>1, <1>5, <1>7, <1>8
    <2> HIDE DEF I
    <2>3. Min(I) = 2
        BY <2>2 DEF Min
    <2> QED BY <2>1, <2>2, <2>3
<1>11. SelectLastInSeq(cell, LAMBDA c : c = "/") = IF r.mask THEN n + 3 ELSE 0
    <2> DEFINE I == {i \in 1..Len(cell) : cell[i] = "/"}
    <2>1. SelectLastInSeq(cell, LAMBDA c : c = "/") = IF I # {} THEN Max(I) ELSE 0
        BY DEF SelectLastInSeq
    <2>2. \A i \in 1..(n + 2) : cell[i] # "/"
        <3> SUFFICES ASSUME NEW i \in 1..(n + 2) PROVE cell[i] # "/"
            OBVIOUS
        <3>1. CASE i = 1 \/ i = 2
            BY <1>8, <3>1
        <3>2. CASE ~(i = 1 \/ i = 2)
            <4>1. i - 2 \in 1..n /\ (i - 2) + 2 = i
                BY <1>1, <3>2
            <4>2. cell[i] = ip[i - 2]
                BY <1>9, <4>1
            <4> QED BY <1>1, <4>1, <4>2
        <3> QED BY <3>1, <3>2
    <2>3. CASE r.mask
        <3>1. M = 2 /\ m[1] = "/" /\ m[2] = "32"
            BY <1>2, <1>5, <2>3
        <3>2. cell[n + 3] = "/" /\ cell[n + 4] = "32" /\ Len(cell) = n + 4
            <4>1. /\ n + 3 \in 1..(2 + n + M) /\ ~(n + 3 <= 2 + n) /\ (n + 3) - (2 + n) = 1
                  /\ n + 4 \in 1..(2 + n + M) /\ ~(n + 4 <= 2 + n) /\ (n + 4) - (2 + n) = 2
                  /\ 2 + n + M = n + 4
                BY <1>1, <3>1
            <4> QED BY <1>7, <3>1, <4>1
        <3>3. \A i \in 1..Len(cell) : i \in 1..(n + 2) \/ i = n + 3 \/ i = n + 4
            BY <1>1, <3>2
        <3>4. n + 3 \in I /\ \A i \in I : i <= n + 3 /\ i \in Nat
            <4>1. n + 3 \in 1..Len(cell)
                BY <1>1, <3>2
            <4>2. "32" # "/"
                OBVIOUS
            <4>3. \A i \in I : i \in 1..(n + 2) \/ i = n + 3
                BY <2>2, <3>2, <3>3, <4>2
            <4>4. n + 3 \in I
                BY <3>2, <4>1
            <4> HIDE DEF I
            <4> QED BY <1>1, <4>3, <4>4
        <3> HIDE DEF I
        <3>5. Max(I) = n + 3
            BY <1>1, <3>4 DEF Max
        <3> QED BY <2>1, <2>3, <3>4, <3>5
    <2>4. CASE ~r.mask
        <3>1. Len(cell) = n + 2
            BY <1>1, <1>5, <1>7, <2>4
        <3>2. I = {}
            BY <2>2, <3>1
        <3> QED BY <2>1, <2>4, <3>2
    <2> QED BY <1>1, <2>3, <2>4
<1>12. AddressOf(cell) = SubSeq(cell, 3, n + 2)
    <2> DEFINE start == SelectInSeq(cell, LAMBDA c : c = "=")
               stop  == SelectLastInSeq(cell, LAMBDA c : c = "/")
    <2>1. start = 2 /\ stop = IF r.mask THEN n + 3 ELSE 0
        BY <1>10, <1>11
    <2>2. AddressOf(cell) = SubSeq(cell, start + 1, IF stop >= start + 1 THEN stop - 1 ELSE Len(cell))
        BY <1>4
    <2> HIDE DEF start, stop
    <2>3. start + 1 = 3 /\ (IF stop >= start + 1 THEN stop - 1 ELSE Len(cell)) = n + 2
        BY <1>1, <1>5, <1>7, <2>1
    <2> QED BY <2>2, <2>3
<1>13. SubSeq(cell, 3, n + 2) = ip
    <2> DEFINE v == SubSeq(cell, 3, n + 2)
    <2>1. 3 \in Int /\ n + 2 \in Int /\ \A i \in 3..(n + 2) : cell[i] \in P
        BY <1>1, <1>5, <1>7, LenProperties
    <2>2. /\ v \in Seq(P) /\ Len(v) = (IF 3 <= n + 2 THEN ((n + 2) - 3) + 1 ELSE 0)
          /\ \A i \in 1..(((n + 2) - 3) + 1) : v[i] = cell[(3 + i) - 1]
        BY <2>1, SubSeqProperties
    <2> HIDE DEF v
    <2>3. Len(v) = n
        BY <1>1, <2>2
    <2>4. \A i \in 1..n : v[i] = ip[i]
        <3> SUFFICES ASSUME NEW i \in 1..n PROVE v[i] = ip[i]
            OBVIOUS
        <3>1. i \in 1..(((n + 2) - 3) + 1) /\ (3 + i) - 1 = i + 2
            BY <1>1
        <3> QED BY <1>9, <2>2, <3>1
    <2>5. v = ip
        BY <1>1, <2>2, <2>3, <2>4, SeqEqual DEF n
    <2> QED BY <2>5 DEF v
<1> QED BY <1>3, <1>12, <1>13 DEF ip

-----------------------------------------------------------------------------
(* The loaders.                                                            *)

\* There is a last of some positions.
LEMMA LastIndex ==
    \A n \in Nat, I \in SUBSET Nat : I \subseteq 1..n /\ I # {} => \E i \in I : \A j \in I : j <= i
<1> DEFINE G == {n \in Nat : \A I \in SUBSET Nat : I \subseteq 1..n /\ I # {} => \E i \in I : \A j \in I : j <= i}
<1>1. 0 \in G
    <2>1. 1..0 = {}
        OBVIOUS
    <2>2. \A I \in SUBSET Nat : I \subseteq 1..0 => I = {}
        BY <2>1
    <2> QED BY <2>2
<1>2. ASSUME NEW n \in Nat, n \in G PROVE n + 1 \in G
    <2> SUFFICES ASSUME NEW I \in SUBSET Nat, I \subseteq 1..(n + 1), I # {}
                 PROVE  \E i \in I : \A j \in I : j <= i
        OBVIOUS
    <2>1. CASE n + 1 \in I
        <3>1. \A j \in I : j <= n + 1
            OBVIOUS
        <3> QED BY <2>1, <3>1
    <2>2. CASE n + 1 \notin I
        <3>1. I \subseteq 1..n
            BY <2>2
        <3> QED BY <1>2, <3>1
    <2> QED BY <2>1, <2>2
<1> HIDE DEF G
<1>3. \A n \in Nat : n \in G
    BY <1>1, <1>2, Induction
<1> QED BY <1>3 DEF G

\* The row whose names a host gets.
LastRow(rows, ip) ==
    CHOOSE i \in {i \in DOMAIN rows : rows[i].ip = ip} : \A j \in {j \in DOMAIN rows : rows[j].ip = ip} : j <= i

\* It is a row of the address, and no later one is.
LEMMA LastRowIs ==
    ASSUME NEW rows, NEW n \in Nat, DOMAIN rows = 1..n, NEW ip \in {rows[i].ip : i \in DOMAIN rows}
    PROVE  /\ LastRow(rows, ip) \in 1..n /\ rows[LastRow(rows, ip)].ip = ip
           /\ \A i \in 1..n : rows[i].ip = ip /\ (\A j \in 1..n : rows[j].ip = ip => j <= i) => i = LastRow(rows, ip)
           /\ \A j \in 1..n : rows[j].ip = ip => j <= LastRow(rows, ip)
<1> DEFINE I == {i \in DOMAIN rows : rows[i].ip = ip}
<1>1. I \subseteq 1..n /\ I # {} /\ I \in SUBSET Nat
    OBVIOUS
<1>2. \E i \in I : \A j \in I : j <= i
    <2> HIDE DEF I
    <2> QED BY <1>1, LastIndex
<1>3. LastRow(rows, ip) = CHOOSE i \in I : \A j \in I : j <= i
    BY DEF LastRow
<1> DEFINE l == LastRow(rows, ip)
<1>4. l \in I /\ \A j \in I : j <= l
    <2> HIDE DEF I
    <2> QED BY <1>2, <1>3
<1> HIDE DEF l
<1>5. \A i \in 1..n : rows[i].ip = ip => i \in I
    OBVIOUS
<1>6. ASSUME NEW i \in 1..n, rows[i].ip = ip, \A j \in 1..n : rows[j].ip = ip => j <= i PROVE i = l
    <2>1. i \in I /\ l \in 1..n /\ rows[l].ip = ip
        BY <1>4, <1>6
    <2>2. i <= l /\ l <= i
        BY <1>4, <1>6, <2>1
    <2> QED BY <2>1, <2>2
<1>7. l \in 1..n /\ rows[l].ip = ip
    BY <1>4
<1>8. \A j \in 1..n : rows[j].ip = ip => j <= l
    BY <1>4, <1>5
<1> QED BY <1>6, <1>7, <1>8 DEF l

\* The labels are the names of these rows.
LEMMA AsWrittenNames ==
    ASSUME NEW rows, NEW n \in Nat, DOMAIN rows = 1..n
    PROVE  AsWritten(rows) = [ip \in {rows[i].ip : i \in DOMAIN rows} |-> RowNames(rows[LastRow(rows, ip)])]
BY DEF AsWritten, LastRow

\* From columns with the addresses and names of rows, the map of these rows.
LEMMA FillMapRows ==
    ASSUME NEW rows, NEW n \in Nat, DOMAIN rows = 1..n,
           NEW ips, NEW nids, NEW pids,
           ips = [i \in 1..n |-> rows[i].ip], nids = [i \in 1..n |-> rows[i].node],
           pids = [i \in 1..n |-> rows[i].platform]
    PROVE  FillMap(ips, nids, pids) = AsWritten(rows)
<1> DEFINE H == {rows[i].ip : i \in DOMAIN rows}
           at(ip) == CHOOSE i \in DOMAIN ips : ips[i] = ip /\ \A j \in DOMAIN ips : ips[j] = ip => j <= i
           names(i) == <<IF i \in DOMAIN nids THEN nids[i] ELSE Garbage, pids[i]>>
<1>1. ToSet(ips) = H
    BY DEF ToSet
<1>2. FillMap(ips, nids, pids) = [ip \in H |-> names(at(ip))]
    <2> HIDE DEF H
    <2> QED BY <1>1 DEF FillMap
<1>3. ASSUME NEW ip \in H PROVE at(ip) = LastRow(rows, ip)
    <2> DEFINE l == LastRow(rows, ip)
               Q(i) == ips[i] = ip /\ \A j \in DOMAIN ips : ips[j] = ip => j <= i
    <2>1. /\ l \in 1..n /\ rows[l].ip = ip /\ (\A j \in 1..n : rows[j].ip = ip => j <= l)
          /\ \A i \in 1..n : rows[i].ip = ip /\ (\A j \in 1..n : rows[j].ip = ip => j <= i) => i = l
        BY LastRowIs
    <2> HIDE DEF l
    <2>2. DOMAIN ips = 1..n /\ \A i \in 1..n : ips[i] = rows[i].ip
        OBVIOUS
    <2>3. l \in DOMAIN ips /\ Q(l)
        BY <2>1, <2>2
    <2>4. \A i \in DOMAIN ips : Q(i) => i = l
        BY <2>1, <2>2
    <2> HIDE DEF Q
    <2>5. (CHOOSE i \in DOMAIN ips : Q(i)) = l
        BY <2>3, <2>4
    <2> QED BY <2>5 DEF Q, l
<1>4. ASSUME NEW ip \in H PROVE names(at(ip)) = RowNames(rows[LastRow(rows, ip)])
    <2> DEFINE l == LastRow(rows, ip)
    <2>1. l \in 1..n
        BY LastRowIs
    <2>2. names(at(ip)) = names(l)
        <3>1. at(ip) = l
            BY <1>3
        <3> HIDE DEF at, l
        <3> QED BY <3>1
    <2> HIDE DEF l
    <2>3. names(l) = <<rows[l].node, rows[l].platform>>
        BY <2>1
    <2> QED BY <2>2, <2>3 DEF RowNames, l
<1>5. [ip \in H |-> names(at(ip))] = [ip \in H |-> RowNames(rows[LastRow(rows, ip)])]
    <2> HIDE DEF H, names, at
    <2> QED BY <1>4
<1>6. AsWritten(rows) = [ip \in H |-> RowNames(rows[LastRow(rows, ip)])]
    BY AsWrittenNames
<1> QED BY <1>2, <1>5, <1>6

\* When every label has its node name, nid has them in order.
LEMMA NodeNamesOf ==
    ASSUME NEW labs, NEW n \in Nat, DOMAIN labs = 1..n, \A i \in 1..n : Len(labs[i]) >= 3
    PROVE  NodeNames(labs) = [i \in 1..n |-> labs[i][2]]
<1> DEFINE named == {i \in DOMAIN labs : Len(labs[i]) >= 3}
           nth(k) == CHOOSE i \in named : Cardinality({j \in named : j <= i}) = k
<1>1. named = 1..n
    OBVIOUS
<1>2. NodeNames(labs) = [k \in 1..Cardinality(named) |-> labs[nth(k)][2]]
    BY DEF NodeNames
<1>3. Cardinality(1..n) = n
    BY FS_Interval
<1>4. ASSUME NEW k \in 1..n PROVE nth(k) = k
    <2>1. ASSUME NEW i \in 1..n PROVE Cardinality({j \in 1..n : j <= i}) = i
        <3>1. {j \in 1..n : j <= i} = 1..i
            OBVIOUS
        <3>2. Cardinality(1..i) = i
            BY FS_Interval
        <3> QED BY <3>1, <3>2
    <2> DEFINE Q(i) == Cardinality({j \in named : j <= i}) = k
    <2> HIDE DEF named
    <2>2. \A i \in named : Q(i) <=> i = k
        BY <1>1, <2>1
    <2> HIDE DEF Q
    <2>3. (CHOOSE i \in named : Q(i)) = k
        BY <1>1, <2>2
    <2> QED BY <2>3 DEF Q
<1> HIDE DEF named, nth
<1> QED BY <1>1, <1>2, <1>3, <1>4

\* The start of a sequence.
LEMMA Start ==
    ASSUME NEW S, NEW s \in Seq(S), NEW m \in 0..Len(s)
    PROVE  /\ SubSeq(s, 1, m) \in Seq(S) /\ Len(SubSeq(s, 1, m)) = m /\ DOMAIN SubSeq(s, 1, m) = 1..m
           /\ \A i \in 1..m : SubSeq(s, 1, m)[i] = s[i]
           /\ m \in Nat
<1> DEFINE t == SubSeq(s, 1, m)
<1>1. Len(s) \in Nat /\ \A i \in 1..Len(s) : s[i] \in S
    BY LenProperties
<1>2. 1 \in Int /\ m \in Int /\ m \in Nat /\ \A i \in 1..m : s[i] \in S
    BY <1>1
<1>3. /\ t \in Seq(S) /\ Len(t) = (IF 1 <= m THEN (m - 1) + 1 ELSE 0)
      /\ \A i \in 1..((m - 1) + 1) : t[i] = s[(1 + i) - 1]
    BY <1>2, SubSeqProperties
<1> HIDE DEF t
<1>4. Len(t) = m
    BY <1>2, <1>3
<1>5. DOMAIN t = 1..m
    BY <1>3, <1>4, LenProperties
<1>6. \A i \in 1..m : t[i] = s[i]
    <2> SUFFICES ASSUME NEW i \in 1..m PROVE t[i] = s[i]
        OBVIOUS
    <2>1. i \in 1..((m - 1) + 1) /\ (1 + i) - 1 = i
        BY <1>2
    <2> QED BY <1>3, <2>1
<1> QED BY <1>2, <1>3, <1>4, <1>5, <1>6 DEF t

LoadOf(w) == IF w.style = "csv" THEN LoadLabelMap(Written(w)) ELSE LoadLabelMapPreTagStyle(Written(w))

AllFull(w) == \A i \in DOMAIN w.rows : w.rows[i].full

\* How a file is loaded: with the labels of the rows at its start, of all of
\* them when it is well-formed, or not at all.
LoadedWell(w) ==
    /\ LoadOf(w).ended \in {"loaded", "exited", "crashed"}
    /\ LoadOf(w).ended = "loaded" /\ (w.style = "csv" \/ AllFull(w)) =>
          \E k \in 0..Len(w.rows) : LoadOf(w).map = AsWritten(SubSeq(w.rows, 1, k))
    /\ WellFormed(w) => LoadOf(w).ended = "loaded" /\ LoadOf(w).map = AsWritten(w.rows)

\* The columns of rows of three cells.
LEMMA CsvLoaded ==
    ASSUME NEW w \in Files, w.style = "csv"
    PROVE  LoadedWell(w)
<1> DEFINE cells == LineCells(w)
           n == Len(w.rows)
           N == Len(cells)
           load == LoadLabelMap(Written(w))
<1>1. /\ w.rows \in Seq(Row) /\ n \in Nat /\ DOMAIN w.rows = 1..n
      /\ \A i \in 1..n : w.rows[i].full \in BOOLEAN
    <2>1. \A i \in 1..n : w.rows[i] \in Row
        BY FileTypes
    <2> QED BY <2>1, FileTypes DEF Row
<1>2. /\ cells \in Seq(Seq(Seq(Printable))) /\ N \in Nat
      /\ \A i \in 1..n : cells[i] = RowCells("csv", w.rows[i])
      /\ \A i \in (n + 1)..N : Len(cells[i]) = 1
      /\ ~w.sentinel /\ ~w.blank => N = n
    <2>1. /\ cells \in Seq(Seq(Seq(Printable))) /\ N \in Nat
          /\ N = n + (IF w.sentinel THEN 1 ELSE 0) + (IF w.blank THEN 1 ELSE 0)
          /\ \A i \in 1..n : cells[i] = RowCells(w.style, w.rows[i])
          /\ \A i \in (n + 1)..N : Len(cells[i]) = 1
        BY LineCellsAt
    <2> HIDE DEF cells, n, N
    <2> QED BY <1>1, <2>1
<1>3. PICK m \in 0..N : ReadCsv(Written(w), ",") = SubSeq(cells, 1, m) /\ (~w.blank => m = N)
    BY WrittenRead DEF SeparatorOf
<1> DEFINE data == SubSeq(cells, 1, m)
           rs == SubSeq(w.rows, 1, m)
           columns == \A i \in 0..2 : HasColumn(data, i)
<1>4. DOMAIN data = 1..m /\ m \in Nat /\ \A i \in 1..m : data[i] = cells[i]
    BY <1>2, Start
<1>5. load = IF columns THEN [ended |-> "loaded", map |-> FillMap(Column(data, 0), Column(data, 1), Column(data, 2))]
             ELSE Exits
    BY <1>3 DEF LoadLabelMap
<1> HIDE DEF cells, n, N, load
<1>6. ASSUME NEW i \in 1..n
      PROVE  IF w.rows[i].full
             THEN /\ Len(cells[i]) = 3 /\ cells[i][1] = w.rows[i].ip
                  /\ cells[i][2] = w.rows[i].node /\ cells[i][3] = w.rows[i].platform
             ELSE Len(cells[i]) = 2
    <2>1. cells[i] = IF w.rows[i].full THEN <<w.rows[i].ip, w.rows[i].node, w.rows[i].platform>>
                     ELSE <<w.rows[i].ip, w.rows[i].node>>
        BY <1>2 DEF RowCells
    <2>2. CASE w.rows[i].full
        BY <2>1, <2>2
    <2>3. CASE ~w.rows[i].full
        BY <2>1, <2>3
    <2> QED BY <2>2, <2>3
<1>7. ASSUME columns PROVE m <= n /\ load.map = AsWritten(rs)
    <2>1. \A i \in 1..m : Len(cells[i]) > 2
        BY <1>4, <1>7 DEF HasColumn
    <2>2. m <= n
        <3> SUFFICES ASSUME ~(m <= n) PROVE FALSE
            BY <1>1, <1>4
        <3>1. m \in (n + 1)..N /\ m \in 1..m
            <4>1. m \in Nat /\ n \in Nat /\ N \in Nat /\ m <= N
                BY <1>1, <1>2, <1>4
            <4> QED BY <4>1
        <3>2. Len(cells[m]) = 1 /\ Len(cells[m]) > 2
            BY <1>2, <2>1, <3>1
        <3> QED BY <3>2
    <2>3. \A i \in 1..m : /\ cells[i][1] = w.rows[i].ip
                          /\ cells[i][2] = w.rows[i].node /\ cells[i][3] = w.rows[i].platform
        <3> SUFFICES ASSUME NEW i \in 1..m
                     PROVE  /\ cells[i][1] = w.rows[i].ip
                            /\ cells[i][2] = w.rows[i].node /\ cells[i][3] = w.rows[i].platform
            OBVIOUS
        <3>1. i \in 1..n /\ Len(cells[i]) > 2
            BY <1>1, <1>4, <2>1, <2>2
        <3>2. w.rows[i].full
            <4> SUFFICES ASSUME ~w.rows[i].full PROVE FALSE
                BY <1>1, <3>1
            <4>1. Len(cells[i]) = 2
                BY <1>6, <3>1
            <4> QED BY <3>1, <4>1
        <3> QED BY <1>6, <3>1, <3>2
    <2>4. DOMAIN rs = 1..m /\ \A i \in 1..m : rs[i] = w.rows[i]
        <3>1. m \in 0..Len(w.rows)
            BY <1>1, <1>4, <2>2 DEF n
        <3> QED BY <1>1, <3>1, Start
    <2> HIDE DEF data, rs
    <2>5. /\ Column(data, 0) = [i \in 1..m |-> rs[i].ip]
          /\ Column(data, 1) = [i \in 1..m |-> rs[i].node]
          /\ Column(data, 2) = [i \in 1..m |-> rs[i].platform]
        <3>1. 0 + 1 = 1 /\ 1 + 1 = 2 /\ 2 + 1 = 3
            OBVIOUS
        <3>2. \A i \in 1..m : data[i][1] = rs[i].ip /\ data[i][2] = rs[i].node /\ data[i][3] = rs[i].platform
            BY <1>4, <2>3, <2>4
        <3> QED BY <1>4, <3>1, <3>2 DEF Column
    <2>6. FillMap(Column(data, 0), Column(data, 1), Column(data, 2)) = AsWritten(rs)
        BY <1>4, <2>4, <2>5, FillMapRows
    <2> QED BY <1>5, <1>7, <2>2, <2>6
<1>8. load.ended = "loaded" => columns
    BY <1>5 DEF Exits
<1>9. load.ended \in {"loaded", "exited", "crashed"}
    BY <1>5 DEF Exits
<1>10. ASSUME WellFormed(w) PROVE load.ended = "loaded" /\ load.map = AsWritten(w.rows)
    <2>1. m = n /\ \A i \in 1..n : w.rows[i].full
        BY <1>1, <1>2, <1>3, <1>10, FileTypes DEF WellFormed
    <2>2. columns
        <3>1. \A i \in 1..m : Len(cells[i]) = 3
            BY <1>6, <2>1
        <3> HIDE DEF data
        <3>2. ASSUME NEW i \in 0..2, NEW r \in DOMAIN data PROVE Len(data[r]) > i
            <4>1. r \in 1..m
                BY <1>4
            <4>2. Len(data[r]) = 3
                BY <1>4, <3>1, <4>1
            <4> QED BY <4>2
        <3> QED BY <3>2 DEF HasColumn
    <2>3. rs = w.rows
        BY <1>1, <2>1, SubSeqFull DEF n
    <2> QED BY <1>5, <1>7, <2>2, <2>3
<1>11. LoadOf(w) = load
    BY DEF LoadOf, load
<1>12. load.ended = "loaded" => \E k \in 0..Len(w.rows) : load.map = AsWritten(SubSeq(w.rows, 1, k))
    <2> SUFFICES ASSUME load.ended = "loaded"
                 PROVE  \E k \in 0..Len(w.rows) : load.map = AsWritten(SubSeq(w.rows, 1, k))
        OBVIOUS
    <2>1. m <= n /\ load.map = AsWritten(SubSeq(w.rows, 1, m))
        BY <1>7, <1>8
    <2>2. m \in 0..Len(w.rows)
        BY <1>1, <1>4, <2>1 DEF n
    <2> QED BY <2>1, <2>2
<1> QED BY <1>9, <1>10, <1>11, <1>12 DEF LoadedWell

\* The labels and addresses of rows of two cells; the last row is dropped.
LEMMA PtmLoaded ==
    ASSUME NEW w \in Files, w.style = "ptm"
    PROVE  LoadedWell(w)
<1> DEFINE cells == LineCells(w)
           n == Len(w.rows)
           N == Len(cells)
           load == LoadLabelMapPreTagStyle(Written(w))
<1>1. w.rows \in Seq(Row) /\ n \in Nat /\ DOMAIN w.rows = 1..n
    BY FileTypes
<1>1a. \A i \in 1..n : w.rows[i] \in Row /\ w.rows[i].full \in BOOLEAN
    <2>1. \A i \in 1..n : w.rows[i] \in Row
        BY FileTypes
    <2> HIDE DEF n
    <2> QED BY <2>1 DEF Row
<1>1b. \A i \in 1..n : /\ ToSet(w.rows[i].ip) \cap {" ", Quote, "/"} = {}
                     /\ "%" \notin ToSet(w.rows[i].node) \cup ToSet(w.rows[i].platform)
    <2>1. \A i \in DOMAIN w.rows : /\ ToSet(w.rows[i].ip) \cap {" ", Quote, "/"} = {}
                                  /\ "%" \notin ToSet(w.rows[i].node) \cup ToSet(w.rows[i].platform)
        BY FilesAssumption
    <2> HIDE DEF n
    <2> QED BY <1>1, <2>1
<1>2. /\ cells \in Seq(Seq(Seq(Printable))) /\ N \in Nat
      /\ \A i \in 1..n : cells[i] = RowCells("ptm", w.rows[i])
      /\ \A i \in (n + 1)..N : Len(cells[i]) = 1
      /\ w.sentinel /\ ~w.blank => N = n + 1
    <2>1. /\ cells \in Seq(Seq(Seq(Printable))) /\ N \in Nat
          /\ N = n + (IF w.sentinel THEN 1 ELSE 0) + (IF w.blank THEN 1 ELSE 0)
          /\ \A i \in 1..n : cells[i] = RowCells(w.style, w.rows[i])
          /\ \A i \in (n + 1)..N : Len(cells[i]) = 1
        BY LineCellsAt
    <2> HIDE DEF cells, n, N
    <2>2. w.sentinel /\ ~w.blank => N = n + 1
        <3>1. N = n + (IF w.sentinel THEN 1 ELSE 0) + (IF w.blank THEN 1 ELSE 0)
            BY <2>1
        <3>2. n \in Nat
            BY <1>1
        <3> QED BY <3>1, <3>2
    <2> QED BY <2>1, <2>2
<1>3. PICK m \in 0..N : ReadCsv(Written(w), " ") = SubSeq(cells, 1, m) /\ (~w.blank => m = N)
    <2>1. SeparatorOf(w) = " "
        BY DEF SeparatorOf
    <2> QED BY <2>1, WrittenRead
<1> DEFINE data == SubSeq(cells, 1, m)
           kept == DropSentinel(data)
           labs == [r \in DOMAIN kept |-> LabelTokens(kept[r][1])]
           ips  == [r \in DOMAIN kept |-> AddressOf(kept[r][2])]
           pids == [r \in DOMAIN kept |-> Last(labs[r])]
           columns == HasColumn(kept, 0) /\ HasColumn(kept, 1)
           k == m - 1
           rs == SubSeq(w.rows, 1, k)
<1>3a. m \in Nat /\ m <= N
    BY <1>2
<1>4. DOMAIN data = 1..m /\ m \in Nat /\ data \in Seq(Seq(Seq(Printable))) /\ Len(data) = m
      /\ \A i \in 1..m : data[i] = cells[i]
    BY <1>2, Start
<1>5. load = CASE data = <<>> -> Crashes
               [] data # <<>> /\ ~columns -> Exits
               [] OTHER -> [ended |-> "loaded", map |-> FillMap(ips, NodeNames(labs), pids)]
    BY <1>3 DEF LoadLabelMapPreTagStyle
<1>6. data = <<>> <=> m = 0
    BY <1>4, EmptySeq
<1>7. ASSUME m # 0
      PROVE  DOMAIN kept = 1..k /\ k \in Nat /\ \A i \in 1..k : kept[i] = cells[i]
    <2>1. k \in 0..Len(data) /\ k \in Nat
        BY <1>4, <1>7
    <2>2. kept = SubSeq(data, 1, k)
        BY <1>4 DEF DropSentinel, Front
    <2>3. DOMAIN SubSeq(data, 1, k) = 1..k /\ \A i \in 1..k : SubSeq(data, 1, k)[i] = data[i]
        <3> HIDE DEF data, k
        <3> QED BY <1>4, <2>1, Start
    <2> HIDE DEF kept
    <2> QED BY <1>4, <2>1, <2>2, <2>3
<1> HIDE DEF cells, n, N, load, data, kept, k
<1>8. ASSUME NEW i \in 1..n
      PROVE  Len(cells[i]) = 2 /\ cells[i][1] = PtmLabelOf(w.rows[i]) /\ cells[i][2] = PtmAddress(w.rows[i])
    <2>1. cells[i] = <<PtmLabelOf(w.rows[i]), PtmAddress(w.rows[i])>>
        BY <1>2 DEF RowCells
    <2> QED BY <2>1
<1>9. ASSUME m # 0, columns PROVE k <= n
    <2>1. \A i \in 1..k : Len(cells[i]) > 1
        BY <1>7, <1>9 DEF HasColumn
    <2> SUFFICES ASSUME ~(k <= n) PROVE FALSE
        BY <1>1, <1>7, <1>9
    <2>2. k \in (n + 1)..N /\ k \in 1..k
        <3>1. n \in Nat /\ N \in Nat
            BY <1>1, <1>2
        <3>2. k \in Nat
            BY <1>7, <1>9
        <3>3. k <= N
            BY <1>3a, <3>1 DEF k
        <3> QED BY <3>1, <3>2, <3>3
    <2>3. Len(cells[k]) = 1 /\ Len(cells[k]) > 1
        BY <1>2, <2>1, <2>2
    <2> QED BY <2>3
<1>10. ASSUME m # 0, columns, AllFull(w) PROVE load.ended = "loaded" /\ load.map = AsWritten(rs)
    <2>0. k <= n /\ k \in Nat /\ n \in Nat /\ k \in 0..Len(w.rows)
        <3>1. k <= n /\ k \in Nat /\ n \in Nat
            BY <1>1, <1>7, <1>9, <1>10
        <3>2. k \in 0..n
            BY <3>1
        <3> QED BY <3>1, <3>2 DEF n
    <2>1. DOMAIN rs = 1..k /\ \A i \in 1..k : rs[i] = w.rows[i]
        <3>1. w.rows \in Seq(Row) /\ k \in 0..Len(w.rows)
            BY <1>1, <2>0
        <3> QED BY <3>1, Start
    <2> HIDE DEF rs
    <2>2. ASSUME NEW i \in 1..k
          PROVE  /\ Len(labs[i]) = 4 /\ labs[i][2] = rs[i].node /\ labs[i][4] = rs[i].platform
                 /\ AddressOf(kept[i][2]) = rs[i].ip
        <3> DEFINE r == w.rows[i]
        <3>0. i \in 1..n
            BY <2>0
        <3>1. r \in Row /\ r = rs[i]
            BY <1>1a, <2>1, <3>0
        <3>1a. r.full
            <4>1. \A j \in DOMAIN w.rows : w.rows[j].full
                BY <1>10 DEF AllFull
            <4> QED BY <1>1, <3>0, <4>1
        <3>2. "/" \notin ToSet(r.ip) /\ "%" \notin ToSet(r.node) \cup ToSet(r.platform)
            BY <1>1b, <3>0
        <3>3. kept[i][1] = PtmLabelOf(r) /\ kept[i][2] = PtmAddress(r) /\ i \in DOMAIN kept
            BY <1>7, <1>8, <1>10, <3>0
        <3> HIDE DEF r
        <3>4. r.node \in Text /\ r.platform \in Text
            BY <3>1 DEF Row
        <3>5. PtmLabelOf(r) = PtmLabel(r.node, r.platform)
            BY <3>1a DEF PtmLabelOf
        <3>6. labs[i] = LabelTokens(PtmLabel(r.node, r.platform))
            BY <3>3, <3>5
        <3>7. Len(labs[i]) = 4 /\ labs[i][2] = r.node /\ labs[i][4] = r.platform
            <4> DEFINE t == LabelTokens(PtmLabel(r.node, r.platform))
            <4>1. Len(t) = 4 /\ t[2] = r.node /\ t[4] = r.platform
                BY <3>2, <3>4, TokensOfLabel
            <4> HIDE DEF t, labs
            <4>2. labs[i] = t
                BY <3>6 DEF t
            <4> QED BY <4>1, <4>2
        <3>8. AddressOf(PtmAddress(r)) = r.ip
            BY <3>1, <3>2, AddressOfPtm
        <3> HIDE DEF labs
        <3> QED BY <3>1, <3>3, <3>7, <3>8
    <2>3. ips = [i \in 1..k |-> rs[i].ip]
        BY <1>7, <1>10, <2>2
    <2>4. pids = [i \in 1..k |-> rs[i].platform]
        <3>1. \A i \in 1..k : Last(labs[i]) = rs[i].platform
            <4> HIDE DEF labs
            <4> QED BY <2>2 DEF Last
        <3> HIDE DEF labs
        <3> QED BY <1>7, <1>10, <3>1
    <2>5. NodeNames(labs) = [i \in 1..k |-> rs[i].node]
        <3>1. DOMAIN labs = 1..k
            BY <1>7, <1>10
        <3> HIDE DEF labs
        <3>2. \A i \in 1..k : Len(labs[i]) >= 3 /\ labs[i][2] = rs[i].node
            BY <2>2
        <3>3. NodeNames(labs) = [i \in 1..k |-> labs[i][2]]
            BY <2>0, <3>1, <3>2, NodeNamesOf
        <3> QED BY <3>2, <3>3
    <2> HIDE DEF ips, pids, labs
    <2>6. FillMap(ips, NodeNames(labs), pids) = AsWritten(rs)
        BY <2>0, <2>1, <2>3, <2>4, <2>5, FillMapRows
    <2> QED BY <1>5, <1>6, <1>10, <2>6
<1> HIDE DEF columns
<1>11. load.ended \in {"loaded", "exited", "crashed"} /\ (load.ended = "loaded" => m # 0 /\ columns)
    BY <1>5, <1>6 DEF Exits, Crashes
<1>12. ASSUME WellFormed(w) PROVE load.ended = "loaded" /\ load.map = AsWritten(w.rows)
    <2>1. AllFull(w) /\ m = n + 1 /\ m # 0 /\ k = n
        <3>1. AllFull(w)
            BY <1>12 DEF WellFormed, AllFull
        <3>2. w.sentinel /\ ~w.blank
            BY <1>12, FileTypes DEF WellFormed
        <3>3. m = N /\ N = n + 1 /\ n \in Nat
            BY <1>1, <1>2, <1>3, <3>2
        <3> QED BY <3>1, <3>3 DEF k
    <2>2. columns
        <3>1. \A i \in DOMAIN kept : Len(kept[i]) = 2
            BY <1>7, <1>8, <2>1
        <3> QED BY <3>1 DEF HasColumn, columns
    <2>3. rs = w.rows
        <3>1. w.rows \in Seq(Row) /\ k = Len(w.rows)
            BY <1>1, <2>1 DEF n
        <3> QED BY <3>1, SubSeqFull
    <2> QED BY <1>10, <2>1, <2>2, <2>3
<1>13. LoadOf(w) = load
    BY DEF LoadOf, load
<1>14. ASSUME load.ended = "loaded", AllFull(w)
       PROVE  \E j \in 0..Len(w.rows) : load.map = AsWritten(SubSeq(w.rows, 1, j))
    <2>1. load.map = AsWritten(SubSeq(w.rows, 1, k))
        BY <1>10, <1>11, <1>14
    <2>2. k \in 0..Len(w.rows)
        <3>1. k <= n /\ k \in Nat /\ n \in Nat
            BY <1>1, <1>7, <1>9, <1>11, <1>14
        <3>2. k \in 0..n
            BY <3>1
        <3> QED BY <3>2 DEF n
    <2> QED BY <2>1, <2>2
<1> QED BY <1>11, <1>12, <1>13, <1>14 DEF LoadedWell

\* Both loaders do, for every file.
LEMMA Loaded ==
    ASSUME NEW w \in Files
    PROVE  LoadedWell(w)
BY FileTypes, CsvLoaded, PtmLoaded

-----------------------------------------------------------------------------
(* The peer.                                                               *)

\* A part of a sequence that holds the elements of another is that one.
LEMMA SubSeqIs ==
    ASSUME NEW S, NEW s \in Seq(S), NEW t \in Seq(S), NEW b \in Nat, b + Len(t) <= Len(s),
           \A i \in 1..Len(t) : s[b + i] = t[i]
    PROVE  SubSeq(s, b + 1, b + Len(t)) = t
<1> DEFINE n == Len(t)
           m == b + 1
           e == b + n
           v == SubSeq(s, m, e)
<1>1. n \in Nat /\ Len(s) \in Nat /\ \A i \in 1..Len(s) : s[i] \in S
    BY LenProperties
<1> HIDE DEF n
<1>2. m \in Int /\ e \in Int /\ \A i \in m..e : s[i] \in S
    <2>1. e <= Len(s)
        BY DEF n
    <2>2. \A i \in m..e : i \in 1..Len(s)
        BY <1>1, <2>1
    <2> QED BY <1>1, <2>2
<1>3. /\ v \in Seq(S) /\ Len(v) = (IF m <= e THEN (e - m) + 1 ELSE 0)
      /\ \A i \in 1..((e - m) + 1) : v[i] = s[(m + i) - 1]
    BY <1>2, SubSeqProperties
<1> HIDE DEF v
<1>4. Len(v) = n /\ (e - m) + 1 = n
    BY <1>1, <1>3
<1>5. \A i \in 1..n : v[i] = t[i]
    <2> SUFFICES ASSUME NEW i \in 1..n PROVE v[i] = t[i]
        OBVIOUS
    <2>1. (m + i) - 1 = b + i
        BY <1>1
    <2>2. i \in 1..((e - m) + 1)
        BY <1>4
    <2>3. v[i] = s[b + i]
        BY <1>3, <2>1, <2>2
    <2> QED BY <2>3 DEF n
<1>6. v = t
    BY <1>3, <1>4, <1>5, SeqEqual DEF n
<1> QED BY <1>6 DEF v, n

\* Four sequences one behind the other.
HasParts(s, a, x, c, d) ==
    /\ Len(s) = Len(a) + Len(x) + Len(c) + Len(d)
    /\ \A i \in 1..Len(a) : s[i] = a[i]
    /\ \A i \in 1..Len(x) : s[Len(a) + i] = x[i]
    /\ \A i \in 1..Len(c) : s[Len(a) + Len(x) + i] = c[i]
    /\ \A i \in 1..Len(d) : s[Len(a) + Len(x) + Len(c) + i] = d[i]

\* Its elements are those of the four.
LEMMA FourParts ==
    ASSUME NEW S, NEW a \in Seq(S), NEW x \in Seq(S), NEW c \in Seq(S), NEW d \in Seq(S)
    PROVE  /\ Joined(Joined(Joined(a, x), c), d) \in Seq(S)
           /\ HasParts(Joined(Joined(Joined(a, x), c), d), a, x, c, d)
<1> DEFINE A == Len(a)
           X == Len(x)
           C == Len(c)
           D == Len(d)
           u == Joined(a, x)
           v == Joined(u, c)
           s == Joined(v, d)
<1>1. A \in Nat /\ X \in Nat /\ C \in Nat /\ D \in Nat
    BY LenProperties
<1>2. u \in Seq(S) /\ Len(u) = A + X /\ \A i \in 1..(A + X) : u[i] = IF i <= A THEN a[i] ELSE x[i - A]
    BY ConcatProperties DEF Joined
<1> HIDE DEF u
<1>3. /\ v \in Seq(S) /\ Len(v) = Len(u) + C
      /\ \A i \in 1..(Len(u) + C) : v[i] = IF i <= Len(u) THEN u[i] ELSE c[i - Len(u)]
    <2>1. u \in Seq(S) /\ c \in Seq(S)
        BY <1>2
    <2> QED BY <2>1, ConcatProperties DEF Joined
<1> HIDE DEF v
<1>4. /\ s \in Seq(S) /\ Len(s) = Len(v) + D
      /\ \A i \in 1..(Len(v) + D) : s[i] = IF i <= Len(v) THEN v[i] ELSE d[i - Len(v)]
    <2>1. v \in Seq(S) /\ d \in Seq(S)
        BY <1>3
    <2> QED BY <2>1, ConcatProperties DEF Joined
<1> HIDE DEF s, A, X, C, D
<1>5. Len(v) = A + X + C /\ Len(s) = A + X + C + D
    BY <1>1, <1>2, <1>3, <1>4
<1>6. \A i \in 1..A : s[i] = a[i]
    <2> SUFFICES ASSUME NEW i \in 1..A PROVE s[i] = a[i]
        OBVIOUS
    <2>1. i \in 1..(A + X) /\ i \in 1..(A + X + C) /\ i \in 1..(A + X + C + D) /\ i <= A /\ i <= A + X /\ i <= A + X + C
        BY <1>1
    <2> QED BY <1>2, <1>3, <1>4, <1>5, <2>1
<1>7. \A i \in 1..X : s[A + i] = x[i]
    <2> SUFFICES ASSUME NEW i \in 1..X PROVE s[A + i] = x[i]
        OBVIOUS
    <2> DEFINE j == A + i
    <2>1. /\ j \in 1..(A + X) /\ j \in 1..(A + X + C) /\ j \in 1..(A + X + C + D)
          /\ ~(j <= A) /\ j - A = i /\ j <= A + X /\ j <= A + X + C
        BY <1>1
    <2> HIDE DEF j
    <2>2. s[j] = x[i]
        BY <1>2, <1>3, <1>4, <1>5, <2>1
    <2> QED BY <2>2 DEF j
<1>8. \A i \in 1..C : s[A + X + i] = c[i]
    <2> SUFFICES ASSUME NEW i \in 1..C PROVE s[A + X + i] = c[i]
        OBVIOUS
    <2> DEFINE j == A + X + i
    <2>1. /\ j \in 1..(A + X + C) /\ j \in 1..(A + X + C + D)
          /\ ~(j <= A + X) /\ j - (A + X) = i /\ j <= A + X + C
        BY <1>1
    <2> HIDE DEF j
    <2>2. s[j] = c[i]
        BY <1>2, <1>3, <1>4, <1>5, <2>1
    <2> QED BY <2>2 DEF j
<1>9. \A i \in 1..D : s[A + X + C + i] = d[i]
    <2> SUFFICES ASSUME NEW i \in 1..D PROVE s[A + X + C + i] = d[i]
        OBVIOUS
    <2> DEFINE j == A + X + C + i
    <2>1. j \in 1..(A + X + C + D) /\ ~(j <= A + X + C) /\ j - (A + X + C) = i
        BY <1>1
    <2> HIDE DEF j
    <2>2. s[j] = d[i]
        BY <1>4, <1>5, <2>1
    <2> QED BY <2>2 DEF j
<1>10. HasParts(s, a, x, c, d)
    BY <1>5, <1>6, <1>7, <1>8, <1>9 DEF HasParts, A, X, C, D
<1> QED BY <1>4, <1>10 DEF s, v, u

First(s, x)  == SelectInSeq(s, LAMBDA c : c = x)

\* The first and the last place of a symbol.
LEMMA FirstIs ==
    ASSUME NEW S, NEW s \in Seq(S), NEW x, NEW n \in 1..Len(s), s[n] = x, \A i \in 1..(n - 1) : s[i] # x
    PROVE  First(s, x) = n
<1> DEFINE I == {i \in 1..Len(s) : s[i] = x}
<1>1. First(s, x) = IF I # {} THEN Min(I) ELSE 0
    BY DEF First, SelectInSeq
<1>2. n \in I /\ \A i \in I : n <= i /\ i \in Nat
    <2>1. Len(s) \in Nat
        BY LenProperties
    <2>2. \A i \in 1..Len(s) : i < n => i \in 1..(n - 1)
        BY <2>1
    <2> QED BY <2>1, <2>2
<1> HIDE DEF I
<1>3. Min(I) = n
    <2>1. n \in Int
        BY <1>2
    <2>2. \A i \in I : (\A j \in I : i <= j) => i = n
        BY <1>2, <2>1
    <2> QED BY <1>2, <2>2 DEF Min
<1> QED BY <1>1, <1>2, <1>3

\* The last place of a colon is where ParsePeer() ends the address.
LEMMA PortSeparatorIs ==
    ASSUME NEW S, NEW s \in Seq(S), NEW n \in 1..Len(s), s[n] = ":", \A i \in (n + 1)..Len(s) : s[i] # ":"
    PROVE  PortSeparator(s) = n
<1> DEFINE I == {i \in 1..Len(s) : s[i] = ":"}
<1>1. PortSeparator(s) = IF I # {} THEN Max(I) ELSE 0
    BY DEF PortSeparator, SelectLastInSeq
<1>2. n \in I /\ \A i \in I : n >= i /\ i \in Nat
    <2>1. Len(s) \in Nat
        BY LenProperties
    <2>2. \A i \in 1..Len(s) : ~(n >= i) => i \in (n + 1)..Len(s)
        BY <2>1
    <2> QED BY <2>1, <2>2
<1> HIDE DEF I
<1>3. Max(I) = n
    <2>1. n \in Int
        BY <1>2
    <2>2. \A i \in I : (\A j \in I : i >= j) => i = n
        BY <1>2, <2>1
    <2> QED BY <1>2, <2>2 DEF Max
<1> QED BY <1>1, <1>2, <1>3

\* What ParsePeer() finds behind "ipv4:" or "ipv6:".
EndpointOf(address) ==
    IF Head(address) = "["
    THEN IF /\ First(address, "]") # 0 /\ First(address, "]") < Len(address)
            /\ address[First(address, "]") + 1] = ":"
         THEN [ip   |-> SubSeq(address, 2, First(address, "]") - 1),
               port |-> SubSeq(address, First(address, "]") + 2, Len(address))]
         ELSE NoEndpoint
    ELSE IF PortSeparator(address) = 0 THEN NoEndpoint
         ELSE [ip   |-> SubSeq(address, 1, PortSeparator(address) - 1),
               port |-> SubSeq(address, PortSeparator(address) + 1, Len(address))]

\* Behind the first colon is the address with the port.
LEMMA ParsePeerOf ==
    ASSUME NEW S, NEW s \in Seq(S), NEW a \in Seq(S), Len(s) >= 2, s[1] # ":", s[2] = ":",
           SubSeq(s, 3, Len(s)) = a, a # <<>>
    PROVE  ParsePeer(s) = EndpointOf(a)
<1>1. First(s, ":") = 2
    <2>1. 2 \in 1..Len(s) /\ \A i \in 1..(2 - 1) : s[i] # ":"
        BY LenProperties
    <2> QED BY <2>1, FirstIs
<1> DEFINE family == First(s, ":")
           address == SubSeq(s, family + 1, Len(s))
           bracket == First(address, "]")
           port_sep == PortSeparator(address)
<1>2. ParsePeer(s) =
        CASE family = 0 \/ address = <<>> -> NoEndpoint
          [] family # 0 /\ address # <<>> /\ Head(address) = "[" ->
                IF bracket # 0 /\ bracket < Len(address) /\ address[bracket + 1] = ":"
                THEN [ip   |-> SubSeq(address, 2, bracket - 1),
                      port |-> SubSeq(address, bracket + 2, Len(address))]
                ELSE NoEndpoint
          [] OTHER ->
                IF port_sep = 0 THEN NoEndpoint
                ELSE [ip   |-> SubSeq(address, 1, port_sep - 1),
                      port |-> SubSeq(address, port_sep + 1, Len(address))]
    BY DEF ParsePeer, First
<1>3. family = 2 /\ address = a
    BY <1>1
<1> HIDE DEF family, address
<1> QED BY <1>2, <1>3 DEF EndpointOf

\* The symbols of a peer's name.
PeerSymbols == Characters \cup {"ipv4", "ipv6", ":", "[", "]", "%5B", "%5D"}

\* What gRPC puts in front of an address and behind it.
LEMMA PeerPieces ==
    /\ <<"ipv4", ":">> \in Seq(PeerSymbols) /\ <<":">> \in Seq(PeerSymbols)
    /\ <<"ipv6", ":", "[">> \in Seq(PeerSymbols) /\ <<"]", ":">> \in Seq(PeerSymbols)
    /\ <<"ipv6", ":", "%5B">> \in Seq(PeerSymbols) /\ <<"%5D", ":">> \in Seq(PeerSymbols)
<1> DEFINE T == {"ipv4", "ipv6", ":", "[", "]", "%5B", "%5D"}
<1>1. /\ <<"ipv4", ":">> \in Seq(T) /\ <<":">> \in Seq(T)
      /\ <<"ipv6", ":", "[">> \in Seq(T) /\ <<"]", ":">> \in Seq(T)
      /\ <<"ipv6", ":", "%5B">> \in Seq(T) /\ <<"%5D", ":">> \in Seq(T)
    OBVIOUS
<1>2. T \subseteq PeerSymbols
    BY DEF PeerSymbols
<1> HIDE DEF T
<1>3. \A s \in Seq(T) : s \in Seq(PeerSymbols)
    BY <1>2, SeqMonotonic
<1> QED BY <1>1, <1>3, Zenon

\* A family, an address and a port, with what gRPC puts in front of the address
\* and behind it: the port is found behind the last colon, or, when the address
\* is in brackets, behind the first closing one.
LEMMA EndpointParsed ==
    ASSUME NEW front \in Seq(PeerSymbols), NEW x \in Text, NEW mid \in Seq(PeerSymbols), NEW port \in Text,
           Len(front) \in {2, 3}, front[1] # ":", front[2] = ":",
           Len(front) = 2 => mid = <<":">> /\ (x # <<>> => x[1] # "["),
           Len(front) = 3 => \/ front[3] = "[" /\ mid = <<"]", ":">> /\ "]" \notin ToSet(x)
                             \/ front[3] = "%5B" /\ mid = <<"%5D", ":">>,
           port # <<>>, ":" \notin ToSet(port)
    PROVE  LET peer == ParsePeer(Joined(Joined(Joined(front, x), mid), port))
           IN  peer.port = port /\ (Len(front) = 2 \/ front[3] = "[" => peer.ip = x)
<1> DEFINE S == PeerSymbols
           s == Joined(Joined(Joined(front, x), mid), port)
           F == Len(front)
           n == Len(x)
           G == Len(mid)
           q == Len(port)
           L == F + n + G + q
           a == SubSeq(s, 3, Len(s))
           E == (F - 2) + n + G
<1>1. x \in Seq(S) /\ port \in Seq(S)
    <2>1. Characters \subseteq S
        BY DEF PeerSymbols
    <2> HIDE DEF S
    <2> QED BY <2>1, SeqMonotonic DEF Text
<1>2. /\ n \in Nat /\ q \in Nat /\ q >= 1 /\ F \in {2, 3} /\ G = F - 1 /\ mid[G] = ":"
      /\ \A i \in 1..q : port[i] # ":"
    <2>1. n \in Nat /\ q \in Nat
        BY <1>1, LenProperties
    <2>2. q >= 1
        BY <1>1, <2>1, EmptySeq
    <2>3. \A i \in 1..q : port[i] # ":"
        BY <1>1, LenProperties DEF ToSet
    <2>4. G = F - 1 /\ mid[G] = ":"
        <3>1. CASE F = 2
            <4>1. mid = <<":">>
                BY <3>1
            <4> QED BY <3>1, <4>1
        <3>2. CASE F = 3
            <4>1. mid = <<"]", ":">> \/ mid = <<"%5D", ":">>
                BY <3>2
            <4>2. Len(mid) = 2 /\ mid[2] = ":"
                BY <4>1
            <4> QED BY <3>2, <4>2
        <3> QED BY <3>1, <3>2
    <2> QED BY <2>1, <2>2, <2>3, <2>4
<1>3. /\ s \in Seq(S) /\ Len(s) = L
      /\ \A i \in 1..F : s[i] = front[i]
      /\ \A i \in 1..n : s[F + i] = x[i]
      /\ \A i \in 1..G : s[F + n + i] = mid[i]
      /\ \A i \in 1..q : s[F + n + G + i] = port[i]
    <2>1. front \in Seq(S) /\ x \in Seq(S) /\ mid \in Seq(S) /\ port \in Seq(S)
        BY <1>1
    <2> HIDE DEF S
    <2>2. s \in Seq(S) /\ HasParts(s, front, x, mid, port)
        BY <2>1, FourParts
    <2> HIDE DEF s
    <2> QED BY <2>2 DEF HasParts
<1> HIDE DEF S, s, F, n, G, q
<1>4. /\ a \in Seq(S) /\ Len(a) = E + q /\ E \in Nat /\ E >= 1
      /\ \A i \in 1..(E + q) : a[i] = s[i + 2]
    <2>1. 3 \in Int /\ Len(s) \in Int /\ L \in Nat /\ 3 <= L
        BY <1>2, <1>3
    <2>2. \A i \in 3..Len(s) : s[i] \in S
        BY <1>3, <2>1, LenProperties
    <2> HIDE DEF L
    <2>3. /\ a \in Seq(S) /\ Len(a) = (IF 3 <= Len(s) THEN (Len(s) - 3) + 1 ELSE 0)
          /\ \A i \in 1..((Len(s) - 3) + 1) : a[i] = s[(3 + i) - 1]
        BY <2>1, <2>2, SubSeqProperties
    <2> HIDE DEF a
    <2>4. (Len(s) - 3) + 1 = E + q /\ E \in Nat /\ E >= 1 /\ \A i \in 1..(E + q) : (3 + i) - 1 = i + 2
        BY <1>2, <1>3 DEF L
    <2> QED BY <1>3, <2>1, <2>3, <2>4
<1>5. ParsePeer(s) = EndpointOf(a)
    <2>1. Len(s) >= 2 /\ s[1] # ":" /\ s[2] = ":"
        <3>1. 1 \in 1..F /\ 2 \in 1..F
            BY <1>2
        <3> QED BY <1>2, <1>3, <3>1 DEF F
    <2>2. a # <<>>
        <3>1. Len(a) # 0
            BY <1>2, <1>4
        <3> HIDE DEF a
        <3> QED BY <3>1
    <2> HIDE DEF a
    <2> QED BY <1>3, <1>4, <2>1, <2>2, ParsePeerOf DEF a
<1> HIDE DEF a
<1>6. \A i \in 1..n : a[(F - 2) + i] = x[i]
    <2> SUFFICES ASSUME NEW i \in 1..n PROVE a[(F - 2) + i] = x[i]
        OBVIOUS
    <2> DEFINE j == (F - 2) + i
    <2>1. j \in 1..(E + q) /\ j + 2 = F + i
        BY <1>2
    <2> HIDE DEF j, E
    <2>2. a[j] = x[i]
        BY <1>3, <1>4, <2>1, SMTT(40)
    <2> QED BY <2>2 DEF j
<1>7. \A i \in 1..G : a[(F - 2) + n + i] = mid[i]
    <2> SUFFICES ASSUME NEW i \in 1..G PROVE a[(F - 2) + n + i] = mid[i]
        OBVIOUS
    <2> DEFINE j == (F - 2) + n + i
    <2>1. j \in 1..(E + q) /\ j + 2 = F + n + i
        BY <1>2
    <2> HIDE DEF j, E
    <2>2. a[j] = s[F + n + i]
        BY <1>4, <2>1
    <2>3. s[F + n + i] = mid[i]
        BY <1>3
    <2> QED BY <2>2, <2>3 DEF j
<1>8. \A i \in 1..q : a[E + i] = port[i]
    <2> SUFFICES ASSUME NEW i \in 1..q PROVE a[E + i] = port[i]
        OBVIOUS
    <2> DEFINE j == E + i
    <2>1. j \in 1..(E + q) /\ j + 2 = F + n + G + i
        BY <1>2
    <2> HIDE DEF j, E
    <2>2. a[j] = port[i]
        BY <1>3, <1>4, <2>1
    <2> QED BY <2>2 DEF j
<1>9. SubSeq(a, E + 1, Len(a)) = port
    <2>1. E \in Nat /\ E + Len(port) <= Len(a) /\ \A i \in 1..Len(port) : a[E + i] = port[i]
        BY <1>2, <1>4, <1>8 DEF q
    <2> HIDE DEF E
    <2>2. SubSeq(a, E + 1, E + Len(port)) = port
        BY <1>1, <1>4, <2>1, SubSeqIs
    <2> QED BY <1>4, <2>2 DEF q
<1>10. SubSeq(a, (F - 2) + 1, (F - 2) + Len(x)) = x
    <2> DEFINE b == F - 2
    <2>1. b \in Nat /\ b + n <= E + q
        BY <1>2
    <2>2. \A i \in 1..n : a[b + i] = x[i]
        BY <1>6
    <2> HIDE DEF b, E
    <2>3. SubSeq(a, b + 1, b + Len(x)) = x
        BY <1>1, <1>4, <2>1, <2>2, SubSeqIs DEF n
    <2> QED BY <2>3 DEF b
<1>11. E \in 1..Len(a) /\ a[E] = ":"
    <2>1. G \in 1..G /\ (F - 2) + n + G = E
        BY <1>2
    <2> QED BY <1>2, <1>4, <1>7, <2>1
<1>12. CASE Len(front) = 2 \/ front[3] = "%5B"
    <2>1. Head(a) # "["
        <3>1. a[1] # "["
            <4>1. CASE F = 2 /\ n = 0
                <5>1. E = 1
                    BY <1>2, <4>1
                <5> QED BY <1>11, <5>1
            <4>2. CASE F = 2 /\ n # 0
                <5>1. 1 \in 1..n /\ (F - 2) + 1 = 1
                    BY <1>2, <4>2
                <5>2. x # <<>>
                    BY <4>2 DEF n
                <5> QED BY <1>6, <4>2, <5>1, <5>2 DEF F
            <4>3. CASE F = 3
                <5>1. 1 \in 1..(E + q) /\ 3 \in 1..F /\ 1 + 2 = 3
                    BY <1>2, <1>4, <4>3
                <5>2. a[1] = s[3]
                    <6> HIDE DEF E
                    <6> QED BY <1>4, <5>1
                <5>3. s[3] = front[3]
                    BY <1>3, <5>1
                <5> QED BY <1>12, <4>3, <5>2, <5>3 DEF F
            <4> QED BY <1>2, <4>1, <4>2, <4>3
        <3> QED BY <1>2, <1>4, <3>1
    <2>2. PortSeparator(a) = E
        <3>1. \A i \in (E + 1)..Len(a) : a[i] # ":"
            <4> SUFFICES ASSUME NEW i \in (E + 1)..Len(a) PROVE a[i] # ":"
                OBVIOUS
            <4>1. i - E \in 1..q /\ E + (i - E) = i
                BY <1>2, <1>4
            <4> HIDE DEF E
            <4> QED BY <1>2, <1>8, <4>1
        <3> HIDE DEF E
        <3> QED BY <1>4, <1>11, <3>1, PortSeparatorIs
    <2>3. ParsePeer(s) = [ip |-> SubSeq(a, 1, E - 1), port |-> SubSeq(a, E + 1, Len(a))]
        <3>1. E # 0
            BY <1>4
        <3> HIDE DEF E
        <3> QED BY <1>5, <2>1, <2>2, <3>1 DEF EndpointOf
    <2>4. Len(front) = 2 => SubSeq(a, 1, E - 1) = x
        <3> SUFFICES ASSUME F = 2 PROVE SubSeq(a, 1, E - 1) = x
            BY DEF F
        <3>1. (F - 2) + 1 = 1 /\ (F - 2) + Len(x) = E - 1
            BY <1>2 DEF n
        <3> QED BY <1>10, <3>1
    <2>5. Len(front) = 2 \/ front[3] # "["
        BY <1>12
    <2>6. ParsePeer(s).port = port /\ (Len(front) = 2 => ParsePeer(s).ip = x)
        BY <1>9, <2>3, <2>4
    <2> QED BY <2>6, <1>2, <1>12 DEF s, F
<1>13. CASE Len(front) = 3 /\ front[3] = "["
    <2>1. mid = <<"]", ":">> /\ "]" \notin ToSet(x) /\ F = 3 /\ G = 2
        BY <1>2, <1>13 DEF F
    <2>2. \A i \in 1..n : x[i] # "]"
        BY <1>1, <2>1, LenProperties DEF ToSet, n
    <2>3. a[1] = "["
        <3>1. 1 \in 1..(E + q) /\ 3 \in 1..F /\ 1 + 2 = 3
            BY <1>2, <1>4, <2>1
        <3>2. a[1] = s[3]
            <4> HIDE DEF E
            <4> QED BY <1>4, <3>1
        <3> QED BY <1>3, <1>13, <3>1, <3>2
    <2> DEFINE b == n + 2
    <2>4. b \in 1..Len(a) /\ b = E - 1 /\ a[b] = "]" /\ \A i \in 1..(b - 1) : a[i] # "]"
        <3>1. b \in 1..Len(a) /\ b = E - 1
            BY <1>2, <1>4, <2>1
        <3>2. a[b] = "]"
            <4>1. 1 \in 1..G /\ (F - 2) + n + 1 = b
                BY <1>2, <2>1
            <4>2. a[(F - 2) + n + 1] = mid[1]
                BY <1>7, <4>1
            <4> QED BY <2>1, <4>1, <4>2
        <3>3. ASSUME NEW i \in 1..(b - 1) PROVE a[i] # "]"
            <4>1. CASE i = 1
                BY <2>3, <4>1
            <4>2. CASE i # 1
                <5>1. i - 1 \in 1..n /\ (F - 2) + (i - 1) = i
                    BY <1>2, <2>1, <4>2
                <5> QED BY <1>6, <2>2, <5>1
            <4> QED BY <4>1, <4>2
        <3> QED BY <3>1, <3>2, <3>3
    <2> HIDE DEF b
    <2>5. First(a, "]") = b
        BY <1>4, <2>4, FirstIs
    <2>6. ParsePeer(s) = [ip |-> SubSeq(a, 2, b - 1), port |-> SubSeq(a, b + 2, Len(a))]
        <3>1. b # 0 /\ b < Len(a) /\ b + 1 = E
            BY <1>2, <1>4, <2>4
        <3>2. Head(a) = "["
            BY <1>4, <2>3
        <3> HIDE DEF E
        <3> QED BY <1>5, <1>11, <2>5, <3>1, <3>2 DEF EndpointOf
    <2>7. b + 2 = E + 1 /\ (F - 2) + 1 = 2 /\ (F - 2) + Len(x) = b - 1
        BY <1>2, <2>1, <2>4 DEF n, b
    <2>8. ParsePeer(s).port = port /\ ParsePeer(s).ip = x
        BY <1>9, <1>10, <2>6, <2>7, SMTT(40)
    <2> QED BY <2>8 DEF s
<1> QED BY <1>12, <1>13

\* The address and the port of a TCP peer are recovered; of an IPv6 peer whose
\* brackets are encoded the port is.
LEMMA PeerParsed ==
    ASSUME NEW w \in Files, NEW in \in Inputs(w), in.peer.family # "unix"
    PROVE  /\ PortConverts(ParsePeer(PeerString(in.peer)).port, PortNumbers)
           /\ ParsePeer(PeerString(in.peer)).port = in.peer.port
           /\ in.peer.family \in {"ipv4", "ipv6"} => ParsePeer(PeerString(in.peer)).ip = in.peer.address
<1> DEFINE p == in.peer
           x == p.address
           port == p.port
<1>1. /\ p.family \in {"ipv4", "ipv6", "ipv6_enc"} /\ x \in Text /\ port \in Text
      /\ p.family = "ipv4" /\ x # <<>> => Head(x) # "["
      /\ p.family = "ipv6" => "]" \notin ToSet(x)
      /\ PortConverts(port, PortNumbers) /\ ":" \notin ToSet(port)
    BY InputsAssumption
<1> HIDE DEF p, x, port
<1>2. port # <<>>
    BY <1>1 DEF PortConverts
<1>3. CASE p.family = "ipv4"
    <2> DEFINE front == <<"ipv4", ":">>
               mid == <<":">>
    <2>1. PeerString(p) = Joined(Joined(Joined(front, x), mid), port)
        BY <1>3 DEF PeerString, Joined, x, port
    <2>2. front \in Seq(PeerSymbols) /\ mid \in Seq(PeerSymbols)
        BY PeerPieces, Zenon
    <2>3. Len(front) = 2 /\ front[1] # ":" /\ front[2] = ":" /\ mid = <<":">>
        OBVIOUS
    <2>4. x # <<>> => x[1] # "["
        BY <1>1, <1>3 DEF Text
    <2> HIDE DEF front, mid
    <2> DEFINE peer == ParsePeer(Joined(Joined(Joined(front, x), mid), port))
    <2>5. peer.port = port /\ peer.ip = x
        BY <1>1, <1>2, <2>2, <2>3, <2>4, EndpointParsed
    <2> HIDE DEF peer
    <2>6. ParsePeer(PeerString(p)) = peer
        BY <2>1 DEF peer
    <2> QED BY <1>1, <2>5, <2>6 DEF p, x, port
<1>4. CASE p.family = "ipv6"
    <2> DEFINE front == <<"ipv6", ":", "[">>
               mid == <<"]", ":">>
    <2>1. PeerString(p) = Joined(Joined(Joined(front, x), mid), port)
        BY <1>4 DEF PeerString, Joined, x, port
    <2>2. front \in Seq(PeerSymbols) /\ mid \in Seq(PeerSymbols)
        BY PeerPieces, Zenon
    <2>3. Len(front) = 3 /\ front[1] # ":" /\ front[2] = ":" /\ front[3] = "[" /\ mid = <<"]", ":">>
        OBVIOUS
    <2>4. "]" \notin ToSet(x)
        BY <1>1, <1>4
    <2> HIDE DEF front, mid
    <2> DEFINE peer == ParsePeer(Joined(Joined(Joined(front, x), mid), port))
    <2>5. peer.port = port /\ peer.ip = x
        BY <1>1, <1>2, <2>2, <2>3, <2>4, EndpointParsed
    <2> HIDE DEF peer
    <2>6. ParsePeer(PeerString(p)) = peer
        BY <2>1 DEF peer
    <2> QED BY <1>1, <2>5, <2>6 DEF p, x, port
<1>5. CASE p.family = "ipv6_enc"
    <2> DEFINE front == <<"ipv6", ":", "%5B">>
               mid == <<"%5D", ":">>
    <2>1. PeerString(p) = Joined(Joined(Joined(front, x), mid), port)
        BY <1>5 DEF PeerString, Joined, x, port
    <2>2. front \in Seq(PeerSymbols) /\ mid \in Seq(PeerSymbols)
        BY PeerPieces, Zenon
    <2>3. Len(front) = 3 /\ front[1] # ":" /\ front[2] = ":" /\ front[3] = "%5B" /\ mid = <<"%5D", ":">>
        OBVIOUS
    <2> HIDE DEF front, mid
    <2> DEFINE peer == ParsePeer(Joined(Joined(Joined(front, x), mid), port))
    <2>5. peer.port = port
        BY <1>1, <1>2, <2>2, <2>3, EndpointParsed
    <2> HIDE DEF peer
    <2>6. ParsePeer(PeerString(p)) = peer
        BY <2>1 DEF peer
    <2>7. p.family \notin {"ipv4", "ipv6"}
        BY <1>5
    <2> QED BY <1>1, <2>5, <2>6, <2>7 DEF p, x, port
<1> QED BY <1>1, <1>3, <1>4, <1>5

-----------------------------------------------------------------------------
(* The inductive invariant: label_map is what the loader made of the file,   *)
(* the process ended as the loader did or with a message, and the record is *)
(* the one of the last message under these labels.                          *)

Record ==
    LET peer == ParsePeer(PeerString(input.peer))
        body == BodyOf(input.message)
    IN  IF method = "Zmq" THEN BuildDataWrapper(body, peer, seq)
        ELSE BuildEnvelope(body, peer, labels, TRUE, seq)

\* What the code throws at the last message.
Throws ==
    \/ input.message.kind = "juniper" /\ JuniperThrows(input.message)
    \/ method = "Kafka" /\ EnvelopeThrows(BodyOf(input.message), ParsePeer(PeerString(input.peer)), PortNumbers)

LoadedInv ==
    IF loaded = NoFile THEN pc = "start" /\ input = NoInput
    ELSE /\ loaded \in Files
         /\ labels = LoadOf(loaded).map
         /\ pc \in {"serving", "exited", "crashed"}
         /\ pc = "serving" => LoadOf(loaded).ended = "loaded"
         /\ pc = "exited" => LoadOf(loaded).ended = "exited"
         /\ pc = "crashed" => \/ LoadOf(loaded).ended = "crashed"
                              \/ \E ip \in DOMAIN labels : labels[ip][1] = Garbage
                              \/ input # NoInput

RecordInv ==
    input # NoInput =>
        /\ loaded # NoFile /\ input \in Inputs(loaded)
        /\ pc = "crashed" => Throws
        /\ payload # NoPayload => payload = Record

IInv ==
    /\ file \in Files
    /\ method \in {"Kafka", "Zmq"}
    /\ loaded # file => input = NoInput
    /\ LoadedInv
    /\ RecordInv

\* A file is not the mark for none.
LEMMA FilesAreFiles ==
    ASSUME NEW w \in Files
    PROVE  w # NoFile
<1>1. w.style # "none"
    BY FileTypes
<1> QED BY <1>1 DEF NoFile

\* The initial states satisfy the invariant.
LEMMA InvInit == Init => IInv
<1> SUFFICES ASSUME Init PROVE IInv
    OBVIOUS
<1> QED BY DEF Init, IInv, LoadedInv, RecordInv

\* A rewritten file leaves label_map as it is and makes the last record void.
LEMMA RewriteFileInv == IInv /\ RewriteFile => IInv'
<1> SUFFICES ASSUME IInv, RewriteFile PROVE IInv'
    OBVIOUS
<1>1. /\ file' \in Files /\ input' = NoInput /\ pc = "serving" /\ loaded = file
      /\ method' = method /\ labels' = labels /\ loaded' = loaded /\ pc' = pc
    BY FilesAssumption DEF RewriteFile
<1>2. LoadedInv'
    BY <1>1 DEF IInv, LoadedInv
<1>3. RecordInv'
    BY <1>1 DEF RecordInv
<1> QED BY <1>1, <1>2, <1>3 DEF IInv

\* Loading sets label_map to what the loader makes of the file.
LEMMA LoadLabelsInv == IInv /\ LoadLabels => IInv'
<1> SUFFICES ASSUME IInv, LoadLabels PROVE IInv'
    OBVIOUS
<1> DEFINE r == LoadOf(file)
<1>1. /\ loaded # file /\ file' = file /\ method' = method /\ input' = input /\ loaded' = file
      /\ labels' = r.map
      /\ \/ pc' = IF r.ended = "loaded" THEN "serving" ELSE r.ended
         \/ (\E ip \in DOMAIN r.map : r.map[ip][1] = Garbage) /\ pc' = "crashed"
    BY DEF LoadLabels, LoadOf
<1>2. file \in Files /\ method \in {"Kafka", "Zmq"} /\ input = NoInput /\ file # NoFile
    BY <1>1, FilesAreFiles DEF IInv
<1>3. r.ended \in {"loaded", "exited", "crashed"}
    BY <1>2, Loaded DEF LoadedWell
<1>4. LoadedInv'
    <2>1. loaded' # NoFile /\ loaded' \in Files /\ labels' = LoadOf(loaded').map
        BY <1>1, <1>2
    <2>2. LoadOf(loaded').ended = r.ended
        BY <1>1
    <2> HIDE DEF r
    <2>3. CASE pc' = IF r.ended = "loaded" THEN "serving" ELSE r.ended
        BY <1>3, <2>1, <2>2, <2>3 DEF LoadedInv
    <2>4. CASE (\E ip \in DOMAIN r.map : r.map[ip][1] = Garbage) /\ pc' = "crashed"
        <3>1. \E ip \in DOMAIN labels' : labels'[ip][1] = Garbage
            BY <1>1, <2>4
        <3> QED BY <2>1, <2>4, <3>1 DEF LoadedInv
    <2> QED BY <1>1, <2>3, <2>4
<1>5. RecordInv'
    BY <1>1, <1>2 DEF RecordInv
<1> QED BY <1>1, <1>2, <1>4, <1>5 DEF IInv

\* A message is delivered under the labels of the file, or throws.
LEMMA HandleMessageInv == IInv /\ HandleMessage => IInv'
<1> SUFFICES ASSUME IInv, HandleMessage PROVE IInv'
    OBVIOUS
<1>1. /\ pc = "serving" /\ loaded = file /\ seq' = seq + 1
      /\ file' = file /\ method' = method /\ labels' = labels /\ loaded' = loaded
    BY DEF HandleMessage
<1>2. file \in Files /\ method \in {"Kafka", "Zmq"} /\ file # NoFile /\ LoadedInv
    BY FilesAreFiles DEF IInv
<1>3. /\ input' \in Inputs(file)
      /\ pc' = IF Throws' THEN "crashed" ELSE pc
      /\ payload' = IF Throws' THEN NoPayload ELSE Record'
    BY <1>1 DEF HandleMessage, Throws, Record
<1>4. input' # NoInput
    <2>1. input' = [peer |-> input'.peer, message |-> input'.message]
        BY <1>2, <1>3, InputsAssumption
    <2> QED BY <2>1 DEF NoInput
<1>5. LoadedInv'
    <2>1. loaded' # NoFile /\ loaded' \in Files /\ loaded' = loaded /\ labels' = labels
        BY <1>1, <1>2
    <2>2. labels = LoadOf(loaded).map /\ LoadOf(loaded).ended = "loaded"
        BY <1>1, <1>2 DEF LoadedInv
    <2>3. labels' = LoadOf(loaded').map /\ LoadOf(loaded').ended = "loaded"
        BY <2>1, <2>2
    <2>4. pc' \in {"serving", "crashed"}
        BY <1>1, <1>3
    <2> QED BY <1>4, <2>1, <2>3, <2>4 DEF LoadedInv
<1>6. RecordInv'
    <2>1. loaded' # NoFile /\ input' \in Inputs(loaded')
        BY <1>1, <1>2, <1>3
    <2>2. pc' = "crashed" => Throws'
        BY <1>1, <1>3
    <2>3. payload' # NoPayload => payload' = Record'
        BY <1>3
    <2> QED BY <2>1, <2>2, <2>3 DEF RecordInv
<1> QED BY <1>1, <1>2, <1>4, <1>5, <1>6 DEF IInv

\* Every step preserves the invariant.
LEMMA InvNext == IInv /\ [Next]_vars => IInv'
<1> SUFFICES ASSUME IInv, [Next]_vars PROVE IInv'
    OBVIOUS
<1>1. CASE RewriteFile
    BY <1>1, RewriteFileInv
<1>2. CASE LoadLabels
    BY <1>2, LoadLabelsInv
<1>3. CASE HandleMessage
    BY <1>3, HandleMessageInv
<1>4. CASE UNCHANGED vars
    BY <1>4 DEF vars, IInv, LoadedInv, RecordInv, Record, Throws
<1> QED BY <1>1, <1>2, <1>3, <1>4 DEF Next

\* The invariant holds in every reachable state.
LEMMA Invariant == Spec => []IInv
BY InvInit, InvNext, PTL DEF Spec

-----------------------------------------------------------------------------
(* The labels and the records.                                             *)

\* No name of a row is what a read past the end of nid yields.
LEMMA NoGarbage ==
    ASSUME NEW rows \in Seq(Row), NEW ip \in DOMAIN AsWritten(rows)
    PROVE  AsWritten(rows)[ip][1] # Garbage
<1> DEFINE n == Len(rows)
           l == LastRow(rows, ip)
<1>1. n \in Nat /\ DOMAIN rows = 1..n /\ \A i \in 1..n : rows[i] \in Row
    BY LenProperties
<1> HIDE DEF n
<1>2. AsWritten(rows) = [a \in {rows[i].ip : i \in DOMAIN rows} |-> RowNames(rows[LastRow(rows, a)])]
    BY <1>1, AsWrittenNames
<1>3. ip \in {rows[i].ip : i \in DOMAIN rows}
    BY <1>2
<1>4. l \in 1..n
    BY <1>1, <1>3, LastRowIs
<1>5. AsWritten(rows)[ip] = RowNames(rows[l])
    BY <1>2, <1>3
<1> HIDE DEF l
<1>6. rows[l].node \in Text
    BY <1>1, <1>4 DEF Row
<1>7. Garbage \notin Text
    <2> SUFFICES ASSUME Garbage \in Seq(Characters) PROVE FALSE
        BY DEF Text
    <2> DEFINE g == Garbage
    <2>1. g \in Seq(Characters) /\ Len(g) = 1 /\ g[1] = "GARBAGE"
        BY DEF Garbage
    <2> HIDE DEF g
    <2>2. \A i \in 1..Len(g) : g[i] \in Characters
        BY <2>1, LenProperties
    <2>3. g[1] \in Characters
        BY <2>1, <2>2
    <2> QED BY <2>1, <2>3, CharactersAssumption
<1>8. AsWritten(rows)[ip][1] = rows[l].node
    BY <1>5 DEF RowNames
<1> QED BY <1>6, <1>7, <1>8

\* A well-formed file is accepted, whatever its line ends, quotes and byte
\* order mark, and label_map is then exactly what its rows say.
THEOREM LabelsAsWrittenHolds == Spec => []LabelsAsWritten
<1>1. IInv => LabelsAsWritten
    <2> SUFFICES ASSUME IInv, loaded # NoFile, WellFormed(loaded)
                 PROVE  /\ pc # "exited"
                        /\ pc = "crashed" => input # NoInput
                        /\ labels = AsWritten(loaded.rows)
        BY DEF LabelsAsWritten
    <2>1. loaded \in Files /\ labels = LoadOf(loaded).map /\ LoadedInv
        BY DEF IInv, LoadedInv
    <2>2. LoadOf(loaded).ended = "loaded" /\ LoadOf(loaded).map = AsWritten(loaded.rows)
        BY <2>1, Loaded DEF LoadedWell
    <2>3. loaded.rows \in Seq(Row)
        BY <2>1, FileTypes
    <2>4. ~ \E ip \in DOMAIN labels : labels[ip][1] = Garbage
        BY <2>1, <2>2, <2>3, NoGarbage
    <2>5. pc # "exited" /\ (pc = "crashed" => input # NoInput)
        BY <2>1, <2>2, <2>4 DEF LoadedInv
    <2> QED BY <2>1, <2>2, <2>5
<1> QED BY <1>1, Invariant, PTL

\* Whatever the file looks like, a host never gets the node name of one row
\* with the platform of another, as long as every pretag label has both names.
THEOREM NoMixedLabelsHolds == Spec => []NoMixedLabels
<1>1. IInv => NoMixedLabels
    <2> SUFFICES ASSUME IInv, loaded # NoFile, pc = "serving",
                        loaded.style = "csv" \/ \A i \in DOMAIN loaded.rows : loaded.rows[i].full,
                        NEW ip \in DOMAIN labels
                 PROVE  \E i \in DOMAIN loaded.rows :
                            loaded.rows[i].ip = ip /\ labels[ip] = RowNames(loaded.rows[i])
        BY DEF NoMixedLabels
    <2> DEFINE rows == loaded.rows
    <2>1. loaded \in Files /\ labels = LoadOf(loaded).map /\ LoadOf(loaded).ended = "loaded"
        BY DEF IInv, LoadedInv
    <2>2. PICK k \in 0..Len(rows) : labels = AsWritten(SubSeq(rows, 1, k))
        BY <2>1, Loaded DEF LoadedWell, AllFull
    <2>3. rows \in Seq(Row) /\ DOMAIN rows = 1..Len(rows) /\ Len(rows) \in Nat
        BY <2>1, FileTypes
    <2> HIDE DEF rows
    <2> DEFINE part == SubSeq(rows, 1, k)
    <2>4. DOMAIN part = 1..k /\ k \in Nat /\ \A i \in 1..k : part[i] = rows[i]
        BY <2>3, Start
    <2>5. 1..k \subseteq DOMAIN rows
        BY <2>3
    <2>6. labels = AsWritten(part)
        BY <2>2
    <2> HIDE DEF part
    <2>7. AsWritten(part) = [a \in {part[i].ip : i \in DOMAIN part} |-> RowNames(part[LastRow(part, a)])]
        BY <2>4, AsWrittenNames
    <2>8. ip \in {part[i].ip : i \in DOMAIN part} /\ labels[ip] = RowNames(part[LastRow(part, ip)])
        BY <2>6, <2>7
    <2>9. LastRow(part, ip) \in 1..k /\ part[LastRow(part, ip)].ip = ip
        BY <2>4, <2>8, LastRowIs
    <2>10. /\ LastRow(part, ip) \in DOMAIN rows /\ rows[LastRow(part, ip)].ip = ip
           /\ labels[ip] = RowNames(rows[LastRow(part, ip)])
        BY <2>4, <2>5, <2>8, <2>9
    <2> QED BY <2>10 DEF rows
<1> QED BY <1>1, Invariant, PTL

\* A record names its peer's address and port and carries the label of that
\* address.
THEOREM PayloadFromPeerHolds == Spec => []PayloadFromPeer
<1>1. IInv => PayloadFromPeer
    <2> SUFFICES ASSUME IInv, payload # NoPayload, input # NoInput, input.peer.family \in {"ipv4", "ipv6"}
                 PROVE  /\ payload.telemetry_node = input.peer.address
                        /\ payload.telemetry_port = input.peer.port
                        /\ method = "Kafka" /\ WellFormed(loaded) =>
                              payload.label = LabelOf(AsWritten(loaded.rows), input.peer.address)
        BY DEF PayloadFromPeer
    <2>1. loaded # NoFile /\ input \in Inputs(loaded) /\ payload = Record
        BY DEF IInv, RecordInv
    <2>2. loaded \in Files /\ labels = LoadOf(loaded).map /\ method \in {"Kafka", "Zmq"}
        BY <2>1 DEF IInv, LoadedInv
    <2> DEFINE peer == ParsePeer(PeerString(input.peer))
    <2>3. peer.ip = input.peer.address /\ peer.port = input.peer.port
        <3>1. input.peer.family # "unix" =>
                /\ peer.port = input.peer.port
                /\ input.peer.family \in {"ipv4", "ipv6"} => peer.ip = input.peer.address
            BY <2>1, <2>2, PeerParsed
        <3> HIDE DEF peer
        <3> QED BY <3>1
    <2>4. WellFormed(loaded) => labels = AsWritten(loaded.rows)
        BY <2>2, Loaded DEF LoadedWell
    <2>5. /\ Record.telemetry_node = peer.ip /\ Record.telemetry_port = peer.port
          /\ method = "Kafka" => Record.label = LabelOf(labels, peer.ip)
        <3>1. CASE method = "Zmq"
            BY <3>1 DEF Record, BuildDataWrapper
        <3>2. CASE method = "Kafka"
            BY <3>2 DEF Record, BuildEnvelope
        <3> QED BY <2>2, <3>1, <3>2
    <2> HIDE DEF peer
    <2> QED BY <2>1, <2>3, <2>4, <2>5
<1> QED BY <1>1, Invariant, PTL

-----------------------------------------------------------------------------
(* The gNMI updates.  The objects on the way down a path, those that hold    *)
(* the value, from it up, and the values a look-up meets.                   *)

Down(m, names) ==
    LET down[i \in 0..Len(names)] == IF i = 0 THEN m ELSE Child(down[i - 1], names[i])
    IN  down

Up(m, names, value) ==
    LET up[k \in 0..Len(names)] ==
            IF k = 0 THEN value
            ELSE Obj(With(Down(m, names)[Len(names) - k], names[Len(names) - k + 1], up[k - 1]))
    IN  up

Met(m, names) ==
    LET at[i \in 0..Len(names)] == IF i = 0 THEN Obj(m) ELSE Key(at[i - 1], names[i])
    IN  at

\* The trees after each update.
Metrics(updates) ==
    LET metrics[i \in 0..Len(updates)] ==
            IF i = 0 THEN NoKeys
            ELSE SetMetric(metrics[i - 1], PathNames(updates[i].path), JuniperValue(updates[i].val))
    IN  metrics

Roots(updates) ==
    LET root[i \in 0..Len(updates)] ==
            IF i = 0 THEN NoKeys
            ELSE With(root[i - 1], NokiaPath(updates, i), NokiaValue(updates[i].val))
    IN  root

\* Each is a run, as the loops above.
LEMMA DownTrace ==
    ASSUME NEW m, NEW names, Len(names) \in Nat
    PROVE  /\ Down(m, names)[0] = m
           /\ \A i \in 1..Len(names) :
                 Down(m, names)[i] = Child(Down(m, names)[i - 1], names[i])
<1> DEFINE Step(x, i) == Child(x, names[i])
           Run(n, f) == f = [i \in 0..n |-> IF i = 0 THEN m ELSE Step(f[i - 1], i)]
           G == {n \in Nat : \E f : Run(n, f)}
<1>1. 0 \in G
    <2> Run(0, [i \in 0..0 |-> m])
        OBVIOUS
    <2> QED OBVIOUS
<1>2. ASSUME NEW n \in Nat, n \in G PROVE n + 1 \in G
    <2>1. PICK f : Run(n, f)
        BY <1>2
    <2> DEFINE g == [i \in 0..(n + 1) |-> IF i <= n THEN f[i] ELSE Step(f[n], n + 1)]
    <2>2. ASSUME NEW i \in 0..(n + 1)
          PROVE  g[i] = IF i = 0 THEN m ELSE Step(g[i - 1], i)
        <3>1. CASE i = 0
            BY <2>1, <3>1
        <3>2. CASE i \in 1..n
            BY <2>1, <3>2
        <3>3. CASE i = n + 1
            BY <3>3
        <3> QED BY <3>1, <3>2, <3>3
    <2>3. Run(n + 1, g)
        BY <2>2, Zenon
    <2> HIDE DEF Run, g
    <2> QED BY <2>3
<1>3. Len(names) \in G
    <2> HIDE DEF G
    <2> QED BY <1>1, <1>2, Induction
<1>4. Run(Len(names), Down(m, names))
    <2>1. PICK f : Run(Len(names), f)
        BY <1>3
    <2>2. Run(Len(names), CHOOSE g : Run(Len(names), g))
        BY <2>1, Zenon
    <2>3. Down(m, names) = CHOOSE g : Run(Len(names), g)
        BY DEF Down
    <2> HIDE DEF Run
    <2> QED BY <2>2, <2>3
<1> DEFINE run == Down(m, names)
<1> HIDE DEF run
<1>5. run = [i \in 0..Len(names) |-> IF i = 0 THEN m ELSE Step(run[i - 1], i)]
    BY <1>4 DEF run
<1>6. run[0] = m
    BY <1>5
<1>7. \A i \in 1..Len(names) : run[i] = Step(run[i - 1], i)
    BY <1>5
<1> QED BY <1>6, <1>7 DEF run

\* The objects from the value up.
LEMMA UpTrace ==
    ASSUME NEW m, NEW names, NEW value, Len(names) \in Nat
    PROVE  /\ Up(m, names, value)[0] = value
           /\ \A i \in 1..Len(names) :
                 Up(m, names, value)[i] =
                    Obj(With(Down(m, names)[Len(names) - i], names[Len(names) - i + 1], Up(m, names, value)[i - 1]))
<1> DEFINE Step(x, i) == Obj(With(Down(m, names)[Len(names) - i], names[Len(names) - i + 1], x))
           Run(n, f) == f = [i \in 0..n |-> IF i = 0 THEN value ELSE Step(f[i - 1], i)]
           G == {n \in Nat : \E f : Run(n, f)}
<1>1. 0 \in G
    <2> Run(0, [i \in 0..0 |-> value])
        OBVIOUS
    <2> QED OBVIOUS
<1>2. ASSUME NEW n \in Nat, n \in G PROVE n + 1 \in G
    <2>1. PICK f : Run(n, f)
        BY <1>2
    <2> DEFINE g == [i \in 0..(n + 1) |-> IF i <= n THEN f[i] ELSE Step(f[n], n + 1)]
    <2>2. ASSUME NEW i \in 0..(n + 1)
          PROVE  g[i] = IF i = 0 THEN value ELSE Step(g[i - 1], i)
        <3>1. CASE i = 0
            BY <2>1, <3>1
        <3>2. CASE i \in 1..n
            BY <2>1, <3>2
        <3>3. CASE i = n + 1
            BY <3>3
        <3> QED BY <3>1, <3>2, <3>3
    <2>3. Run(n + 1, g)
        BY <2>2, Zenon
    <2> HIDE DEF Run, g
    <2> QED BY <2>3
<1>3. Len(names) \in G
    <2> HIDE DEF G
    <2> QED BY <1>1, <1>2, Induction
<1>4. Run(Len(names), Up(m, names, value))
    <2>1. PICK f : Run(Len(names), f)
        BY <1>3
    <2>2. Run(Len(names), CHOOSE g : Run(Len(names), g))
        BY <2>1, Zenon
    <2>3. Up(m, names, value) = CHOOSE g : Run(Len(names), g)
        BY DEF Up
    <2> HIDE DEF Run
    <2> QED BY <2>2, <2>3
<1> DEFINE run == Up(m, names, value)
<1> HIDE DEF run
<1>5. run = [i \in 0..Len(names) |-> IF i = 0 THEN value ELSE Step(run[i - 1], i)]
    BY <1>4 DEF run
<1>6. run[0] = value
    BY <1>5
<1>7. \A i \in 1..Len(names) : run[i] = Step(run[i - 1], i)
    BY <1>5
<1> QED BY <1>6, <1>7 DEF run

\* The values a look-up meets.
LEMMA MetTrace ==
    ASSUME NEW m, NEW names, Len(names) \in Nat
    PROVE  /\ Met(m, names)[0] = Obj(m)
           /\ \A i \in 1..Len(names) :
                 Met(m, names)[i] = Key(Met(m, names)[i - 1], names[i])
<1> DEFINE Step(x, i) == Key(x, names[i])
           Run(n, f) == f = [i \in 0..n |-> IF i = 0 THEN Obj(m) ELSE Step(f[i - 1], i)]
           G == {n \in Nat : \E f : Run(n, f)}
<1>1. 0 \in G
    <2> Run(0, [i \in 0..0 |-> Obj(m)])
        OBVIOUS
    <2> QED OBVIOUS
<1>2. ASSUME NEW n \in Nat, n \in G PROVE n + 1 \in G
    <2>1. PICK f : Run(n, f)
        BY <1>2
    <2> DEFINE g == [i \in 0..(n + 1) |-> IF i <= n THEN f[i] ELSE Step(f[n], n + 1)]
    <2>2. ASSUME NEW i \in 0..(n + 1)
          PROVE  g[i] = IF i = 0 THEN Obj(m) ELSE Step(g[i - 1], i)
        <3>1. CASE i = 0
            BY <2>1, <3>1
        <3>2. CASE i \in 1..n
            BY <2>1, <3>2
        <3>3. CASE i = n + 1
            BY <3>3
        <3> QED BY <3>1, <3>2, <3>3
    <2>3. Run(n + 1, g)
        BY <2>2, Zenon
    <2> HIDE DEF Run, g
    <2> QED BY <2>3
<1>3. Len(names) \in G
    <2> HIDE DEF G
    <2> QED BY <1>1, <1>2, Induction
<1>4. Run(Len(names), Met(m, names))
    <2>1. PICK f : Run(Len(names), f)
        BY <1>3
    <2>2. Run(Len(names), CHOOSE g : Run(Len(names), g))
        BY <2>1, Zenon
    <2>3. Met(m, names) = CHOOSE g : Run(Len(names), g)
        BY DEF Met
    <2> HIDE DEF Run
    <2> QED BY <2>2, <2>3
<1> DEFINE run == Met(m, names)
<1> HIDE DEF run
<1>5. run = [i \in 0..Len(names) |-> IF i = 0 THEN Obj(m) ELSE Step(run[i - 1], i)]
    BY <1>4 DEF run
<1>6. run[0] = Obj(m)
    BY <1>5
<1>7. \A i \in 1..Len(names) : run[i] = Step(run[i - 1], i)
    BY <1>5
<1> QED BY <1>6, <1>7 DEF run

\* The trees after the updates of a Juniper notification.
LEMMA MetricsTrace ==
    ASSUME NEW updates, Len(updates) \in Nat
    PROVE  /\ Metrics(updates)[0] = NoKeys
           /\ \A i \in 1..Len(updates) :
                 Metrics(updates)[i] =
                    SetMetric(Metrics(updates)[i - 1], PathNames(updates[i].path), JuniperValue(updates[i].val))
<1> DEFINE Step(x, i) == SetMetric(x, PathNames(updates[i].path), JuniperValue(updates[i].val))
           Run(n, f) == f = [i \in 0..n |-> IF i = 0 THEN NoKeys ELSE Step(f[i - 1], i)]
           G == {n \in Nat : \E f : Run(n, f)}
<1>1. 0 \in G
    <2> Run(0, [i \in 0..0 |-> NoKeys])
        OBVIOUS
    <2> QED OBVIOUS
<1>2. ASSUME NEW n \in Nat, n \in G PROVE n + 1 \in G
    <2>1. PICK f : Run(n, f)
        BY <1>2
    <2> DEFINE g == [i \in 0..(n + 1) |-> IF i <= n THEN f[i] ELSE Step(f[n], n + 1)]
    <2>2. ASSUME NEW i \in 0..(n + 1)
          PROVE  g[i] = IF i = 0 THEN NoKeys ELSE Step(g[i - 1], i)
        <3>1. CASE i = 0
            BY <2>1, <3>1
        <3>2. CASE i \in 1..n
            BY <2>1, <3>2
        <3>3. CASE i = n + 1
            BY <3>3
        <3> QED BY <3>1, <3>2, <3>3
    <2>3. Run(n + 1, g)
        BY <2>2, Zenon
    <2> HIDE DEF Run, g
    <2> QED BY <2>3
<1>3. Len(updates) \in G
    <2> HIDE DEF G
    <2> QED BY <1>1, <1>2, Induction
<1>4. Run(Len(updates), Metrics(updates))
    <2>1. PICK f : Run(Len(updates), f)
        BY <1>3
    <2>2. Run(Len(updates), CHOOSE g : Run(Len(updates), g))
        BY <2>1, Zenon
    <2>3. Metrics(updates) = CHOOSE g : Run(Len(updates), g)
        BY DEF Metrics
    <2> HIDE DEF Run
    <2> QED BY <2>2, <2>3
<1> DEFINE run == Metrics(updates)
<1> HIDE DEF run
<1>5. run = [i \in 0..Len(updates) |-> IF i = 0 THEN NoKeys ELSE Step(run[i - 1], i)]
    BY <1>4 DEF run
<1>6. run[0] = NoKeys
    BY <1>5
<1>7. \A i \in 1..Len(updates) : run[i] = Step(run[i - 1], i)
    BY <1>5
<1> QED BY <1>6, <1>7 DEF run

\* The objects after the updates of a Nokia notification.
LEMMA RootsTrace ==
    ASSUME NEW updates, Len(updates) \in Nat
    PROVE  /\ Roots(updates)[0] = NoKeys
           /\ \A i \in 1..Len(updates) :
                 Roots(updates)[i] = With(Roots(updates)[i - 1], NokiaPath(updates, i), NokiaValue(updates[i].val))
<1> DEFINE Step(x, i) == With(x, NokiaPath(updates, i), NokiaValue(updates[i].val))
           Run(n, f) == f = [i \in 0..n |-> IF i = 0 THEN NoKeys ELSE Step(f[i - 1], i)]
           G == {n \in Nat : \E f : Run(n, f)}
<1>1. 0 \in G
    <2> Run(0, [i \in 0..0 |-> NoKeys])
        OBVIOUS
    <2> QED OBVIOUS
<1>2. ASSUME NEW n \in Nat, n \in G PROVE n + 1 \in G
    <2>1. PICK f : Run(n, f)
        BY <1>2
    <2> DEFINE g == [i \in 0..(n + 1) |-> IF i <= n THEN f[i] ELSE Step(f[n], n + 1)]
    <2>2. ASSUME NEW i \in 0..(n + 1)
          PROVE  g[i] = IF i = 0 THEN NoKeys ELSE Step(g[i - 1], i)
        <3>1. CASE i = 0
            BY <2>1, <3>1
        <3>2. CASE i \in 1..n
            BY <2>1, <3>2
        <3>3. CASE i = n + 1
            BY <3>3
        <3> QED BY <3>1, <3>2, <3>3
    <2>3. Run(n + 1, g)
        BY <2>2, Zenon
    <2> HIDE DEF Run, g
    <2> QED BY <2>3
<1>3. Len(updates) \in G
    <2> HIDE DEF G
    <2> QED BY <1>1, <1>2, Induction
<1>4. Run(Len(updates), Roots(updates))
    <2>1. PICK f : Run(Len(updates), f)
        BY <1>3
    <2>2. Run(Len(updates), CHOOSE g : Run(Len(updates), g))
        BY <2>1, Zenon
    <2>3. Roots(updates) = CHOOSE g : Run(Len(updates), g)
        BY DEF Roots
    <2> HIDE DEF Run
    <2> QED BY <2>2, <2>3
<1> DEFINE run == Roots(updates)
<1> HIDE DEF run
<1>5. run = [i \in 0..Len(updates) |-> IF i = 0 THEN NoKeys ELSE Step(run[i - 1], i)]
    BY <1>4 DEF run
<1>6. run[0] = NoKeys
    BY <1>5
<1>7. \A i \in 1..Len(updates) : run[i] = Step(run[i - 1], i)
    BY <1>5
<1> QED BY <1>6, <1>7 DEF run

\* These are what the decoders and the look-up use.
LEMMA SetMetricUp ==
    ASSUME NEW m, NEW names, NEW value, Len(names) \in Nat
    PROVE  SetMetric(m, names, value) = IF Len(names) = 0 THEN m ELSE Up(m, names, value)[Len(names)].m
BY DEF SetMetric, Up, Down

\* A look-up yields the last value it meets.
LEMMA LookupMet ==
    ASSUME NEW m, NEW names
    PROVE  Lookup(m, names) = Met(m, names)[Len(names)]
BY DEF Lookup, Met

\* The metrics are the tree after the last update.
LEMMA JuniperMetricsLast ==
    ASSUME NEW updates
    PROVE  JuniperMetrics(updates) = Metrics(updates)[Len(updates)]
BY DEF JuniperMetrics, Metrics

\* So are the members of the JSON object of Nokia.
LEMMA NokiaUpdateLast ==
    ASSUME NEW n
    PROVE  NokiaUpdate(n) = Obj(Roots(n.updates)[Len(n.updates)])
BY DEF NokiaUpdate, Roots

\* The members of an object.
LEMMA KeyOfObject ==
    ASSUME NEW m, NEW k
    PROVE  /\ Obj(m).t = "object" /\ Obj(m).m = m
           /\ Key(Obj(m), k) = IF k \in DOMAIN m THEN m[k] ELSE Null
BY DEF Key, Obj

\* Above the value, an update has made an object of everything on its path.
LEMMA UpIsObject ==
    ASSUME NEW m, NEW names, NEW value, Len(names) \in Nat, NEW k \in 1..Len(names)
    PROVE  /\ Up(m, names, value)[k] =
                Obj(With(Down(m, names)[Len(names) - k], names[Len(names) - k + 1], Up(m, names, value)[k - 1]))
           /\ Obj(Up(m, names, value)[k].m) = Up(m, names, value)[k]
<1> DEFINE w == With(Down(m, names)[Len(names) - k], names[Len(names) - k + 1], Up(m, names, value)[k - 1])
<1>1. Up(m, names, value)[k] = Obj(w)
    BY UpTrace
<1> HIDE DEF w
<1>2. Obj(Up(m, names, value)[k].m) = Up(m, names, value)[k]
    BY <1>1, KeyOfObject
<1> QED BY <1>1, <1>2 DEF w

\* A look-up that begins as the path of an update meets, to where the two part,
\* the objects the update has made.
LEMMA MetAfter ==
    ASSUME NEW m, NEW p, NEW q, NEW value, Len(p) \in Nat, Len(q) \in Nat, NEW c \in 1..Len(q), c <= Len(p) + 1,
           \A i \in 1..(c - 1) : p[i] = q[i]
    PROVE  \A i \in 0..(c - 1) : Met(SetMetric(m, q, value), p)[i] = Up(m, q, value)[Len(q) - i]
<1> DEFINE n == Len(q)
           s == SetMetric(m, q, value)
           at == Met(s, p)
           up == Up(m, q, value)
           down == Down(m, q)
           G == {i \in Nat : i <= c - 1 => at[i] = up[n - i]}
<1>1. n \in Nat /\ c \in Nat /\ c >= 1 /\ c <= n /\ Len(p) \in Nat
    OBVIOUS
<1>2. s = up[n].m
    BY <1>1, SetMetricUp
<1>3. at[0] = Obj(s) /\ \A i \in 1..Len(p) : at[i] = Key(at[i - 1], p[i])
    BY MetTrace
<1>4. \A k \in 1..n : up[k] = Obj(With(down[n - k], q[n - k + 1], up[k - 1])) /\ Obj(up[k].m) = up[k]
    BY UpIsObject
<1> HIDE DEF n, s, at, up, down
<1>5. 0 \in G
    <2>1. n \in 1..n /\ n - 0 = n
        BY <1>1
    <2> QED BY <1>2, <1>3, <1>4, <2>1
<1>6. ASSUME NEW i \in Nat, i \in G PROVE i + 1 \in G
    <2> SUFFICES ASSUME i + 1 <= c - 1 PROVE at[i + 1] = up[n - (i + 1)]
        OBVIOUS
    <2>1. /\ i + 1 \in 1..Len(p) /\ (i + 1) - 1 = i /\ i <= c - 1 /\ n - i \in 1..n
          /\ n - (n - i) + 1 = i + 1 /\ (n - i) - 1 = n - (i + 1) /\ i + 1 \in 1..(c - 1)
        BY <1>1
    <2>2. at[i + 1] = Key(up[n - i], p[i + 1]) /\ p[i + 1] = q[i + 1]
        BY <1>3, <1>6, <2>1
    <2> DEFINE d == down[n - (n - i)]
               x == q[i + 1]
               v == up[n - (i + 1)]
               w == With(d, x, v)
    <2>3. up[n - i] = Obj(w)
        BY <1>4, <2>1
    <2> HIDE DEF d, x, v
    <2>4. x \in DOMAIN w /\ w[x] = v
        BY DEF With
    <2> HIDE DEF w
    <2> USE DEF x, v
    <2> QED BY <2>2, <2>3, <2>4, KeyOfObject
<1>7. \A i \in Nat : i \in G
    <2> HIDE DEF G
    <2> QED BY <1>5, <1>6, Induction
<1>8. \A i \in 0..(c - 1) : at[i] = up[n - i]
    BY <1>1, <1>7
<1> QED BY <1>8 DEF n, s, at, up

\* An update is found at its path.
LEMMA UpdateFound ==
    ASSUME NEW m, NEW names, NEW value, Len(names) \in Nat, Len(names) # 0
    PROVE  Lookup(SetMetric(m, names, value), names) = value
<1> DEFINE n == Len(names)
           s == SetMetric(m, names, value)
           at == Met(s, names)
           up == Up(m, names, value)
           w == With(Down(m, names)[n - 1], names[n - 1 + 1], up[1 - 1])
<1>1. /\ n \in 1..n /\ n <= n + 1 /\ n \in Nat
      /\ n - 1 \in 0..(n - 1) /\ n - (n - 1) = 1 /\ 1 \in 1..n /\ n - 1 + 1 = n /\ 1 - 1 = 0
    OBVIOUS
<1>2. \A i \in 0..(n - 1) : at[i] = up[n - i]
    <2>1. \A i \in 1..(n - 1) : names[i] = names[i]
        OBVIOUS
    <2> QED BY <1>1, <2>1, MetAfter
<1>3. at[n] = Key(at[n - 1], names[n])
    BY <1>1, MetTrace
<1>4. up[1] = Obj(w) /\ up[0] = value
    BY <1>1, UpTrace, UpIsObject
<1>5. w[names[n]] = up[0] /\ names[n] \in DOMAIN w
    <2> DEFINE d == Down(m, names)[n - 1]
               x == names[n - 1 + 1]
               v == up[1 - 1]
    <2> HIDE DEF d, x, v
    <2>1. x \in DOMAIN With(d, x, v) /\ With(d, x, v)[x] = v
        BY DEF With
    <2> QED BY <1>1, <2>1 DEF d, x, v
<1>6. Lookup(s, names) = at[n]
    BY LookupMet
<1> HIDE DEF n, s, at, up, w
<1>7. at[n - 1] = up[1]
    BY <1>1, <1>2
<1>8. at[n] = value
    BY <1>3, <1>4, <1>5, <1>7, KeyOfObject
<1> QED BY <1>6, <1>8 DEF s

\* The empty object, and what is taken for it.
LEMMA NoNames ==
    /\ NoKeys = [k \in {} |-> Null] /\ DOMAIN NoKeys = {}
    /\ Null.t # "object" /\ ObjectOf(Null) = NoKeys
BY DEF NoKeys, Null, ObjectOf

\* On the way down a path the code meets what a look-up meets there.
LEMMA DownMet ==
    ASSUME NEW m, NEW p, NEW q, Len(p) \in Nat, Len(q) \in Nat, NEW c \in 1..Len(q), c <= Len(p) + 1,
           \A i \in 1..(c - 1) : p[i] = q[i]
    PROVE  \A i \in 0..(c - 1) : Down(m, q)[i] = ObjectOf(Met(m, p)[i])
<1> DEFINE n == Len(q)
           at == Met(m, p)
           down == Down(m, q)
           G == {i \in Nat : i <= c - 1 => down[i] = ObjectOf(at[i])}
<1>1. n \in Nat /\ c \in Nat /\ c >= 1 /\ c <= n /\ Len(p) \in Nat
    OBVIOUS
<1>2. at[0] = Obj(m) /\ \A i \in 1..Len(p) : at[i] = Key(at[i - 1], p[i])
    BY MetTrace
<1>3. down[0] = m /\ \A i \in 1..n : down[i] = Child(down[i - 1], q[i])
    BY DownTrace
<1> HIDE DEF n, at, down
<1>4. 0 \in G
    BY <1>2, <1>3, KeyOfObject DEF ObjectOf
<1>5. ASSUME NEW i \in Nat, i \in G PROVE i + 1 \in G
    <2> SUFFICES ASSUME i + 1 <= c - 1 PROVE down[i + 1] = ObjectOf(at[i + 1])
        OBVIOUS
    <2>1. i + 1 \in 1..Len(p) /\ i + 1 \in 1..n /\ (i + 1) - 1 = i /\ i <= c - 1 /\ i + 1 \in 1..(c - 1)
        BY <1>1
    <2> DEFINE d == down[i]
               a == at[i]
               x == q[i + 1]
    <2>2. down[i + 1] = Child(d, x) /\ at[i + 1] = Key(a, x) /\ d = ObjectOf(a)
        BY <1>2, <1>3, <1>5, <2>1
    <2> HIDE DEF d, a, x
    <2>3. CASE a.t = "object"
        <3>1. d = a.m
            BY <2>2, <2>3 DEF ObjectOf
        <3>2. Key(a, x) = IF x \in DOMAIN d THEN d[x] ELSE Null
            BY <2>3, <3>1 DEF Key
        <3>3. Child(d, x) = ObjectOf(Key(a, x))
            BY <3>2, NoNames DEF Child, ObjectOf
        <3> QED BY <2>2, <3>3
    <2>4. CASE a.t # "object"
        <3>1. d = NoKeys /\ Key(a, x) = Null
            BY <2>2, <2>4 DEF ObjectOf, Key
        <3>2. Child(d, x) = NoKeys
            BY <3>1, NoNames DEF Child
        <3> QED BY <2>2, <3>1, <3>2, NoNames
    <2> QED BY <2>3, <2>4
<1>6. \A i \in Nat : i \in G
    <2> HIDE DEF G
    <2> QED BY <1>4, <1>5, Induction
<1>7. \A i \in 0..(c - 1) : down[i] = ObjectOf(at[i])
    BY <1>1, <1>6
<1> QED BY <1>7 DEF at, down

\* What is found at a path does not change when one that parts from it is written.
LEMMA Untouched ==
    ASSUME NEW m, NEW p, NEW q, NEW value, Len(p) \in Nat, Len(q) \in Nat, NEW c \in 1..Len(q), c <= Len(p),
           p[c] # q[c], \A i \in 1..(c - 1) : p[i] = q[i]
    PROVE  Lookup(SetMetric(m, q, value), p) = Lookup(m, p)
<1> DEFINE n == Len(q)
           s == SetMetric(m, q, value)
           new == Met(s, p)
           old == Met(m, p)
           up == Up(m, q, value)
           down == Down(m, q)
           k == n - (c - 1)
           w == With(down[c - 1], q[c], up[k - 1])
           G == {i \in Nat : i >= c /\ i <= Len(p) => new[i] = old[i]}
<1>1. /\ n \in Nat /\ c \in Nat /\ c >= 1 /\ c <= n /\ Len(p) \in Nat /\ c <= Len(p) + 1
      /\ c - 1 \in 0..(c - 1) /\ k \in 1..n /\ n - k = c - 1 /\ n - k + 1 = c /\ c \in 1..Len(p)
    OBVIOUS
<1>2. new[c - 1] = up[k]
    BY <1>1, MetAfter
<1>3. down[c - 1] = ObjectOf(old[c - 1])
    BY <1>1, DownMet
<1>4. up[k] = Obj(w)
    BY <1>1, UpIsObject
<1>5. /\ \A i \in 1..Len(p) : new[i] = Key(new[i - 1], p[i])
      /\ \A i \in 1..Len(p) : old[i] = Key(old[i - 1], p[i])
    <2> HIDE DEF s
    <2>1. \A i \in 1..Len(p) : new[i] = Key(new[i - 1], p[i])
        BY MetTrace
    <2>2. \A i \in 1..Len(p) : old[i] = Key(old[i - 1], p[i])
        BY MetTrace
    <2> QED BY <2>1, <2>2
<1>6. /\ DOMAIN w = DOMAIN down[c - 1] \cup {q[c]}
      /\ \A x \in DOMAIN down[c - 1] : x # q[c] => w[x] = down[c - 1][x]
    <2> DEFINE d == down[c - 1]
               y == q[c]
               v == up[k - 1]
    <2> HIDE DEF d, y, v
    <2>1. /\ DOMAIN With(d, y, v) = DOMAIN d \cup {y}
          /\ \A x \in DOMAIN d : x # y => With(d, y, v)[x] = d[x]
        BY DEF With
    <2> QED BY <2>1 DEF d, y, v
<1>7. Lookup(s, p) = new[Len(p)] /\ Lookup(m, p) = old[Len(p)]
    BY LookupMet
<1> HIDE DEF n, s, new, old, up, down, k, w
<1>8. new[c] = old[c]
    <2> DEFINE d == down[c - 1]
               a == old[c - 1]
               x == p[c]
    <2>1. new[c] = Key(Obj(w), x) /\ old[c] = Key(a, x) /\ d = ObjectOf(a)
        BY <1>1, <1>2, <1>3, <1>4, <1>5
    <2>2. /\ x # q[c] /\ DOMAIN w = DOMAIN d \cup {q[c]}
          /\ \A y \in DOMAIN d : y # q[c] => w[y] = d[y]
        BY <1>6
    <2> HIDE DEF d, a, x
    <2>3. Key(Obj(w), x) = IF x \in DOMAIN w THEN w[x] ELSE Null
        BY KeyOfObject
    <2>4. Key(Obj(w), x) = IF x \in DOMAIN d THEN d[x] ELSE Null
        BY <2>2, <2>3
    <2>5. Key(a, x) = IF x \in DOMAIN d THEN d[x] ELSE Null
        <3>1. CASE a.t = "object"
            BY <2>1, <3>1 DEF Key, ObjectOf
        <3>2. CASE a.t # "object"
            BY <2>1, <3>2, NoNames DEF Key, ObjectOf
        <3> QED BY <3>1, <3>2
    <2> QED BY <2>1, <2>4, <2>5
<1>9. 0 \in G
    BY <1>1
<1>10. ASSUME NEW i \in Nat, i \in G PROVE i + 1 \in G
    <2> SUFFICES ASSUME i + 1 >= c, i + 1 <= Len(p) PROVE new[i + 1] = old[i + 1]
        OBVIOUS
    <2>1. CASE i + 1 = c
        BY <1>8, <2>1
    <2>2. CASE i + 1 # c
        <3>1. i >= c /\ i <= Len(p) /\ i + 1 \in 1..Len(p) /\ (i + 1) - 1 = i
            BY <1>1, <2>2
        <3>2. new[i] = old[i]
            BY <1>10, <3>1
        <3> QED BY <1>5, <3>1, <3>2
    <2> QED BY <2>1, <2>2
<1>11. Len(p) \in G
    <2> HIDE DEF G
    <2> QED BY <1>1, <1>9, <1>10, Induction
<1>12. new[Len(p)] = old[Len(p)]
    BY <1>1, <1>11
<1> QED BY <1>7, <1>12 DEF s

\* Of two sequences that differ, the first place where they do.
Partings(p, q, n) == {c \in 1..n : p[c] # q[c] /\ \A i \in 1..(c - 1) : p[i] = q[i]}

\* Two sequences that differ have a first such place.
LEMMA FirstDifference ==
    ASSUME NEW p, NEW q, NEW N \in Nat, NEW d \in 1..N, p[d] # q[d]
    PROVE  Partings(p, q, N) # {}
<1> DEFINE G == {n \in Nat : (\E i \in 1..n : p[i] # q[i]) =>
                    \E c \in 1..n : p[c] # q[c] /\ \A i \in 1..(c - 1) : p[i] = q[i]}
<1>1. 0 \in G
    OBVIOUS
<1>2. ASSUME NEW n \in Nat, n \in G PROVE n + 1 \in G
    <2> SUFFICES ASSUME NEW i \in 1..(n + 1), p[i] # q[i]
                 PROVE  \E c \in 1..(n + 1) : p[c] # q[c] /\ \A j \in 1..(c - 1) : p[j] = q[j]
        OBVIOUS
    <2>1. CASE \E j \in 1..n : p[j] # q[j]
        <3>1. PICK c \in 1..n : p[c] # q[c] /\ \A j \in 1..(c - 1) : p[j] = q[j]
            BY <1>2, <2>1
        <3>2. c \in 1..(n + 1)
            OBVIOUS
        <3> QED BY <3>1, <3>2
    <2>2. CASE ~ \E j \in 1..n : p[j] # q[j]
        <3>1. i = n + 1 /\ (n + 1) - 1 = n /\ n + 1 \in 1..(n + 1)
            BY <2>2
        <3> QED BY <2>2, <3>1
    <2> QED BY <2>1, <2>2
<1>3. \A n \in Nat : n \in G
    <2> HIDE DEF G
    <2> QED BY <1>1, <1>2, Induction
<1>4. \E c \in 1..N : p[c] # q[c] /\ \A i \in 1..(c - 1) : p[i] = q[i]
    BY <1>3
<1> QED BY <1>4 DEF Partings

\* Of two sequences neither of which begins the other, the first place where
\* they differ is in both.
LEMMA PartingPlace ==
    ASSUME NEW S, NEW p \in Seq(S), NEW q \in Seq(S), ~Related(p, q)
    PROVE  \E c \in 1..Len(q) : c <= Len(p) /\ p[c] # q[c] /\ \A i \in 1..(c - 1) : p[i] = q[i]
<1> DEFINE n == IF Len(p) <= Len(q) THEN Len(p) ELSE Len(q)
<1>1. /\ n \in Nat /\ Len(p) \in Nat /\ Len(q) \in Nat /\ n <= Len(p) /\ n <= Len(q)
      /\ n \in 0..Len(p) /\ n \in 0..Len(q)
    BY LenProperties
<1>2. SubSeq(p, 1, n) # SubSeq(q, 1, n)
    BY DEF Related, IsPrefix
<1> HIDE DEF n
<1>3. \E i \in 1..n : p[i] # q[i]
    <2> SUFFICES ASSUME \A i \in 1..n : p[i] = q[i] PROVE SubSeq(p, 1, n) = SubSeq(q, 1, n)
        BY <1>2
    <2> DEFINE s == SubSeq(p, 1, n)
               t == SubSeq(q, 1, n)
    <2>1. s \in Seq(S) /\ Len(s) = n /\ \A i \in 1..n : s[i] = p[i]
        BY <1>1, Start
    <2>2. t \in Seq(S) /\ Len(t) = n /\ \A i \in 1..n : t[i] = q[i]
        BY <1>1, Start
    <2> HIDE DEF s, t
    <2>3. s = t
        BY <2>1, <2>2, SeqEqual
    <2> QED BY <2>3 DEF s, t
<1>4. PICK c \in 1..n : p[c] # q[c] /\ \A i \in 1..(c - 1) : p[i] = q[i]
    <2>1. PICK d \in 1..n : p[d] # q[d]
        BY <1>3
    <2>2. n \in Nat
        BY <1>1
    <2>3. Partings(p, q, n) # {}
        BY <2>1, <2>2, FirstDifference
    <2> QED BY <2>3 DEF Partings
<1>5. c \in 1..Len(q) /\ c <= Len(p)
    BY <1>1
<1> QED BY <1>4, <1>5

\* The names of a path are those of its elements.
LEMMA PathNamesType ==
    ASSUME NEW path, IsSequence(path)
    PROVE  /\ PathNames(path) \in Seq(ToSet(PathNames(path))) /\ Len(PathNames(path)) \in Nat
           /\ Len(PathNames(path)) = Len(path)
           /\ PathNames(path) = <<>> <=> Len(PathNames(path)) = 0
<1> DEFINE n == Len(path)
           p == PathNames(path)
<1>1. n \in Nat /\ DOMAIN path = 1..n
    BY LenProperties DEF IsSequence
<1> HIDE DEF n
<1>2. p = [i \in 1..n |-> NodeName(path[i])]
    BY <1>1 DEF PathNames
<1>7. Len(p) = n
    BY <1>1, <1>2
<1> HIDE DEF p
<1>3. \A i \in 1..n : p[i] \in ToSet(p)
    BY <1>2 DEF ToSet
<1>4. p \in [1..n -> ToSet(p)]
    BY <1>2, <1>3
<1>5. p \in Seq(ToSet(p))
    BY <1>1, <1>4, SeqDef
<1>6. Len(p) \in Nat /\ (p = <<>> <=> Len(p) = 0)
    BY <1>5, LenProperties, EmptySeq
<1> QED BY <1>5, <1>6, <1>7 DEF p, n

\* Two paths that are not related part somewhere.
LEMMA PathsPart ==
    ASSUME NEW a, NEW b, IsSequence(a), IsSequence(b), ~Related(PathNames(a), PathNames(b))
    PROVE  \E c \in 1..Len(PathNames(b)) :
               /\ c <= Len(PathNames(a)) /\ PathNames(a)[c] # PathNames(b)[c]
               /\ \A i \in 1..(c - 1) : PathNames(a)[i] = PathNames(b)[i]
<1> DEFINE p == PathNames(a)
           q == PathNames(b)
           S == ToSet(p) \cup ToSet(q)
<1>1. p \in Seq(ToSet(p)) /\ q \in Seq(ToSet(q))
    BY PathNamesType
<1> HIDE DEF p, q
<1>2. p \in Seq(S) /\ q \in Seq(S)
    BY <1>1, SeqMonotonic
<1> HIDE DEF S
<1>3. ~Related(p, q)
    BY DEF p, q
<1> QED BY <1>2, <1>3, PartingPlace DEF p, q

\* An update of Juniper stays in the tree until a later one writes its path, or
\* one above or below it.
LEMMA JuniperVisible ==
    ASSUME NEW us, IsSequence(us), \A i \in DOMAIN us : IsSequence(us[i].path), NEW i \in DOMAIN us,
           PathNames(us[i].path) # <<>>,
           ~ \E k \in DOMAIN us : /\ k > i /\ PathNames(us[k].path) # <<>>
                                  /\ Related(PathNames(us[i].path), PathNames(us[k].path))
    PROVE  Lookup(JuniperMetrics(us), PathNames(us[i].path)) = JuniperValue(us[i].val)
<1> DEFINE N == Len(us)
           p == PathNames(us[i].path)
           v == JuniperValue(us[i].val)
           tree == Metrics(us)
           G == {j \in Nat : j >= i /\ j <= N => Lookup(tree[j], p) = v}
<1>1. N \in Nat /\ DOMAIN us = 1..N
    BY LenProperties DEF IsSequence
<1>2. i \in 1..N /\ i \in Nat
    BY <1>1
<1>3. \A j \in 1..N : tree[j] = SetMetric(tree[j - 1], PathNames(us[j].path), JuniperValue(us[j].val))
    BY <1>1, MetricsTrace
<1>4. Len(p) \in Nat /\ Len(p) # 0
    BY PathNamesType
<1>5. JuniperMetrics(us) = tree[N]
    BY JuniperMetricsLast
<1> HIDE DEF N, p, v, tree
<1>6. 0 \in G
    BY <1>2
<1>7. ASSUME NEW j \in Nat, j \in G PROVE j + 1 \in G
    <2> SUFFICES ASSUME j + 1 >= i, j + 1 <= N PROVE Lookup(tree[j + 1], p) = v
        OBVIOUS
    <2> DEFINE k == j + 1
               q == PathNames(us[k].path)
               x == JuniperValue(us[k].val)
    <2>1. k \in 1..N /\ k - 1 = j /\ k \in DOMAIN us
        BY <1>1
    <2>2. tree[k] = SetMetric(tree[j], q, x)
        BY <1>3, <2>1
    <2>3. CASE k = i
        <3>1. q = p /\ x = v
            BY <2>3 DEF p, v
        <3> HIDE DEF k, q, x
        <3>2. Lookup(SetMetric(tree[j], p, v), p) = v
            BY <1>4, UpdateFound
        <3>3. Lookup(tree[k], p) = v
            BY <2>2, <3>1, <3>2
        <3> QED BY <3>3 DEF k
    <2>4. CASE k # i
        <3>1. k > i /\ j >= i /\ j <= N
            BY <1>1, <1>2, <2>1, <2>4
        <3>2. Lookup(tree[j], p) = v
            BY <1>7, <3>1
        <3>3. IsSequence(us[k].path) /\ IsSequence(us[i].path)
            BY <2>1
        <3>4. q = <<>> \/ ~Related(p, q)
            BY <2>1, <3>1 DEF p
        <3>5. Len(q) \in Nat /\ (q = <<>> <=> Len(q) = 0)
            BY <3>3, PathNamesType
        <3>6. CASE q = <<>>
            <4>1. Len(q) = 0
                BY <3>5, <3>6
            <4> HIDE DEF k, q, x
            <4>2. SetMetric(tree[j], q, x) = tree[j]
                BY <4>1, SetMetricUp
            <4>3. Lookup(tree[k], p) = v
                BY <2>2, <3>2, <4>2
            <4> QED BY <4>3 DEF k
        <3>7. CASE ~Related(p, q)
            <4>1. PICK c \in 1..Len(q) : c <= Len(p) /\ p[c] # q[c] /\ \A y \in 1..(c - 1) : p[y] = q[y]
                BY <3>3, <3>7, PathsPart DEF p
            <4> HIDE DEF k, q, x
            <4>2. Lookup(SetMetric(tree[j], q, x), p) = Lookup(tree[j], p)
                BY <1>4, <3>5, <4>1, Untouched
            <4>3. Lookup(tree[k], p) = v
                BY <2>2, <3>2, <4>2
            <4> QED BY <4>3 DEF k
        <3> QED BY <3>4, <3>6, <3>7
    <2> QED BY <2>3, <2>4
<1>8. N \in G
    <2> HIDE DEF G
    <2> QED BY <1>1, <1>6, <1>7, Induction
<1>9. Lookup(tree[N], p) = v
    BY <1>1, <1>2, <1>8
<1> QED BY <1>5, <1>9 DEF p, v

\* An update of Nokia stays until a later one has the same names.
LEMMA NokiaVisible ==
    ASSUME NEW n, IsSequence(n.updates), NEW i \in DOMAIN n.updates,
           ~ \E k \in DOMAIN n.updates : k > i /\ Names(n.updates[k].path) = Names(n.updates[i].path)
    PROVE  Key(NokiaUpdate(n), Names(n.updates[i].path)) = NokiaValue(n.updates[i].val)
<1> DEFINE us == n.updates
           N == Len(us)
           p == Names(us[i].path)
           v == NokiaValue(us[i].val)
           root == Roots(us)
           G == {j \in Nat : j >= i /\ j <= N => p \in DOMAIN root[j] /\ root[j][p] = v}
<1>1. N \in Nat /\ DOMAIN us = 1..N
    BY LenProperties DEF IsSequence
<1>2. i \in 1..N /\ i \in Nat
    BY <1>1
<1>3. \A j \in 1..N : root[j] = With(root[j - 1], NokiaPath(us, j), NokiaValue(us[j].val))
    BY <1>1, RootsTrace
<1>4. NokiaUpdate(n) = Obj(root[N])
    BY NokiaUpdateLast
<1>5. \A k \in DOMAIN us : k > i => Names(us[k].path) # p
    OBVIOUS
<1> HIDE DEF us, N, p, v, root
<1>6. 0 \in G
    BY <1>2
<1>7. ASSUME NEW j \in Nat, j \in G PROVE j + 1 \in G
    <2> SUFFICES ASSUME j + 1 >= i, j + 1 <= N PROVE p \in DOMAIN root[j + 1] /\ root[j + 1][p] = v
        OBVIOUS
    <2> DEFINE k == j + 1
               q == Names(us[k].path)
               x == NokiaValue(us[k].val)
               r == root[j]
    <2>1. k \in 1..N /\ k - 1 = j /\ k \in DOMAIN us
        BY <1>1
    <2>2. root[k] = With(r, q, x)
        BY <1>3, <2>1 DEF NokiaPath
    <2>3. CASE k = i
        <3>1. q = p /\ x = v
            BY <2>3 DEF p, v
        <3> HIDE DEF k, q, x, r
        <3>2. p \in DOMAIN root[k] /\ root[k][p] = v
            BY <2>2, <3>1 DEF With
        <3> QED BY <3>2 DEF k
    <2>4. CASE k # i
        <3>1. k > i /\ j >= i /\ j <= N
            BY <1>1, <1>2, <2>1, <2>4
        <3>2. p \in DOMAIN r /\ r[p] = v
            BY <1>7, <3>1
        <3>3. q # p
            BY <1>5, <2>1, <3>1
        <3> HIDE DEF k, q, x, r
        <3>4. p \in DOMAIN root[k] /\ root[k][p] = v
            BY <2>2, <3>2, <3>3 DEF With
        <3> QED BY <3>4 DEF k
    <2> QED BY <2>3, <2>4
<1>8. N \in G
    <2> HIDE DEF G
    <2> QED BY <1>1, <1>6, <1>7, Induction
<1>9. p \in DOMAIN root[N] /\ root[N][p] = v
    BY <1>1, <1>2, <1>8
<1>10. Key(Obj(root[N]), p) = v
    BY <1>9, KeyOfObject
<1> QED BY <1>4, <1>10 DEF p, v, us

\* What is delivered is made of the last message.
LEMMA BodyDelivered ==
    ASSUME IInv, NEW kind, Delivered(kind)
    PROVE  /\ input.message.kind = kind /\ loaded \in Files /\ input \in Inputs(loaded)
           /\ payload.telemetry_data = BodyOf(input.message)
<1>1. payload # NoPayload /\ input # NoInput /\ input.message.kind = kind
    BY DEF Delivered
<1>2. loaded # NoFile /\ input \in Inputs(loaded) /\ payload = Record
    BY <1>1 DEF IInv, RecordInv
<1>3. loaded \in Files /\ method \in {"Kafka", "Zmq"}
    BY <1>2 DEF IInv, LoadedInv
<1>4. Record.telemetry_data = BodyOf(input.message)
    <2>1. CASE method = "Zmq"
        BY <2>1 DEF Record, BuildDataWrapper
    <2>2. CASE method = "Kafka"
        BY <2>2 DEF Record, BuildEnvelope
    <2> QED BY <1>3, <2>1, <2>2
<1> QED BY <1>1, <1>2, <1>3, <1>4

\* "metrics" of the JSON object, absent when it is empty.
LEMMA JuniperTree ==
    ASSUME NEW n
    PROVE  ObjectOf(Key(JuniperUpdate(n), "metrics")) = JuniperMetrics(n.updates)
<1> DEFINE metrics == JuniperMetrics(n.updates)
           root == [k \in IF metrics = NoKeys THEN {} ELSE {"metrics"} |-> Obj(metrics)]
<1>1. JuniperUpdate(n) = Obj(root)
    BY DEF JuniperUpdate
<1> HIDE DEF metrics
<1>2. Key(Obj(root), "metrics") = IF metrics = NoKeys THEN Null ELSE Obj(metrics)
    <2> HIDE DEF root
    <2>1. Key(Obj(root), "metrics") = IF "metrics" \in DOMAIN root THEN root["metrics"] ELSE Null
        BY KeyOfObject
    <2> QED BY <2>1 DEF root
<1>3. ObjectOf(Obj(metrics)) = metrics
    BY KeyOfObject DEF ObjectOf
<1>4. ObjectOf(Key(Obj(root), "metrics")) = metrics
    BY <1>2, <1>3, NoNames
<1> QED BY <1>1, <1>4 DEF metrics

\* The updates of a notification are in the record that is delivered, each at
\* its path, unless a later one replaced it or a header did not parse.
THEOREM GnmiUpdatesVisibleHolds == Spec => []GnmiUpdatesVisible
<1>1. IInv => GnmiUpdatesVisible
    <2> SUFFICES ASSUME IInv PROVE GnmiUpdatesVisible
        OBVIOUS
    <2> DEFINE m == input.message
               us == input.message.updates
    <2>1. ASSUME NEW kind \in {"juniper", "nokia"}, Delivered(kind)
          PROVE  /\ m.kind = kind /\ payload.telemetry_data = BodyOf(m)
                 /\ IsSequence(us) /\ \A i \in DOMAIN us : IsSequence(us[i].path)
        <3>1. /\ m.kind = kind /\ loaded \in Files /\ input \in Inputs(loaded)
              /\ payload.telemetry_data = BodyOf(m)
            BY <2>1, BodyDelivered
        <3>2. m \in UNION {{in.message : in \in Inputs(w)} : w \in Files}
            BY <3>1
        <3> HIDE DEF m
        <3>3. /\ IsSequence(m.updates) /\ \A i \in DOMAIN m.updates : IsSequence(m.updates[i].path)
            BY <3>1, <3>2, MessagesAssumption
        <3> QED BY <3>1, <3>3 DEF m
    <2>2. ASSUME Delivered("juniper"), JuniperExtension(m), NEW i \in DOMAIN us,
                 PathNames(us[i].path) # <<>>,
                 ~ \E k \in DOMAIN us : /\ k > i /\ PathNames(us[k].path) # <<>>
                                        /\ Related(PathNames(us[i].path), PathNames(us[k].path))
          PROVE  Lookup(ObjectOf(Key(payload.telemetry_data.json, "metrics")), PathNames(us[i].path))
                    = JuniperValue(us[i].val)
        <3>1. /\ m.kind = "juniper" /\ payload.telemetry_data = BodyOf(m)
              /\ IsSequence(us) /\ \A j \in DOMAIN us : IsSequence(us[j].path)
            BY <2>1, <2>2
        <3>2. payload.telemetry_data.json = JuniperUpdate(m)
            BY <2>2, <3>1 DEF BodyOf
        <3>3. ObjectOf(Key(payload.telemetry_data.json, "metrics")) = JuniperMetrics(us)
            BY <3>2, JuniperTree
        <3> HIDE DEF us
        <3> QED BY <2>2, <3>1, <3>3, JuniperVisible
    <2>3. ASSUME Delivered("juniper"), ~JuniperExtension(m)
          PROVE  payload.telemetry_data = EmptyText
        BY <2>1, <2>3 DEF BodyOf
    <2>4. ASSUME Delivered("nokia"), NEW i \in DOMAIN us,
                 ~ \E k \in DOMAIN us : k > i /\ Names(us[k].path) = Names(us[i].path)
          PROVE  Key(payload.telemetry_data.json, Names(us[i].path)) = NokiaValue(us[i].val)
        <3>1. m.kind = "nokia" /\ payload.telemetry_data = BodyOf(m) /\ IsSequence(us)
            BY <2>1, <2>4
        <3>2. payload.telemetry_data.json = NokiaUpdate(m)
            BY <3>1 DEF BodyOf
        <3>3. Key(NokiaUpdate(m), Names(us[i].path)) = NokiaValue(us[i].val)
            <4> HIDE DEF m
            <4> QED BY <2>4, <3>1, NokiaVisible DEF m
        <3> QED BY <3>2, <3>3
    <2> QED BY <2>2, <2>3, <2>4 DEF GnmiUpdatesVisible
<1> QED BY <1>1, Invariant, PTL

-----------------------------------------------------------------------------
(* The fields of a Cisco message.                                          *)

\* The JSON values of a field's sub-fields.
Subs(f, json) == [i \in DOMAIN f.fields |-> NamedField(f.fields[i], json[f.fields[i]])]

\* What the assumption on Fields says of one of them.
LEMMA FieldTypes ==
    ASSUME NEW f \in Fields
    PROVE  /\ f.fields \in Seq(Fields) /\ DOMAIN f.fields = 1..Len(f.fields) /\ Len(f.fields) \in Nat
           /\ \A i \in DOMAIN f.fields : f.fields[i] \in Fields /\ Depth(f.fields[i]) < Depth(f)
           /\ Depth(f) \in Nat /\ MaxDepth \in Nat /\ Depth(f) < MaxDepth + 1
           /\ f.value.t \in {"null", "scalar"}
<1>1. f.fields \in Seq(ToSet(f.fields)) /\ f.value.t \in {"null", "scalar"}
    BY FieldsAssumption DEF IsSequence
<1>2. ToSet(f.fields) \subseteq Fields
    BY FieldsAssumption
<1>3. f.fields \in Seq(Fields)
    BY <1>1, <1>2, SeqMonotonic
<1>4. DOMAIN f.fields = 1..Len(f.fields) /\ Len(f.fields) \in Nat /\ \A i \in 1..Len(f.fields) : f.fields[i] \in Fields
    BY <1>3, LenProperties
<1>5. \A i \in DOMAIN f.fields : Depth(f.fields[i]) < Depth(f)
    BY FieldsAssumption
<1>6. Depth(f) \in 0..MaxDepth /\ MaxDepth \in Nat
    BY FieldsAssumption
<1> DEFINE d == Depth(f)
<1> HIDE DEF d
<1>7. d \in 0..MaxDepth
    BY <1>6 DEF d
<1>8. d \in Nat /\ d < MaxDepth + 1
    BY <1>6, <1>7
<1>9. Depth(f) \in Nat /\ Depth(f) < MaxDepth + 1
    BY <1>8 DEF d
<1> QED BY <1>1, <1>3, <1>4, <1>5, <1>6, <1>9

\* The recursion over the sub-fields is well-founded, for fields nest to some
\* depth only: its function exists.
LEMMA FieldJsonDefined ==
    \A f \in Fields : CiscoGpbkvField2Json[f] = FieldJson(f, Subs(f, CiscoGpbkvField2Json))
<1> DEFINE D(n) == {f \in Fields : Depth(f) < n}
           Run(n, g) == g = [f \in D(n) |-> FieldJson(f, Subs(f, g))]
           G == {n \in Nat : \E g : Run(n, g)}
<1>1. 0 \in G
    <2>1. D(0) = {}
        BY FieldTypes
    <2>2. Run(0, [f \in D(0) |-> Null])
        BY <2>1
    <2> QED BY <2>2
<1>2. ASSUME NEW n \in Nat, n \in G PROVE n + 1 \in G
    <2>1. PICK g : Run(n, g)
        BY <1>2
    <2> DEFINE h == [f \in D(n + 1) |-> FieldJson(f, Subs(f, g))]
    <2>2. ASSUME NEW f \in D(n + 1) PROVE Subs(f, h) = Subs(f, g)
        <3>1. ASSUME NEW i \in DOMAIN f.fields PROVE h[f.fields[i]] = g[f.fields[i]]
            <4> DEFINE x == f.fields[i]
            <4>1. x \in Fields /\ Depth(x) < Depth(f) /\ Depth(x) \in Nat /\ Depth(f) \in Nat /\ Depth(f) < n + 1
                BY <3>1, FieldTypes
            <4> HIDE DEF x
            <4>2. Depth(x) < n /\ Depth(x) < n + 1
                BY <4>1
            <4>3. x \in D(n) /\ x \in D(n + 1)
                BY <4>1, <4>2
            <4>4. g[x] = FieldJson(x, Subs(x, g)) /\ h[x] = FieldJson(x, Subs(x, g))
                BY <2>1, <4>3
            <4> QED BY <4>4 DEF x
        <3> HIDE DEF h
        <3> QED BY <3>1 DEF Subs
    <2>3. Run(n + 1, h)
        <3>1. \A f \in D(n + 1) : FieldJson(f, Subs(f, g)) = FieldJson(f, Subs(f, h))
            BY <2>2
        <3> HIDE DEF D
        <3>2. [f \in D(n + 1) |-> FieldJson(f, Subs(f, g))] = [f \in D(n + 1) |-> FieldJson(f, Subs(f, h))]
            BY <3>1, Zenon
        <3> QED BY <3>2
    <2> HIDE DEF Run, h
    <2> QED BY <2>3
<1>3. CASE Fields = {}
    BY <1>3
<1>4. CASE Fields # {}
    <2>1. MaxDepth + 1 \in Nat
        BY <1>4, FieldTypes
    <2>2. MaxDepth + 1 \in G
        <3>1. \A n \in Nat : n \in G
            <4> HIDE DEF G
            <4> QED BY <1>1, <1>2, Induction
        <3> QED BY <2>1, <3>1
    <2>3. D(MaxDepth + 1) = Fields
        BY FieldTypes
    <2> DEFINE All(g) == g = [f \in Fields |-> FieldJson(f, Subs(f, g))]
    <2>4. PICK g : All(g)
        BY <2>2, <2>3
    <2>5. All(CHOOSE F : All(F))
        BY <2>4, Zenon
    <2>6. CiscoGpbkvField2Json = CHOOSE F : All(F)
        BY DEF CiscoGpbkvField2Json, Subs
    <2> DEFINE json == CiscoGpbkvField2Json
    <2> HIDE DEF json
    <2>7. json = [f \in Fields |-> FieldJson(f, Subs(f, json))]
        <3>1. All(json)
            <4> HIDE DEF All
            <4> QED BY <2>5, <2>6 DEF json
        <3> QED BY <3>1
    <2>8. \A f \in Fields : json[f] = FieldJson(f, Subs(f, json))
        BY <2>7
    <2> QED BY <2>8 DEF json
<1> QED BY <1>3, <1>4

\* A field's JSON value holds its own value and its sub-fields, and no more.
LEMMA FieldJsonParts ==
    ASSUME NEW f \in Fields, NEW subs
    PROVE  OwnValue(FieldJson(f, subs)) = f.value /\ SubFields(FieldJson(f, subs)) = subs
<1> DEFINE keys == (IF f.timestamp # 0 THEN {"timestamp"} ELSE {})
                   \cup (IF subs # <<>> THEN {"fields"} ELSE {})
           names == keys \cup (IF f.value # Null THEN {"value"} ELSE {})
           m == [k \in names |->
                    CASE k = "timestamp" -> Scalar("time")
                      [] k = "fields"    -> Arr(subs)
                      [] k = "value"     -> f.value]
           json == FieldJson(f, subs)
<1>1. json = IF keys = {} THEN f.value ELSE Obj(m)
    BY DEF FieldJson
<1>2. f.value.t # "object"
    BY FieldTypes
<1>3. Arr(subs) # Null /\ Arr(subs).a = subs
    BY DEF Arr, Null
<1>4. CASE keys = {}
    <2>1. subs = <<>>
        BY <1>4
    <2>2. json = f.value
        BY <1>1, <1>4
    <2> HIDE DEF json, keys, names, m
    <2> QED BY <1>2, <2>1, <2>2 DEF OwnValue, SubFields, Key, json
<1>5. CASE keys # {}
    <2>1. json = Obj(m)
        BY <1>1, <1>5
    <2>2. "value" \in names <=> f.value # Null
        OBVIOUS
    <2>3. "value" \in names => m["value"] = f.value
        OBVIOUS
    <2>4. "fields" \in names <=> subs # <<>>
        OBVIOUS
    <2>5. "fields" \in names => m["fields"] = Arr(subs)
        OBVIOUS
    <2>6. DOMAIN m = names
        OBVIOUS
    <2> HIDE DEF json, keys, names, m
    <2>7. Key(json, "value") = f.value
        BY <2>1, <2>2, <2>3, <2>6, KeyOfObject
    <2>8. Key(json, "fields") = IF subs # <<>> THEN Arr(subs) ELSE Null
        BY <2>1, <2>4, <2>5, <2>6, KeyOfObject
    <2>9. json.t = "object"
        BY <2>1, KeyOfObject
    <2>10. OwnValue(json) = f.value
        BY <2>7, <2>9 DEF OwnValue
    <2>11. SubFields(json) = subs
        BY <1>3, <2>8 DEF SubFields
    <2> QED BY <2>10, <2>11 DEF json
<1> QED BY <1>4, <1>5

\* Behind its name is the value that was put there.
LEMMA UnnamedNamed ==
    ASSUME NEW f, NEW json
    PROVE  Unnamed(f, NamedField(f, json)) = json
BY DEF Unnamed, NamedField, Obj

\* The JSON values on the way to a place.
JsonOn(rows, json, place) ==
    LET at[k \in 1..Len(place)] ==
            Unnamed(FieldsOn(rows, place)[k],
                    IF k = 1 THEN Key(json, "data_gpbkv").a[place[1]] ELSE SubFields(at[k - 1])[place[k]])
    IN  at

\* The fields on the way to a place.
LEMMA FieldsOnTrace ==
    ASSUME NEW rows, NEW place, Len(place) \in Nat, Len(place) # 0
    PROVE  /\ FieldsOn(rows, place)[1] = rows[place[1]]
           /\ \A i \in 2..Len(place) : FieldsOn(rows, place)[i] = FieldsOn(rows, place)[i - 1].fields[place[i]]
<1> DEFINE Run(n, f) == f = [i \in 1..n |-> IF i = 1 THEN rows[place[1]] ELSE f[i - 1].fields[place[i]]]
           G == {n \in Nat : \E f : Run(n, f)}
<1>1. 0 \in G
    <2> Run(0, [i \in 1..0 |-> rows[place[1]]])
        OBVIOUS
    <2> QED OBVIOUS
<1>2. ASSUME NEW n \in Nat, n \in G PROVE n + 1 \in G
    <2>1. PICK f : Run(n, f)
        BY <1>2
    <2> DEFINE g == [i \in 1..(n + 1) |->
                        IF i <= n THEN f[i] ELSE IF i = 1 THEN rows[place[1]] ELSE f[n].fields[place[(n + 1)]]]
    <2>2. ASSUME NEW i \in 1..(n + 1)
          PROVE  g[i] = IF i = 1 THEN rows[place[1]] ELSE g[i - 1].fields[place[i]]
        <3>1. CASE i = 1
            BY <2>1, <3>1
        <3>2. CASE i \in 2..n
            <4>1. i \in 1..n /\ i - 1 \in 1..n /\ i # 1 /\ i <= n /\ i - 1 <= n
                BY <3>2
            <4>2. f[i] = f[i - 1].fields[place[i]]
                BY <2>1, <4>1
            <4>3. g[i] = f[i] /\ g[i - 1] = f[i - 1]
                BY <4>1
            <4> HIDE DEF g
            <4> QED BY <4>1, <4>2, <4>3
        <3>3. CASE i = n + 1 /\ i # 1
            BY <3>3
        <3> QED BY <3>1, <3>2, <3>3
    <2>3. Run(n + 1, g)
        BY <2>2, Zenon
    <2> HIDE DEF Run, g
    <2> QED BY <2>3
<1>3. Len(place) \in G
    <2> HIDE DEF G
    <2> QED BY <1>1, <1>2, Induction
<1>4. Run(Len(place), FieldsOn(rows, place))
    <2>1. PICK f : Run(Len(place), f)
        BY <1>3
    <2>2. Run(Len(place), CHOOSE g : Run(Len(place), g))
        BY <2>1, Zenon
    <2>3. FieldsOn(rows, place) = CHOOSE g : Run(Len(place), g)
        BY DEF FieldsOn
    <2> HIDE DEF Run
    <2> QED BY <2>2, <2>3
<1> DEFINE run == FieldsOn(rows, place)
<1> HIDE DEF run
<1>5. run = [i \in 1..Len(place) |-> IF i = 1 THEN rows[place[1]] ELSE run[i - 1].fields[place[i]]]
    BY <1>4 DEF run
<1>6. run[1] = rows[place[1]]
    BY <1>5
<1>7. \A i \in 2..Len(place) : run[i] = run[i - 1].fields[place[i]]
    BY <1>5
<1> QED BY <1>6, <1>7 DEF run

\* The JSON values on the way to a place.
LEMMA JsonOnTrace ==
    ASSUME NEW rows, NEW json, NEW place, Len(place) \in Nat, Len(place) # 0
    PROVE  \A i \in 1..Len(place) :
               JsonOn(rows, json, place)[i] =
                   Unnamed(FieldsOn(rows, place)[i], 
                           IF i = 1 THEN Key(json, "data_gpbkv").a[place[1]]
                           ELSE SubFields(JsonOn(rows, json, place)[i - 1])[place[i]])
<1> DEFINE Step(f, i) ==
               Unnamed(FieldsOn(rows, place)[i], 
                       IF i = 1 THEN Key(json, "data_gpbkv").a[place[1]] ELSE SubFields(f[i - 1])[place[i]])
           Run(n, f) == f = [i \in 1..n |-> Step(f, i)]
           G == {n \in Nat : \E f : Run(n, f)}
<1>1. 0 \in G
    <2> Run(0, [i \in 1..0 |-> Null])
        OBVIOUS
    <2> QED OBVIOUS
<1>2. ASSUME NEW n \in Nat, n \in G PROVE n + 1 \in G
    <2>1. PICK f : Run(n, f)
        BY <1>2
    <2> DEFINE g == [i \in 1..(n + 1) |-> IF i <= n THEN f[i] ELSE Step(f, n + 1)]
    <2>2. ASSUME NEW i \in 1..(n + 1)
          PROVE  g[i] = Step(g, i)
        <3>1. CASE i = 1 /\ n = 0
            BY <3>1
        <3>2. CASE i = 1 /\ n # 0
            BY <2>1, <3>2
        <3>3. CASE i \in 2..n
            <4>1. i \in 1..n /\ i - 1 \in 1..n /\ i - 1 \in 1..(n + 1) /\ i # 1 /\ i <= n /\ i - 1 <= n
                BY <3>3
            <4>2. f[i] = Step(f, i)
                BY <2>1, <4>1
            <4>3. g[i] = f[i] /\ g[i - 1] = f[i - 1]
                BY <4>1
            <4> HIDE DEF g
            <4>4. Step(g, i) = Step(f, i)
                BY <4>1, <4>3
            <4> QED BY <4>2, <4>3, <4>4
        <3>4. CASE i = n + 1 /\ i # 1
            BY <3>4
        <3> QED BY <3>1, <3>2, <3>3, <3>4
    <2>3. Run(n + 1, g)
        BY <2>2, Zenon
    <2> HIDE DEF Run, g
    <2> QED BY <2>3
<1>3. Len(place) \in G
    <2> HIDE DEF G
    <2> QED BY <1>1, <1>2, Induction
<1>4. Run(Len(place), JsonOn(rows, json, place))
    <2>1. PICK f : Run(Len(place), f)
        BY <1>3
    <2>2. Run(Len(place), CHOOSE g : Run(Len(place), g))
        BY <2>1, Zenon
    <2>3. JsonOn(rows, json, place) = CHOOSE g : Run(Len(place), g)
        BY DEF JsonOn
    <2> HIDE DEF Run
    <2> QED BY <2>2, <2>3
<1> DEFINE run == JsonOn(rows, json, place)
<1> HIDE DEF run
<1>5. run = [i \in 1..Len(place) |-> Step(run, i)]
    BY <1>4 DEF run
<1>6. \A i \in 1..Len(place) : run[i] = Step(run, i)
    BY <1>5
<1> QED BY <1>6 DEF run

\* At every place of a message is the JSON value of the field there.
LEMMA JsonOfPlace ==
    ASSUME NEW rows \in Seq(Fields), NEW place \in Seq(Nat \ {0}), IsPlace(rows, place),
           NEW json,
           Key(json, "data_gpbkv").a = [i \in DOMAIN rows |-> NamedField(rows[i], CiscoGpbkvField2Json[rows[i]])]
    PROVE  /\ FieldAt(rows, place) \in Fields
           /\ JsonAt(rows, json, place) = CiscoGpbkvField2Json[FieldAt(rows, place)]
<1> DEFINE n == Len(place)
           at == FieldsOn(rows, place)
           jat == JsonOn(rows, json, place)
           J == CiscoGpbkvField2Json
           G == {k \in Nat : k \in 1..n => at[k] \in Fields /\ jat[k] = J[at[k]]}
<1>1. n \in Nat /\ n # 0
    BY LenProperties, EmptySeq DEF IsPlace
<1>2. place[1] \in DOMAIN rows /\ \A k \in 2..n : place[k] \in DOMAIN at[k - 1].fields
    BY DEF IsPlace
<1>3. at[1] = rows[place[1]] /\ \A k \in 2..n : at[k] = at[k - 1].fields[place[k]]
    BY <1>1, FieldsOnTrace
<1>4. \A k \in 1..n :
        jat[k] = Unnamed(at[k], IF k = 1 THEN Key(json, "data_gpbkv").a[place[1]] ELSE SubFields(jat[k - 1])[place[k]])
    BY <1>1, JsonOnTrace
<1>5. JsonAt(rows, json, place) = jat[n] /\ FieldAt(rows, place) = at[n]
    BY DEF JsonAt, JsonOn, FieldAt
<1>6. Key(json, "data_gpbkv").a[place[1]] = NamedField(rows[place[1]], J[rows[place[1]]]) /\ rows[place[1]] \in Fields
    <2>1. \A i \in DOMAIN rows : rows[i] \in Fields
        BY LenProperties
    <2> QED BY <1>2, <2>1
<1> HIDE DEF n, at, jat, J
<1>7. 0 \in G
    OBVIOUS
<1>8. ASSUME NEW k \in Nat, k \in G PROVE k + 1 \in G
    <2> SUFFICES ASSUME k + 1 \in 1..n PROVE at[k + 1] \in Fields /\ jat[k + 1] = J[at[k + 1]]
        OBVIOUS
    <2>1. CASE k = 0
        <3>1. at[1] \in Fields
            BY <1>3, <1>6
        <3>2. jat[1] = Unnamed(at[1], NamedField(at[1], J[at[1]]))
            <4>1. 1 \in 1..n
                BY <1>1
            <4> QED BY <1>3, <1>4, <1>6, <4>1
        <3>3. jat[1] = J[at[1]]
            BY <3>2, UnnamedNamed
        <3> QED BY <2>1, <3>1, <3>3
    <2>2. CASE k # 0
        <3> DEFINE f == at[k]
                   g == at[k + 1]
                   i == place[k + 1]
        <3>1. k \in 1..n /\ k + 1 \in 2..n /\ (k + 1) - 1 = k /\ k + 1 # 1
            BY <1>1, <2>2
        <3>2. f \in Fields /\ jat[k] = J[f]
            BY <1>8, <3>1
        <3>3. i \in DOMAIN f.fields /\ g = f.fields[i]
            BY <1>2, <1>3, <3>1
        <3>4. jat[k + 1] = Unnamed(g, SubFields(J[f])[i])
            BY <1>4, <3>1, <3>2
        <3> HIDE DEF f, g, i
        <3>5. J[f] = FieldJson(f, Subs(f, J))
            BY <3>2, FieldJsonDefined DEF J
        <3>6. SubFields(J[f]) = Subs(f, J)
            BY <3>2, <3>5, FieldJsonParts
        <3>7. SubFields(J[f])[i] = NamedField(g, J[g])
            BY <3>3, <3>6 DEF Subs
        <3>8. Unnamed(g, NamedField(g, J[g])) = J[g]
            BY UnnamedNamed
        <3>9. g \in Fields
            BY <3>2, <3>3, FieldTypes
        <3>10. jat[k + 1] = J[g]
            BY <3>4, <3>7, <3>8
        <3> QED BY <3>9, <3>10 DEF g
    <2> QED BY <2>1, <2>2
<1>9. n \in G
    <2> HIDE DEF G
    <2> QED BY <1>1, <1>7, <1>8, Induction
<1>10. at[n] \in Fields /\ jat[n] = J[at[n]]
    BY <1>1, <1>9
<1> QED BY <1>5, <1>10 DEF J

\* Every field of a Cisco message, at any depth, is in the record that is
\* delivered, at its place, with its own value and all its sub-fields.
THEOREM CiscoLeavesKeptHolds == Spec => []CiscoLeavesKept
<1>1. IInv => CiscoLeavesKept
    <2> SUFFICES ASSUME IInv, Delivered("cisco")
                 PROVE  LET rows == input.message.rows
                            json == payload.telemetry_data.json
                        IN  /\ Len(Key(json, "data_gpbkv").a) = Len(rows)
                            /\ \A place \in Places : IsPlace(rows, place) =>
                                  /\ OwnValue(JsonAt(rows, json, place)) = FieldAt(rows, place).value
                                  /\ Len(SubFields(JsonAt(rows, json, place))) = Len(FieldAt(rows, place).fields)
        BY DEF CiscoLeavesKept
    <2> DEFINE m == input.message
               rows == input.message.rows
               json == payload.telemetry_data.json
               J == CiscoGpbkvField2Json
               array == [i \in DOMAIN rows |-> NamedField(rows[i], J[rows[i]])]
    <2>1. /\ m.kind = "cisco" /\ loaded \in Files /\ input \in Inputs(loaded)
          /\ payload.telemetry_data = BodyOf(m)
        BY BodyDelivered
    <2>2. rows \in Seq(Fields)
        <3>1. m \in UNION {{in.message : in \in Inputs(w)} : w \in Files}
            BY <2>1
        <3>2. IsSequence(m.rows) /\ ToSet(m.rows) \subseteq Fields
            <4> HIDE DEF m
            <4> QED BY <2>1, <3>1, MessagesAssumption
        <3> HIDE DEF rows
        <3>3. rows \in Seq(ToSet(rows)) /\ ToSet(rows) \subseteq Fields
            BY <3>2 DEF IsSequence, rows
        <3> QED BY <3>3, SeqMonotonic
    <2>3. json = CiscoGpbkv2Json(rows)
        BY <2>1 DEF BodyOf
    <2>4. Key(json, "data_gpbkv") = Arr(array)
        <3> HIDE DEF json, rows
        <3> QED BY <2>3, KeyOfObject DEF CiscoGpbkv2Json
    <2>5. Key(json, "data_gpbkv").a = array
        BY <2>4 DEF Arr
    <2> HIDE DEF m, rows, json, J
    <2>6. Len(array) = Len(rows)
        <3>1. DOMAIN rows = 1..Len(rows) /\ Len(rows) \in Nat
            BY <2>2, LenProperties
        <3> QED BY <3>1
    <2>7. ASSUME NEW place \in Places, IsPlace(rows, place)
          PROVE  /\ OwnValue(JsonAt(rows, json, place)) = FieldAt(rows, place).value
                 /\ Len(SubFields(JsonAt(rows, json, place))) = Len(FieldAt(rows, place).fields)
        <3> DEFINE f == FieldAt(rows, place)
        <3>1. place \in Seq(Nat \ {0})
            BY PlacesAssumption
        <3>2. Key(json, "data_gpbkv").a = [i \in DOMAIN rows |-> NamedField(rows[i], CiscoGpbkvField2Json[rows[i]])]
            BY <2>5 DEF J
        <3>3. f \in Fields /\ JsonAt(rows, json, place) = J[f]
            BY <2>2, <2>7, <3>1, <3>2, JsonOfPlace DEF J
        <3> HIDE DEF f
        <3>4. J[f] = FieldJson(f, Subs(f, J))
            BY <3>3, FieldJsonDefined DEF J
        <3>5. OwnValue(J[f]) = f.value /\ SubFields(J[f]) = Subs(f, J)
            BY <3>3, <3>4, FieldJsonParts
        <3>6. Len(Subs(f, J)) = Len(f.fields)
            <4>1. DOMAIN f.fields = 1..Len(f.fields) /\ Len(f.fields) \in Nat
                BY <3>3, FieldTypes
            <4> QED BY <4>1 DEF Subs
        <3> QED BY <3>3, <3>5, <3>6 DEF f
    <2> HIDE DEF array
    <2>8. Len(Key(json, "data_gpbkv").a) = Len(rows)
        BY <2>5, <2>6
    <2> QED BY <2>7, <2>8 DEF rows, json
<1> QED BY <1>1, Invariant, PTL

-----------------------------------------------------------------------------
(* How deep the JSON values nest, and what ends the process.               *)

\* The values in some values, and the levels of a value.
Below(values) == UNION {Parts(v) : v \in values}

Levels(json, n) ==
    LET level[k \in 0..n] == IF k = 0 THEN {json} ELSE UNION {Parts(v) : v \in level[k - 1]}
    IN  level

\* Each level holds the values in those of the one above it.
LEMMA LevelTrace ==
    ASSUME NEW json, NEW last \in Nat
    PROVE  /\ Levels(json, last)[0] = {json}
           /\ \A i \in 1..last : Levels(json, last)[i] = Below(Levels(json, last)[i - 1])
<1> DEFINE base == {json}
           Run(n, f) == f = [i \in 0..n |-> IF i = 0 THEN base ELSE Below(f[i - 1])]
           G == {n \in Nat : \E f : Run(n, f)}
<1> HIDE DEF base
<1>1. 0 \in G
    <2> Run(0, [i \in 0..0 |-> base])
        OBVIOUS
    <2> QED OBVIOUS
<1>2. ASSUME NEW n \in Nat, n \in G PROVE n + 1 \in G
    <2>1. PICK f : Run(n, f)
        BY <1>2
    <2> DEFINE g == [i \in 0..(n + 1) |-> IF i <= n THEN f[i] ELSE Below(f[n])]
    <2>2. ASSUME NEW i \in 0..(n + 1)
          PROVE  g[i] = IF i = 0 THEN base ELSE Below(g[i - 1])
        <3>1. CASE i = 0
            BY <2>1, <3>1
        <3>2. CASE i \in 1..n
            BY <2>1, <3>2
        <3>3. CASE i = n + 1
            BY <3>3
        <3> QED BY <3>1, <3>2, <3>3
    <2>3. Run(n + 1, g)
        BY <2>2, Zenon
    <2> HIDE DEF Run, g
    <2> QED BY <2>3
<1>3. last \in G
    <2> HIDE DEF G
    <2> QED BY <1>1, <1>2, Induction
<1>4. Run(last, Levels(json, last))
    <2>1. PICK f : Run(last, f)
        BY <1>3
    <2>2. Run(last, CHOOSE g : Run(last, g))
        BY <2>1, Zenon
    <2>3. Levels(json, last) = CHOOSE g : Run(last, g)
        BY DEF Levels, Below, base
    <2> HIDE DEF Run
    <2> QED BY <2>2, <2>3
<1> DEFINE run == Levels(json, last)
<1> HIDE DEF run
<1>5. run = [i \in 0..last |-> IF i = 0 THEN base ELSE Below(run[i - 1])]
    BY <1>4 DEF run
<1>6. run[0] = base
    BY <1>5
<1>7. \A i \in 1..last : run[i] = Below(run[i - 1])
    BY <1>5
<1> QED BY <1>6, <1>7 DEF run, base

\* The levels do not depend on how many are looked at.
LEMMA LevelSteps ==
    ASSUME NEW json
    PROVE  /\ Level(json, 0) = {json}
           /\ \A n \in Nat : Level(json, n + 1) = UNION {Parts(v) : v \in Level(json, n)}
<1>1. \A n \in Nat : Level(json, n) = Levels(json, n)[n]
    BY DEF Level, Levels
<1>2. Level(json, 0) = {json}
    <2>1. Level(json, 0) = Levels(json, 0)[0]
        BY <1>1
    <2> QED BY <2>1, LevelTrace
<1>3. ASSUME NEW n \in Nat PROVE Level(json, n + 1) = UNION {Parts(v) : v \in Level(json, n)}
    <2> DEFINE f == Levels(json, n)
               g == Levels(json, n + 1)
               G == {k \in Nat : k <= n => g[k] = f[k]}
    <2>1. f[0] = {json} /\ \A i \in 1..n : f[i] = Below(f[i - 1])
        BY LevelTrace
    <2>2. g[0] = {json} /\ \A i \in 1..(n + 1) : g[i] = Below(g[i - 1])
        BY LevelTrace
    <2>3. Level(json, n) = f[n] /\ Level(json, n + 1) = g[n + 1]
        BY <1>1
    <2> HIDE DEF f, g
    <2>4. 0 \in G
        BY <2>1, <2>2
    <2>5. ASSUME NEW k \in Nat, k \in G PROVE k + 1 \in G
        <3> SUFFICES ASSUME k + 1 <= n PROVE g[k + 1] = f[k + 1]
            OBVIOUS
        <3>1. k + 1 \in 1..n /\ k + 1 \in 1..(n + 1) /\ (k + 1) - 1 = k /\ k <= n
            OBVIOUS
        <3>2. g[k] = f[k]
            BY <2>5, <3>1
        <3>3. f[k + 1] = Below(f[k]) /\ g[k + 1] = Below(g[k])
            BY <2>1, <2>2, <3>1
        <3> QED BY <3>2, <3>3
    <2>6. n \in G
        <3> HIDE DEF G
        <3> QED BY <2>4, <2>5, Induction
    <2>7. g[n + 1] = Below(g[n]) /\ g[n] = f[n]
        <3>1. n + 1 \in 1..(n + 1) /\ (n + 1) - 1 = n
            OBVIOUS
        <3> QED BY <2>2, <2>6, <3>1
    <2>8. Level(json, n + 1) = Below(Level(json, n))
        BY <2>3, <2>7
    <2> QED BY <2>8 DEF Below
<1> QED BY <1>2, <1>3

\* The levels below a value are those of the values in it.
LEMMA LevelFront ==
    ASSUME NEW json
    PROVE  \A n \in Nat : Level(json, n + 1) = UNION {Level(v, n) : v \in Parts(json)}
<1> DEFINE G == {n \in Nat : Level(json, n + 1) = UNION {Level(v, n) : v \in Parts(json)}}
<1>1. 0 \in G
    <2>1. Level(json, 0 + 1) = UNION {Parts(v) : v \in {json}}
        BY LevelSteps
    <2>2. \A v : Level(v, 0) = {v}
        BY LevelSteps
    <2>3. UNION {Level(v, 0) : v \in Parts(json)} = Parts(json)
        BY <2>2
    <2>4. Level(json, 0 + 1) = Parts(json)
        BY <2>1
    <2> QED BY <2>3, <2>4
<1>2. ASSUME NEW n \in Nat, n \in G PROVE n + 1 \in G
    <2>1. Level(json, n + 1 + 1) = UNION {Parts(v) : v \in Level(json, n + 1)}
        BY LevelSteps
    <2>2. Level(json, n + 1) = UNION {Level(v, n) : v \in Parts(json)}
        BY <1>2
    <2>3. \A v : Level(v, n + 1) = UNION {Parts(u) : u \in Level(v, n)}
        BY LevelSteps
    <2>4. UNION {Parts(v) : v \in Level(json, n + 1)} = UNION {Level(v, n + 1) : v \in Parts(json)}
        <3>1. ASSUME NEW x, x \in UNION {Parts(v) : v \in Level(json, n + 1)}
              PROVE  x \in UNION {Level(v, n + 1) : v \in Parts(json)}
            <4>1. PICK u \in Level(json, n + 1) : x \in Parts(u)
                BY <3>1
            <4>2. PICK v \in Parts(json) : u \in Level(v, n)
                BY <2>2, <4>1
            <4>3. x \in Level(v, n + 1)
                BY <2>3, <4>1, <4>2
            <4> QED BY <4>2, <4>3
        <3>2. ASSUME NEW x, x \in UNION {Level(v, n + 1) : v \in Parts(json)}
              PROVE  x \in UNION {Parts(v) : v \in Level(json, n + 1)}
            <4>1. PICK v \in Parts(json) : x \in Level(v, n + 1)
                BY <3>2
            <4>2. PICK u \in Level(v, n) : x \in Parts(u)
                BY <2>3, <4>1
            <4>3. u \in Level(json, n + 1)
                BY <2>2, <4>1, <4>2
            <4> QED BY <4>2, <4>3
        <3> QED BY <3>1, <3>2
    <2> QED BY <2>1, <2>4
<1> HIDE DEF G
<1>3. \A n \in Nat : n \in G
    BY <1>1, <1>2, Induction
<1> QED BY <1>3 DEF G

\* A value nests one level deeper than what is in it.
LEMMA NestedParts ==
    ASSUME NEW json
    PROVE  /\ Nested(json, 0)
           /\ \A n \in Nat : Nested(json, n + 1) <=> \E v \in Parts(json) : Nested(v, n)
<1>1. Nested(json, 0)
    <2>1. Level(json, 0) = {json}
        BY LevelSteps
    <2> QED BY <2>1 DEF Nested
<1>2. ASSUME NEW n \in Nat PROVE Nested(json, n + 1) <=> \E v \in Parts(json) : Nested(v, n)
    <2>1. Level(json, n + 1) = UNION {Level(v, n) : v \in Parts(json)}
        BY LevelFront
    <2> QED BY <2>1 DEF Nested
<1> QED BY <1>1, <1>2

\* What does not nest so deep does not nest deeper.
LEMMA NestedLess ==
    ASSUME NEW json, NEW m \in Nat, ~Nested(json, m), NEW n \in Nat, n >= m
    PROVE  ~Nested(json, n)
<1> DEFINE G == {k \in Nat : k >= m => Level(json, k) = {}}
<1>1. 0 \in G
    <2>1. m = 0 => Level(json, 0) = {}
        BY DEF Nested
    <2> QED BY <2>1
<1>2. ASSUME NEW k \in Nat, k \in G PROVE k + 1 \in G
    <2> SUFFICES ASSUME k + 1 >= m PROVE Level(json, k + 1) = {}
        OBVIOUS
    <2>1. CASE k + 1 = m
        BY <2>1 DEF Nested
    <2>2. CASE k >= m
        <3>1. Level(json, k) = {}
            BY <1>2, <2>2
        <3>2. Level(json, k + 1) = UNION {Parts(v) : v \in Level(json, k)}
            BY LevelSteps
        <3> QED BY <3>1, <3>2
    <2>3. k + 1 = m \/ k >= m
        OBVIOUS
    <2> QED BY <2>1, <2>2, <2>3
<1> HIDE DEF G
<1>3. n \in G
    BY <1>1, <1>2, Induction
<1> USE DEF G
<1>4. Level(json, n) = {}
    BY <1>3
<1> QED BY <1>4 DEF Nested

\* A leaf has no level below it.
LEMMA LeafNested ==
    ASSUME NEW json, json.t \notin {"object", "array"}, NEW n \in Nat
    PROVE  ~Nested(json, n + 1)
<1>1. Parts(json) = {}
    BY DEF Parts
<1> QED BY <1>1, NestedParts

\* An array nests a level deeper than its elements.
LEMMA ArrayNested ==
    ASSUME NEW s, NEW n \in Nat, \A i \in DOMAIN s : ~Nested(s[i], n)
    PROVE  ~Nested(Arr(s), n + 1)
<1>1. Parts(Arr(s)) = ToSet(s)
    BY DEF Parts, Arr
<1>2. \A v \in ToSet(s) : ~Nested(v, n)
    BY DEF ToSet
<1> QED BY <1>1, <1>2, NestedParts

\* So does an object than its members.
LEMMA ObjectNested ==
    ASSUME NEW m, NEW n \in Nat
    PROVE  ~Nested(Obj(m), n + 1) <=> \A k \in DOMAIN m : ~Nested(m[k], n)
<1>1. Parts(Obj(m)) = {m[k] : k \in DOMAIN m}
    BY DEF Parts, Obj
<1>2. Nested(Obj(m), n + 1) <=> \E v \in Parts(Obj(m)) : Nested(v, n)
    BY NestedParts
<1> QED BY <1>1, <1>2

\* An object nests as its members do.
LEMMA MembersNested ==
    ASSUME NEW json, json.t = "object", NEW n \in Nat, ~Nested(json, n + 1)
    PROVE  ~Nested(Obj(json.m), n + 1)
<1>1. Parts(Obj(json.m)) = {json.m[k] : k \in DOMAIN json.m}
    BY DEF Parts, Obj
<1>2. Parts(json) = {json.m[k] : k \in DOMAIN json.m}
    BY DEF Parts
<1> QED BY <1>1, <1>2, NestedParts

\* The empty object.
LEMMA NoKeysNested ==
    ASSUME NEW n \in Nat
    PROVE  ~Nested(Obj(NoKeys), n + 1)
<1>1. \A k \in DOMAIN NoKeys : ~Nested(NoKeys[k], n)
    BY NoNames
<1> QED BY <1>1, ObjectNested

\* A member more.
LEMMA WithNested ==
    ASSUME NEW m, NEW name, NEW value, NEW n \in Nat, ~Nested(Obj(m), n + 1), ~Nested(value, n)
    PROVE  ~Nested(Obj(With(m, name, value)), n + 1)
<1> DEFINE w == With(m, name, value)
<1>1. \A k \in DOMAIN m : ~Nested(m[k], n)
    BY ObjectNested
<1>2. \A k \in DOMAIN w : w[k] = value \/ (k \in DOMAIN m /\ w[k] = m[k])
    BY DEF With
<1> HIDE DEF w
<1>3. \A k \in DOMAIN w : ~Nested(w[k], n)
    BY <1>1, <1>2
<1>4. ~Nested(Obj(w), n + 1)
    BY <1>3, ObjectNested
<1> QED BY <1>4 DEF w

\* A name adds a level at most.
LEMMA NamedNested ==
    ASSUME NEW f, NEW json, NEW n \in Nat, ~Nested(json, n)
    PROVE  ~Nested(NamedField(f, json), n + 1)
<1>1. ~Nested(json, n + 1)
    BY NestedLess
<1> DEFINE m == [k \in {f.name} |-> json]
<1>2. \A k \in DOMAIN m : ~Nested(m[k], n)
    OBVIOUS
<1>3. NamedField(f, json) = json \/ NamedField(f, json) = Obj(m)
    BY Zenon DEF NamedField
<1> HIDE DEF m
<1>4. ~Nested(Obj(m), n + 1)
    BY <1>2, ObjectNested
<1> QED BY <1>1, <1>3, <1>4

\* A field that holds an array of sub-fields nests two levels deeper than they.
LEMMA FieldJsonNested ==
    ASSUME NEW f \in Fields, NEW subs, NEW n \in Nat, \A i \in DOMAIN subs : ~Nested(subs[i], n)
    PROVE  ~Nested(FieldJson(f, subs), n + 2)
<1> DEFINE keys == (IF f.timestamp # 0 THEN {"timestamp"} ELSE {})
                   \cup (IF subs # <<>> THEN {"fields"} ELSE {})
           names == keys \cup (IF f.value # Null THEN {"value"} ELSE {})
           m == [k \in names |->
                    CASE k = "timestamp" -> Scalar("time")
                      [] k = "fields"    -> Arr(subs)
                      [] k = "value"     -> f.value]
<1>1. FieldJson(f, subs) = IF keys = {} THEN f.value ELSE Obj(m)
    BY DEF FieldJson
<1>2. f.value.t \notin {"object", "array"}
    BY FieldTypes
<1>3. ~Nested(f.value, n + 1) /\ ~Nested(f.value, n + 1 + 1)
    BY <1>2, LeafNested
<1>4. ~Nested(Scalar("time"), n + 1)
    <2> DEFINE x == Scalar("time")
    <2>1. x.t \notin {"object", "array"}
        BY DEF Scalar
    <2> HIDE DEF x
    <2>2. ~Nested(x, n + 1)
        BY <2>1, LeafNested
    <2> QED BY <2>2 DEF x
<1>5. ~Nested(Arr(subs), n + 1)
    BY ArrayNested
<1>6. \A k \in DOMAIN m : m[k] \in {Scalar("time"), Arr(subs), f.value}
    <2>1. names \subseteq {"timestamp", "fields", "value"}
        OBVIOUS
    <2> HIDE DEF names
    <2> QED BY <2>1
<1> HIDE DEF m, keys
<1>7. \A k \in DOMAIN m : ~Nested(m[k], n + 1)
    BY <1>3, <1>4, <1>5, <1>6
<1>8. ~Nested(Obj(m), n + 1 + 1)
    BY <1>7, ObjectNested
<1>9. n + 1 + 1 = n + 2
    OBVIOUS
<1> QED BY <1>1, <1>3, <1>8, <1>9

\* A field nests three levels deeper than its sub-fields.
LEMMA CiscoFieldNested ==
    \A f \in Fields : ~Nested(CiscoGpbkvField2Json[f], 3 * Depth(f) + 2)
<1> DEFINE J == CiscoGpbkvField2Json
           G == {n \in Nat : \A f \in Fields : Depth(f) < n => ~Nested(J[f], 3 * Depth(f) + 2)}
<1> HIDE DEF J
<1>1. 0 \in G
    BY FieldTypes
<1>2. ASSUME NEW n \in Nat, n \in G PROVE n + 1 \in G
    <2> SUFFICES ASSUME NEW f \in Fields, Depth(f) < n + 1 PROVE ~Nested(J[f], 3 * Depth(f) + 2)
        OBVIOUS
    <2> DEFINE d == Depth(f)
               subs == Subs(f, J)
    <2>1. d \in Nat /\ d < n + 1
        BY FieldTypes
    <2>2. ASSUME NEW i \in DOMAIN f.fields PROVE ~Nested(subs[i], 3 * d)
        <3> DEFINE g == f.fields[i]
                   e == Depth(g)
        <3>1. g \in Fields /\ e \in Nat /\ e < d
            BY FieldTypes
        <3> HIDE DEF d, e
        <3>2. e < n
            BY <2>1, <3>1
        <3>3. ~Nested(J[g], 3 * e + 2)
            BY <1>2, <3>1, <3>2 DEF e
        <3>4. 3 * e + 2 \in Nat /\ 3 * d \in Nat /\ 3 * d >= (3 * e + 2) + 1
            BY <2>1, <3>1
        <3> HIDE DEF g
        <3>5. ~Nested(NamedField(g, J[g]), (3 * e + 2) + 1)
            BY <3>3, <3>4, NamedNested
        <3>6. ~Nested(NamedField(g, J[g]), 3 * d)
            <4>1. (3 * e + 2) + 1 \in Nat
                BY <3>4
            <4> QED BY <3>4, <3>5, <4>1, NestedLess
        <3>7. subs[i] = NamedField(g, J[g])
            BY DEF Subs, g
        <3> QED BY <3>6, <3>7
    <2>3. DOMAIN subs = DOMAIN f.fields
        BY DEF Subs
    <2>4. J[f] = FieldJson(f, subs)
        BY FieldJsonDefined DEF J
    <2> HIDE DEF subs, d
    <2>5. ~Nested(FieldJson(f, subs), 3 * d + 2)
        <3>1. 3 * d \in Nat
            BY <2>1
        <3> QED BY <2>2, <2>3, <3>1, FieldJsonNested
    <2> QED BY <2>4, <2>5 DEF d
<1>3. ASSUME NEW f \in Fields PROVE ~Nested(J[f], 3 * Depth(f) + 2)
    <2> DEFINE d == Depth(f)
    <2>1. d \in Nat
        BY FieldTypes
    <2>2. \A n \in Nat : n \in G
        <3> HIDE DEF G
        <3> QED BY <1>1, <1>2, Induction
    <2>3. d + 1 \in G /\ d < d + 1
        BY <2>1, <2>2
    <2> QED BY <2>3
<1> QED BY <1>3 DEF J

\* A Cisco message does not reach the limit of the JSON parser.
LEMMA CiscoNested ==
    ASSUME NEW rows \in Seq(Fields)
    PROVE  ~Exceeds(CiscoGpbkv2Json(rows))
<1> DEFINE J == CiscoGpbkvField2Json
           n == 3 * MaxDepth + 3
           array == [i \in DOMAIN rows |-> NamedField(rows[i], J[rows[i]])]
           m == [k \in {"data_gpbkv"} |-> Arr(array)]
<1>1. MaxDepth \in Nat /\ n \in Nat
    BY FieldsAssumption
<1>2. ASSUME NEW i \in DOMAIN rows PROVE ~Nested(array[i], n)
    <2> DEFINE f == rows[i]
               d == Depth(f)
    <2>1. f \in Fields
        BY LenProperties
    <2>2. d \in Nat /\ d < MaxDepth + 1
        BY <2>1, FieldTypes
    <2>3. ~Nested(J[f], 3 * d + 2)
        BY <2>1, CiscoFieldNested
    <2> HIDE DEF f, d, J
    <2>4. 3 * d + 2 \in Nat /\ (3 * d + 2) + 1 \in Nat /\ n >= (3 * d + 2) + 1
        BY <1>1, <2>2
    <2>5. ~Nested(NamedField(f, J[f]), (3 * d + 2) + 1)
        BY <2>3, <2>4, NamedNested
    <2>6. ~Nested(NamedField(f, J[f]), n)
        BY <1>1, <2>4, <2>5, NestedLess
    <2> QED BY <2>6 DEF f
<1>3. DOMAIN array = DOMAIN rows
    OBVIOUS
<1>4. CiscoGpbkv2Json(rows) = Obj(m)
    BY DEF CiscoGpbkv2Json
<1> HIDE DEF array
<1>5. ~Nested(Arr(array), n + 1)
    <2> HIDE DEF n
    <2> QED BY <1>1, <1>2, <1>3, ArrayNested
<1>6. \A k \in DOMAIN m : ~Nested(m[k], n + 1)
    BY <1>5
<1> HIDE DEF m
<1>7. ~Nested(Obj(m), n + 1 + 1)
    <2> HIDE DEF n
    <2>1. n + 1 \in Nat
        BY <1>1
    <2> QED BY <1>6, <2>1, ObjectNested
<1>8. StackLimit \in Nat /\ n + 1 + 1 \in Nat /\ StackLimit >= n + 1 + 1
    BY <1>1, LimitsAssumption
<1> HIDE DEF n
<1>9. ~Nested(Obj(m), StackLimit)
    BY <1>7, <1>8, NestedLess
<1> QED BY <1>4, <1>9 DEF Exceeds

\* No member of a Nokia object has one of its own.
LEMMA NokiaNested ==
    ASSUME NEW n, IsSequence(n.updates)
    PROVE  ~Exceeds(NokiaUpdate(n))
<1> DEFINE us == n.updates
           N == Len(us)
           root == Roots(us)
           G == {j \in Nat : j <= N => ~Nested(Obj(root[j]), 1 + 1)}
<1>1. N \in Nat
    BY LenProperties DEF IsSequence
<1>2. root[0] = NoKeys /\ \A j \in 1..N : root[j] = With(root[j - 1], NokiaPath(us, j), NokiaValue(us[j].val))
    BY <1>1, RootsTrace
<1>3. \A j \in 1..N : ~Nested(NokiaValue(us[j].val), 1)
    <2> SUFFICES ASSUME NEW j \in 1..N PROVE ~Nested(NokiaValue(us[j].val), 1)
        OBVIOUS
    <2> DEFINE x == NokiaValue(us[j].val)
    <2>1. x.t \in {"text", "scalar"}
        BY DEF NokiaValue, TextOf, Scalar
    <2> HIDE DEF x
    <2>2. ~Nested(x, 0 + 1)
        BY <2>1, LeafNested
    <2> QED BY <2>2 DEF x
<1> HIDE DEF us, N, root
<1>4. 0 \in G
    BY <1>2, NoKeysNested
<1>5. ASSUME NEW j \in Nat, j \in G PROVE j + 1 \in G
    <2> SUFFICES ASSUME j + 1 <= N PROVE ~Nested(Obj(root[j + 1]), 1 + 1)
        OBVIOUS
    <2> DEFINE k == j + 1
    <2>1. k \in 1..N /\ k - 1 = j /\ j <= N
        BY <1>1
    <2>2. ~Nested(Obj(root[j]), 1 + 1)
        BY <1>5, <2>1
    <2> HIDE DEF k
    <2>3. ~Nested(Obj(With(root[j], NokiaPath(us, k), NokiaValue(us[k].val))), 1 + 1)
        BY <1>3, <2>1, <2>2, WithNested
    <2>4. ~Nested(Obj(root[k]), 1 + 1)
        BY <1>2, <2>1, <2>3
    <2> QED BY <2>4 DEF k
<1>6. N \in G
    <2> HIDE DEF G
    <2> QED BY <1>1, <1>4, <1>5, Induction
<1>7. ~Nested(Obj(root[N]), 2)
    BY <1>1, <1>6
<1>8. StackLimit \in Nat /\ StackLimit >= 2
    BY LimitsAssumption, FieldsAssumption
<1>9. ~Nested(Obj(root[N]), StackLimit)
    BY <1>7, <1>8, NestedLess
<1>10. NokiaUpdate(n) = Obj(root[N])
    BY NokiaUpdateLast DEF root, us, N
<1> QED BY <1>9, <1>10 DEF Exceeds

\* On the way down a path the tree nests less with every name.
LEMMA DownNested ==
    ASSUME NEW m, NEW names, Len(names) \in Nat, NEW M \in Nat, Len(names) < M, ~Nested(Obj(m), M)
    PROVE  \A i \in 0..Len(names) : ~Nested(Obj(Down(m, names)[i]), M - i)
<1> DEFINE n == Len(names)
           down == Down(m, names)
           G == {i \in Nat : i <= n => ~Nested(Obj(down[i]), M - i)}
<1>1. n \in Nat /\ n < M
    OBVIOUS
<1>2. down[0] = m /\ \A i \in 1..n : down[i] = Child(down[i - 1], names[i])
    BY DownTrace
<1> HIDE DEF n, down
<1>3. 0 \in G
    BY <1>2
<1>4. ASSUME NEW i \in Nat, i \in G PROVE i + 1 \in G
    <2> SUFFICES ASSUME i + 1 <= n PROVE ~Nested(Obj(down[i + 1]), M - (i + 1))
        OBVIOUS
    <2> DEFINE d == down[i]
               x == names[i + 1]
               b == M - (i + 1) - 1
               child == Child(d, x)
    <2>1. i + 1 \in 1..n /\ (i + 1) - 1 = i /\ i <= n /\ b \in Nat /\ b + 1 = M - (i + 1) /\ b + 1 + 1 = M - i
        BY <1>1
    <2>2. down[i + 1] = child
        BY <1>2, <2>1
    <2>3. ~Nested(Obj(d), M - i)
        BY <1>4, <2>1
    <2> HIDE DEF b, d, x
    <2>4. ~Nested(Obj(d), b + 1 + 1) /\ b + 1 \in Nat
        BY <2>1, <2>3
    <2>5. \A k \in DOMAIN d : ~Nested(d[k], b + 1)
        BY <2>4, ObjectNested
    <2>6. CASE x \in DOMAIN d /\ d[x].t = "object"
        <3>1. child = d[x].m
            BY <2>6 DEF Child
        <3>2. ~Nested(Obj(d[x].m), b + 1)
            BY <2>1, <2>5, <2>6, MembersNested
        <3> QED BY <3>1, <3>2, <2>1, <2>2
    <2>7. CASE ~(x \in DOMAIN d /\ d[x].t = "object")
        <3>1. child = NoKeys
            BY <2>7 DEF Child
        <3>2. ~Nested(Obj(NoKeys), b + 1)
            BY <2>1, NoKeysNested
        <3> QED BY <3>1, <3>2, <2>1, <2>2
    <2> QED BY <2>6, <2>7
<1>5. \A i \in Nat : i \in G
    <2> HIDE DEF G
    <2> QED BY <1>3, <1>4, Induction
<1>6. \A i \in 0..n : ~Nested(Obj(down[i]), M - i)
    BY <1>1, <1>5
<1> QED BY <1>6 DEF n, down

\* An update makes the tree nest to the end of its path and its value there.
LEMMA SetMetricNested ==
    ASSUME NEW m, NEW names, NEW value, Len(names) \in Nat, NEW M \in Nat, ~Nested(Obj(m), M),
           Len(names) < M, ~Nested(value, M - Len(names))
    PROVE  ~Nested(Obj(SetMetric(m, names, value)), M)
<1> DEFINE n == Len(names)
           down == Down(m, names)
           up == Up(m, names, value)
           G == {k \in Nat : k <= n => ~Nested(up[k], (M - n) + k)}
<1>1. n \in Nat /\ n < M /\ ~Nested(value, M - n)
    OBVIOUS
<1>2. \A i \in 0..n : ~Nested(Obj(down[i]), M - i)
    BY DownNested
<1>3. up[0] = value
    BY UpTrace
<1>4. \A k \in 1..n : up[k] = Obj(With(down[n - k], names[n - k + 1], up[k - 1])) /\ Obj(up[k].m) = up[k]
    BY UpIsObject
<1>5. SetMetric(m, names, value) = IF n = 0 THEN m ELSE up[n].m
    BY SetMetricUp
<1> HIDE DEF n, down, up
<1>6. 0 \in G
    BY <1>1, <1>3
<1>7. ASSUME NEW k \in Nat, k \in G PROVE k + 1 \in G
    <2> SUFFICES ASSUME k + 1 <= n PROVE ~Nested(up[k + 1], (M - n) + (k + 1))
        OBVIOUS
    <2> DEFINE j == n - (k + 1)
               d == down[j]
               x == names[j + 1]
               b == (M - n) + k
               v == up[k]
    <2>1. /\ k + 1 \in 1..n /\ (k + 1) - 1 = k /\ k <= n /\ j \in 0..n
          /\ b \in Nat /\ b + 1 = M - j /\ b + 1 = (M - n) + (k + 1)
        BY <1>1
    <2>2. ~Nested(v, b)
        BY <1>7, <2>1
    <2>3. ~Nested(Obj(d), M - j)
        BY <1>2, <2>1
    <2>4. up[k + 1] = Obj(With(d, x, v))
        BY <1>4, <2>1
    <2> HIDE DEF b, d, x, v, j
    <2>5. ~Nested(Obj(With(d, x, v)), b + 1)
        BY <2>1, <2>2, <2>3, WithNested
    <2> QED BY <2>1, <2>4, <2>5
<1>8. n \in G
    <2> HIDE DEF G
    <2> QED BY <1>1, <1>6, <1>7, Induction
<1>9. ~Nested(up[n], M)
    <2>1. (M - n) + n = M
        BY <1>1
    <2> QED BY <1>1, <1>8, <2>1
<1>10. CASE n = 0
    BY <1>5, <1>10
<1>11. CASE n # 0
    <2>1. n \in 1..n
        BY <1>1, <1>11
    <2>2. Obj(up[n].m) = up[n]
        BY <1>4, <2>1
    <2> QED BY <1>5, <1>9, <1>11, <2>2
<1> QED BY <1>10, <1>11

\* A Juniper body nests as deep as one of its updates reaches.
LEMMA JuniperNested ==
    ASSUME NEW n, IsSequence(n.updates), \A i \in DOMAIN n.updates : IsSequence(n.updates[i].path),
           \A i \in DOMAIN n.updates : ~ReachesLimit(n.updates[i])
    PROVE  ~Exceeds(JuniperUpdate(n))
<1> DEFINE us == n.updates
           N == Len(us)
           M == StackLimit - 1
           tree == Metrics(us)
           G == {j \in Nat : j <= N => ~Nested(Obj(tree[j]), M)}
<1>1. N \in Nat /\ DOMAIN us = 1..N
    BY LenProperties DEF IsSequence
<1>2. StackLimit \in Nat /\ M \in Nat /\ M >= 1 /\ M + 1 = StackLimit
    BY LimitsAssumption, FieldsAssumption
<1>3. /\ tree[0] = NoKeys
      /\ \A j \in 1..N : tree[j] = SetMetric(tree[j - 1], PathNames(us[j].path), JuniperValue(us[j].val))
    BY <1>1, MetricsTrace
<1> HIDE DEF M
<1>4. ASSUME NEW j \in 1..N
      PROVE  /\ Len(PathNames(us[j].path)) \in Nat /\ Len(PathNames(us[j].path)) < M
             /\ ~Nested(JuniperValue(us[j].val), M - Len(PathNames(us[j].path)))
    <2> DEFINE u == us[j]
               p == u.path
               v == JuniperValue(u.val)
               l == Len(p)
    <2>1. IsSequence(p) /\ ~ReachesLimit(u)
        BY <1>1
    <2>2. l \in Nat
        BY <2>1, LenProperties DEF IsSequence
    <2>3. Len(PathNames(p)) = l
        BY <2>1, PathNamesType
    <2>4. \A d \in 0..StackLimit : d + l + 1 >= StackLimit => ~Nested(v, d)
        BY <2>1 DEF ReachesLimit
    <2>5. Nested(v, 0)
        BY NestedParts
    <2> HIDE DEF u, p, v, l
    <2>6. l < M
        <3>1. 0 \in 0..StackLimit
            BY <1>2
        <3>2. ~(0 + l + 1 >= StackLimit)
            BY <2>4, <2>5, <3>1
        <3> QED BY <1>2, <2>2, <3>2
    <2>7. ~Nested(v, M - l)
        <3>1. M - l \in 0..StackLimit /\ (M - l) + l + 1 >= StackLimit
            BY <1>2, <2>2, <2>6
        <3> QED BY <2>4, <3>1
    <2> QED BY <2>2, <2>3, <2>6, <2>7 DEF u, p, v
<1> HIDE DEF us, N, tree
<1>5. 0 \in G
    <2>1. M - 1 \in Nat /\ (M - 1) + 1 = M
        BY <1>2
    <2>2. ~Nested(Obj(NoKeys), (M - 1) + 1)
        BY <2>1, NoKeysNested
    <2> QED BY <1>3, <2>1, <2>2
<1>6. ASSUME NEW j \in Nat, j \in G PROVE j + 1 \in G
    <2> SUFFICES ASSUME j + 1 <= N PROVE ~Nested(Obj(tree[j + 1]), M)
        OBVIOUS
    <2> DEFINE k == j + 1
               p == PathNames(us[k].path)
               v == JuniperValue(us[k].val)
    <2>1. k \in 1..N /\ k - 1 = j /\ j <= N
        BY <1>1
    <2>2. ~Nested(Obj(tree[j]), M)
        BY <1>6, <2>1
    <2>3. tree[k] = SetMetric(tree[j], p, v)
        BY <1>3, <2>1
    <2>4. Len(p) \in Nat /\ Len(p) < M /\ ~Nested(v, M - Len(p))
        BY <1>4, <2>1
    <2> HIDE DEF k, p, v
    <2>5. ~Nested(Obj(SetMetric(tree[j], p, v)), M)
        BY <1>2, <2>2, <2>4, SetMetricNested
    <2>6. ~Nested(Obj(tree[k]), M)
        BY <2>3, <2>5
    <2> QED BY <2>6 DEF k
<1>7. N \in G
    <2> HIDE DEF G
    <2> QED BY <1>1, <1>5, <1>6, Induction
<1>8. ~Nested(Obj(tree[N]), M)
    BY <1>1, <1>7
<1>9. JuniperMetrics(n.updates) = tree[N]
    BY JuniperMetricsLast DEF tree, us, N
<1> DEFINE metrics == JuniperMetrics(n.updates)
           root == [k \in IF metrics = NoKeys THEN {} ELSE {"metrics"} |-> Obj(metrics)]
<1>10. JuniperUpdate(n) = Obj(root)
    BY DEF JuniperUpdate
<1> HIDE DEF metrics
<1>11. \A k \in DOMAIN root : ~Nested(root[k], M)
    BY <1>8, <1>9 DEF metrics
<1> HIDE DEF root
<1>12. ~Nested(Obj(root), M + 1)
    BY <1>2, <1>11, ObjectNested
<1> QED BY <1>2, <1>10, <1>12 DEF Exceeds

\* A peer without a port number, a raw text and a Juniper value that nest too
\* deep are all that makes the process end with a message.
THEOREM MessageDeathsKnownHolds == Spec => []MessageDeathsKnown
<1>1. IInv => MessageDeathsKnown
    <2> DEFINE m == input.message
               peer == ParsePeer(PeerString(input.peer))
    <2> SUFFICES ASSUME IInv, pc = "crashed", input # NoInput,
                        ~(method = "Kafka" /\ input.peer.family = "unix"),
                        ~(method = "Kafka" /\ m.kind = "raw" /\ Exceeds(m.json)),
                        ~(/\ m.kind = "juniper" /\ JuniperExtension(m)
                          /\ \E i \in DOMAIN m.updates :
                                \/ IsJson(m.updates[i].val) /\ Exceeds(m.updates[i].val.json)
                                \/ method = "Kafka" /\ ReachesLimit(m.updates[i]))
                 PROVE  FALSE
        BY DEF MessageDeathsKnown
    <2>1. loaded # NoFile /\ input \in Inputs(loaded) /\ Throws
        BY DEF IInv, RecordInv
    <2>2. loaded \in Files
        BY <2>1 DEF IInv, LoadedInv
    <2>3. m \in UNION {{in.message : in \in Inputs(w)} : w \in Files}
        BY <2>1, <2>2
    <2>4. input.peer.family # "unix" => PortConverts(peer.port, PortNumbers)
        BY <2>1, <2>2, PeerParsed
    <2>5. ~(m.kind = "juniper" /\ JuniperThrows(m))
        BY DEF JuniperThrows
    <2>6. method = "Kafka" /\ EnvelopeThrows(BodyOf(m), peer, PortNumbers)
        BY <2>1, <2>5 DEF Throws
    <2>7. Exceeds(BodyOf(m).json)
        BY <2>4, <2>6 DEF EnvelopeThrows
    <2> HIDE DEF m, peer
    <2>8. /\ m.kind \in {"cisco", "juniper", "nokia", "raw"}
          /\ m.kind = "cisco" => IsSequence(m.rows) /\ ToSet(m.rows) \subseteq Fields
          /\ m.kind \in {"juniper", "nokia"} =>
                IsSequence(m.updates) /\ \A i \in DOMAIN m.updates : IsSequence(m.updates[i].path)
        BY <2>3, MessagesAssumption
    <2>9. CASE m.kind = "cisco"
        <3> DEFINE rows == m.rows
        <3>1. rows \in Seq(ToSet(rows)) /\ ToSet(rows) \subseteq Fields
            BY <2>8, <2>9 DEF IsSequence
        <3>2. BodyOf(m).json = CiscoGpbkv2Json(rows)
            BY <2>9 DEF BodyOf
        <3> HIDE DEF rows
        <3>3. rows \in Seq(Fields)
            BY <3>1, SeqMonotonic
        <3> QED BY <2>7, <3>2, <3>3, CiscoNested
    <2>10. CASE m.kind = "juniper" /\ JuniperExtension(m)
        <3>1. BodyOf(m).json = JuniperUpdate(m)
            BY <2>10 DEF BodyOf
        <3>2. \A i \in DOMAIN m.updates : ~ReachesLimit(m.updates[i])
            BY <2>6, <2>10
        <3> QED BY <2>7, <2>8, <2>10, <3>1, <3>2, JuniperNested
    <2>11. CASE m.kind = "juniper" /\ ~JuniperExtension(m)
        <3>1. BodyOf(m).json = Null
            BY <2>11 DEF BodyOf, EmptyText
        <3>2. StackLimit - 1 \in Nat /\ (StackLimit - 1) + 1 = StackLimit
            BY LimitsAssumption, FieldsAssumption
        <3>3. Null.t \notin {"object", "array"}
            BY DEF Null
        <3>4. ~Nested(Null, (StackLimit - 1) + 1)
            BY <3>2, <3>3, LeafNested
        <3> QED BY <2>7, <3>1, <3>2, <3>4 DEF Exceeds
    <2>12. CASE m.kind = "nokia"
        <3>1. BodyOf(m).json = NokiaUpdate(m)
            BY <2>12 DEF BodyOf
        <3> QED BY <2>7, <2>8, <2>12, <3>1, NokiaNested
    <2>13. CASE m.kind = "raw"
        <3>1. BodyOf(m).json = m.json
            BY <2>13 DEF BodyOf
        <3> QED BY <2>6, <2>7, <2>13, <3>1 DEF m
    <2> QED BY <2>8, <2>9, <2>10, <2>11, <2>12, <2>13
<1> QED BY <1>1, Invariant, PTL
=============================================================================
