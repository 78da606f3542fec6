-------------------------------- MODULE Text --------------------------------
(***************************************************************************)
(* Lines and headers: lib/mime/mimev2.src.cc, lib/builders/mimev2.src.cc,  *)
(* lib/general/cleanup.src.cc and lib/dkim/DKIMCanonicalization.src.cc.    *)
(*                                                                         *)
(* A text is a sequence of tokens: the characters the code looks at, and   *)
(* whole words where it only copies or compares them (upper and lower case *)
(* are one).  A message is a sequence of lines.                            *)
(***************************************************************************)
EXTENDS Naturals, SequencesExt

CONSTANTS Tokens,
          LineLength  \* 128 in the code

ASSUME TextConstants == LineLength \in Nat /\ LineLength > 7

SP == " "
TAB == "\t"
Texts == Seq(Tokens)
Lines == Seq(Texts)

-----------------------------------------------------------------------------
(* Pieces of text *)

Has(t, c) == \E i \in DOMAIN t : t[i] = c
First(t, c) == CHOOSE i \in DOMAIN t : t[i] = c /\ \A j \in 1 .. i - 1 : t[j] # c
From(t, i) == SubSeq(t, i, Len(t))
\* The tokens at the places that satisfy a condition.
Pick(t, P(_)) ==
    LET at == SelectSeq([i \in 1 .. Len(t) |-> i], P)
    IN  [k \in 1 .. Len(at) |-> t[at[k]]]

\* substr between occurrences of a separator; the last piece may be empty.
Split(t, c) ==
    LET cuts == <<0>> \o SelectSeq([i \in 1 .. Len(t) |-> i], LAMBDA i : t[i] = c)
                      \o <<Len(t) + 1>>
    IN  [k \in 1 .. Len(cuts) - 1 |-> SubSeq(t, cuts[k] + 1, cuts[k + 1] - 1)]

OneOff(t, c) == IF t # <<>> /\ Head(t) = c THEN Tail(t) ELSE t
LastOff(t, c) == IF t # <<>> /\ Last(t) = c THEN Front(t) ELSE t
Trim(t) == LastOff(OneOff(t, SP), SP)
AllOff(t, c) ==
    IF \A i \in DOMAIN t : t[i] = c THEN <<>>
    ELSE From(t, CHOOSE i \in DOMAIN t : t[i] # c /\ \A j \in 1 .. i - 1 : t[j] = c)

\* Runs of spaces become one; a tab is no space.
Squeeze(t) == Pick(t, LAMBDA i : ~(t[i] = SP /\ i > 1 /\ t[i - 1] = SP))

-----------------------------------------------------------------------------
(* splitMIMEBodyAndHeaders: the headers end at the first empty line, the   *)
(* body begins at the next line that is not.  Either iterator is null when *)
(* there is no such line, and what walks from it ends the process.         *)

Empties(m) == {i \in DOMAIN m : m[i] = <<>>}
HeadersEnd(m) == CHOOSE i \in Empties(m) : \A j \in Empties(m) : i <= j
BodyLines(m) == {i \in DOMAIN m : i > HeadersEnd(m) /\ m[i] # <<>>}
Splits(m) == Empties(m) # {} /\ BodyLines(m) # {}
Headers(m) == SubSeq(m, 1, HeadersEnd(m) - 1)
Body(m) == From(m, CHOOSE i \in BodyLines(m) : \A j \in BodyLines(m) : i <= j)

-----------------------------------------------------------------------------
(* joinHeaders and _parseHeaders *)

Continues(line) == line # <<>> /\ Head(line) \in {SP, TAB}

JoinHeaders(lines) ==
    LET text[i \in DOMAIN lines] ==
            IF i = 1 \/ ~Continues(lines[i]) THEN lines[i]
            ELSE text[i - 1] \o (IF Last(lines[i - 1]) = ";" THEN <<SP>> ELSE <<>>)
                             \o AllOff(AllOff(lines[i], SP), TAB)
        whole == [i \in 1 .. Len(lines) |-> text[i]]
    IN  Pick(whole, LAMBDA i : i = Len(lines) \/ ~Continues(lines[i + 1]))

\* Without a colon a header cannot be parsed and an exception leaves the caller.
Parses(header) == Has(header, ":")
Parse(header) ==
    LET sep == First(header, ":")
        Tidy(t) == OneOff(Squeeze(t), SP)
    IN  [key |-> Tidy(SubSeq(header, 1, sep - 1)), value |-> Tidy(From(header, sep + 1))]
ParseHeaders(lines) ==
    LET joined == JoinHeaders(lines)
    IN  [i \in 1 .. Len(joined) |-> Parse(joined[i])]
AllParse(lines) == \A h \in ToSet(JoinHeaders(lines)) : Parses(h)
Rebuilt(h) == h.key \o <<":", SP>> \o h.value

-----------------------------------------------------------------------------
(* foldHeader: a segment that does not fit on the line goes to lines of    *)
(* its own, indented by six spaces and then by seven.                      *)

Indent(n) == [i \in 1 .. n |-> SP]
Shorter(a, b) == IF a < b THEN a ELSE b

\* Wrong on purpose: done falls one short of what was copied.
PiecesOverlap(seg) ==
    LET first == LineLength - 6
        next == LineLength - 7
    IN  IF Len(seg) <= next THEN <<seg>>
        ELSE <<SubSeq(seg, 1, first)>> \o
             [k \in 1 .. (Len(seg) - first + next - 1) \div next |->
                 SubSeq(seg, first + (k - 1) * next, Shorter(first + k * next, Len(seg)))]

\* The loop over left and done: one piece of LineLength - 6, then pieces of
\* LineLength - 7 while more than that is left.
Pieces(seg) ==
    LET first == LineLength - 6
        next == LineLength - 7
        rest == Len(seg) - first
    IN  IF Len(seg) <= next THEN <<seg>>
        ELSE <<SubSeq(seg, 1, first)>> \o
             [k \in 1 .. (rest + next - 1) \div next |->
                 SubSeq(seg, first + (k - 1) * next + 1, Shorter(first + k * next, Len(seg)))]

Extended(lines, t) == Append(Front(lines), Last(lines) \o t)
AddSegment(folded, seg, later) ==
    LET s == Trim(seg)
        sep == IF later THEN <<";", SP>> ELSE <<>>
        used == folded.used + Len(sep)
        piece == Pieces(s)
    IN  IF seg = <<>> THEN folded
        ELSE IF Len(s) + used <= LineLength
        THEN [lines |-> Extended(folded.lines, sep \o s), used |-> used + Len(s)]
        ELSE IF s = <<>> THEN [lines |-> Extended(folded.lines, sep), used |-> used]
        ELSE [lines |-> Extended(folded.lines, sep) \o
                        [i \in 1 .. Len(piece) |-> Indent(IF i = 1 THEN 6 ELSE 7) \o piece[i]],
              used |-> IF Len(piece) > 1 THEN LineLength ELSE Len(s) + 7]

FoldHeader(header) ==
    LET sep == First(header, ":")
        key == Trim(SubSeq(header, 1, sep - 1)) \o <<":", SP>>
        segments == Split(From(header, sep + 1), ";")
        folded[i \in 0 .. Len(segments)] ==
            IF i = 0 THEN [lines |-> <<key>>, used |-> Len(key)]
            ELSE AddSegment(folded[i - 1], segments[i], i > 1)
    IN  folded[Len(segments)].lines
FoldAll(headers) == FlattenSeq([i \in 1 .. Len(headers) |-> FoldHeader(headers[i])])

-----------------------------------------------------------------------------
(* DKIM canonicalisation *)

RelaxedLine(line) ==
    LastOff(Squeeze([i \in 1 .. Len(line) |-> IF line[i] = TAB THEN SP ELSE line[i]]), SP)
\* Empty lines at the end are dropped, but never the first line.
SimpleBody(lines) ==
    LET kept == {1} \cup {i \in DOMAIN lines : lines[i] # <<>>}
    IN  SubSeq(lines, 1, CHOOSE i \in kept : \A j \in kept : j <= i)
RelaxedBody(lines) == SimpleBody([i \in 1 .. Len(lines) |-> RelaxedLine(lines[i])])

\* The lines with a key of the filter, in its order, the first of a key; an
\* exception if one is missing.
RelaxedKey(header) == Trim(SubSeq(header, 1, First(header, ":") - 1))
RelaxedHeader(header) ==
    RelaxedKey(header) \o <<":">> \o Trim(Squeeze(From(header, First(header, ":") + 1)))
FilterFound(headers, filter) ==
    /\ \A h \in ToSet(headers) : Parses(h)
    /\ \A key \in ToSet(filter) : \E h \in ToSet(headers) : RelaxedKey(h) = key
RelaxedHeaders(headers, filter) ==
    [k \in 1 .. Len(filter) |->
        RelaxedHeader(SelectSeq(headers, LAMBDA h : RelaxedKey(h) = filter[k])[1])]
\* The lines with a key of the filter as they are and where they are; none need be
\* there.
SimpleHeaders(headers, filter) ==
    SelectSeq(headers, LAMBDA h : h # <<>> /\ RelaxedKey(h) \in ToSet(filter))
=============================================================================
