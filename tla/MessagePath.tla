---------------------------- MODULE MessagePath -----------------------------
(***************************************************************************)
(* What becomes of a message's text between two of our servers: composed   *)
(* (lib/smtp/client/SMTPMessageComposer.src.cc) or submitted by a user and *)
(* rebuilt by dataHandler (lib/smtp/server/handlers/data.src.cc), signed   *)
(* (lib/dkim/DKIMSigner.src.cc), sent, its signatures validated            *)
(* (lib/dkim/DKIMValidator.src.cc), rebuilt again and parsed               *)
(* (lib/mime/mimev2.src.cc, lib/models/Email.src.cc).                      *)
(*                                                                         *)
(* A hash and an RSA signature are fixed texts; what they vouch for is     *)
(* kept in attested.                                                       *)
(***************************************************************************)
EXTENDS Text

CONSTANTS Submitted,   \* the messages users hand in
          Configs,     \* what the composer is asked for: [subject, from, to, sections]
          Filter,      \* the keys SMTPClient::sign signs
          Hash, OtherHash, Signature,  \* base64 texts
          KeyTxt,      \* the answers to the query for a key: sequences of TXT records,
                       \* each a sequence of [key, val], of the key Broken without "="
          QpLine       \* 76 in the code

Types == {"text/plain", "text/html", "multipart/mixed", "multipart/alternative", "unknown"}
Multipart == {"multipart/mixed", "multipart/alternative"}

ASSUME MessageConstants ==
    /\ Submitted \subseteq Lines
    /\ Filter \in Seq(Texts) /\ Filter # <<>>
    /\ {Hash, OtherHash, Signature} \subseteq Texts /\ Hash # OtherHash
    /\ QpLine \in Nat /\ QpLine > 1

VARIABLES stage,     \* how far the message has come
          text,      \* its lines
          given,     \* history: the message as handed in or composed
          config,    \* what was composed, NoConfig for a user's message
          attested,  \* history: what the hash and the signature were made of
          published, \* history: the answer to the query for the key
          verdicts,  \* the outcomes of the signatures, in order
          filed      \* what dataHandler made of the message it files

messageVars == <<stage, text, given, config, attested, published, verdicts, filed>>

NoConfig == [sections |-> <<>>]
Nothing == [body |-> <<>>, headers |-> <<>>]
DkimKey == <<"dkim-signature">>
Broken == "broken"
NoRecord == "no record"
\* What a record may have for a public key: ours, another, or no key at all.
OurKey == "our key"
Keys == {OurKey, "another key", "no key"}

-----------------------------------------------------------------------------
(* EmailAddress: an address is [name, address] *)

AddressText(a) ==
    (IF a.name = <<>> THEN <<>> ELSE <<"\"">> \o a.name \o <<"\"", SP>>)
    \o <<"<">> \o a.address \o <<">">>
AddressListToString(as) ==
    FlattenSeq([i \in 1 .. Len(as) |->
        AddressText(as[i]) \o IF i < Len(as) THEN <<",", SP>> ELSE <<>>])

\* removeFirstAndLastWhite leaves a text of one character alone.
FirstAndLastOff(t) == IF Len(t) < 2 THEN t ELSE Trim(t)

IsAddress(t) ==
    /\ Has(t, "@") /\ Has(t, ".")
    /\ Has(t, "<") <=> Has(t, ">")
ParseAddress(t) ==
    FirstAndLastOff(IF ~Has(t, "<") THEN t
                    ELSE SubSeq(t, First(t, "<") + 1, First(t, ">") - 1))
\* A comma between quotes separates nothing; what follows the last comma counts
\* unless it is empty.
AddressPieces(t) ==
    LET quotes(i) == Cardinality({j \in 1 .. i : t[j] = "\""})
        cuts == SelectSeq([i \in 1 .. Len(t) |-> i],
                          LAMBDA i : t[i] = "," /\ quotes(i) % 2 = 0)
        all == <<0>> \o cuts \o (IF t = <<>> \/ (cuts # <<>> /\ Last(cuts) = Len(t))
                                 THEN <<>> ELSE <<Len(t) + 1>>)
    IN  [k \in 1 .. Len(all) - 1 |-> SubSeq(t, all[k] + 1, all[k + 1] - 1)]
IsAddressList(t) == \A p \in ToSet(AddressPieces(t)) : IsAddress(p)
ParseAddressList(t) ==
    [i \in 1 .. Len(AddressPieces(t)) |-> ParseAddress(AddressPieces(t)[i])]

-----------------------------------------------------------------------------
(* The composer: a section is [type, qp, raw], raw its lines *)

\* reduceWhitespace goes over the whole text, the lines are trimmed after it; of
\* empty lines one is kept, none at the start.
Normalized(raw) ==
    LET squeezed == [i \in 1 .. Len(raw) |-> Squeeze(raw[i])]
        ends == Len(raw) > 1 \/ Len(squeezed[1]) > 1
        begin(i) == IF i = 1 /\ ends THEN OneOff(squeezed[i], SP) ELSE squeezed[i]
        whole(i) == IF i = Len(raw) /\ ends THEN LastOff(begin(i), SP) ELSE begin(i)
        trimmed == [i \in 1 .. Len(raw) |-> FirstAndLastOff(whole(i))]
    IN  Pick(trimmed, LAMBDA i :
                 \/ trimmed[i] # <<>>
                 \/ i > 1 /\ i < Len(raw) /\ trimmed[i - 1] # <<>>)

Encoded(line) ==
    LET coded == FlattenSeq([i \in 1 .. Len(line) |->
                     IF line[i] = "=" THEN <<"=", "3", "D">> ELSE <<line[i]>>])
    IN  coded \o IF Last(line) \in {SP, TAB} THEN <<"=">> ELSE <<>>
\* The loop over left and total.
SoftBroken(t) ==
    LET step == QpLine - 1
        n == IF Len(t) <= QpLine THEN 0 ELSE (Len(t) - QpLine + step - 1) \div step
    IN  [k \in 1 .. n |-> SubSeq(t, (k - 1) * step + 1, k * step) \o <<"=">>]
        \o <<From(t, n * step + 1)>>
QuotedPrintable(lines) ==
    LET full == SelectSeq(lines, LAMBDA t : t # <<>>)
    IN  FlattenSeq([i \in 1 .. Len(full) |-> SoftBroken(Encoded(full[i]))])

EncodedBody(s) == IF s.qp THEN QuotedPrintable(Normalized(s.raw)) ELSE Normalized(s.raw)

\* generateBoundary draws 38 characters; a body is taken not to hold them.
Boundary == <<"-", "-", "B", "B", "B", "B">>
SectionStart == <<"-", "-">> \o Boundary
SectionEnd == SectionStart \o <<"-", "-">>

GeneralHeaders(c) == <<
    <<"x-mailer", ":", SP, "F">>,
    <<"subject", ":", SP>> \o FirstAndLastOff(Squeeze(c.subject)),
    <<"date", ":", SP, "0">>,
    <<"mime-version", ":", SP, "1", ".", "0">>,
    <<"message-id", ":", SP, "<", "i", "@", "d", ">">>,
    <<"to", ":", SP>> \o AddressListToString(c.to),
    <<"from", ":", SP>> \o AddressListToString(c.from)>>
SectionHeaders(s) == <<
    <<"content-type", ":", SP, s.type, ";", SP, "charset", "=", "\"", "u", "\"">>,
    <<"content-transfer-encoding", ":", SP, IF s.qp THEN "quoted-printable" ELSE "7bit">>>>

\* Wrong on purpose: no boundary after the last section.
ComposeUnended(c) ==
    GeneralHeaders(c)
    \o <<<<"content-type", ":", SP, "multipart/alternative", ";", SP, "boundary", "=", "\"">>
         \o Boundary \o <<"\"">>, <<>>>>
    \o FlattenSeq([i \in 1 .. Len(c.sections) |->
           <<SectionStart>> \o SectionHeaders(c.sections[i]) \o <<<<>>>>
           \o EncodedBody(c.sections[i]) \o <<<<>>>>])

Compose(c) ==
    IF Len(c.sections) = 1 /\ c.sections[1].type = "text/plain"
    THEN GeneralHeaders(c) \o <<<<"content-type", ":", SP, "text/plain">>, <<>>>>
         \o EncodedBody(c.sections[1])
    ELSE GeneralHeaders(c)
         \o <<<<"content-type", ":", SP, "multipart/alternative", ";", SP, "boundary", "=", "\"">>
              \o Boundary \o <<"\"">>, <<>>>>
         \o FlattenSeq([i \in 1 .. Len(c.sections) |->
                <<SectionStart>> \o SectionHeaders(c.sections[i]) \o <<<<>>>>
                \o EncodedBody(c.sections[i]) \o <<<<>>>>])
         \o <<SectionEnd>>

-----------------------------------------------------------------------------
(* parseMIME *)

\* splitHeaderBySemicolon and parseHeaderKeyValuePairs: the first boundary counts.
TypeOf(value) ==
    LET segments == Split(value, ";")
    IN  IF Len(segments[1]) = 1 /\ segments[1][1] \in Types THEN segments[1][1] ELSE "unknown"
BoundaryOf(value) ==
    LET segments == Tail(Split(value, ";"))
        Key(s) == Trim(SubSeq(s, 1, First(s, "=") - 1))
        Unquoted(t) == OneOff(LastOff(Trim(t), "\""), "\"")
        named == SelectSeq(segments, LAMBDA s :
                     Has(s, "=") /\ First(s, "=") > 1 /\ Key(s) = <<"boundary">>)
    IN  IF named = <<>> THEN <<>>
        ELSE Unquoted(From(named[1], First(named[1], "=") + 1))

\* splitMultipartMessage: what lies between a start and the next start or the end,
\* and nothing beyond the first end.
Sections(body, boundary) ==
    LET start == <<"-", "-">> \o boundary
        end == start \o <<"-", "-">>
        ends == {i \in DOMAIN body : body[i] = end}
        hits == SelectSeq([i \in 1 .. Len(body) |-> i], LAMBDA i :
                    body[i] \in {start, end} /\ \A j \in ends : i <= j)
    IN  [k \in 1 .. Len(hits) - 1 |-> SubSeq(body, hits[k] + 1, hits[k + 1] - 1)]

LastValue(headers, key) ==
    LET named == SelectSeq(headers, LAMBDA h : h.key = key)
    IN  IF named = <<>> THEN <<>> ELSE Last(named).value

\* The headers are parsed, or folded, before the body is walked.
BadHeaders(m) == Empties(m) # {} /\ ~AllParse(Headers(m))

\* parseMIMERecursive: the leaves of a message, "died" and "thrown" where it ends the
\* process or throws; nested multiparts have their depth bound in Depth.  The type is
\* uninitialised, here unset, without a Content-Type.
Depth == 2
Leaves(message, unset) ==
    LET at[d \in 0 .. Depth, m \in Lines] ==
            IF BadHeaders(m) THEN <<[type |-> "thrown", content |-> <<>>]>>
            ELSE IF ~Splits(m) THEN <<[type |-> "died", content |-> <<>>]>>
            ELSE LET value == LastValue(ParseHeaders(Headers(m)), <<"content-type">>)
                     type == IF value = <<>> THEN unset ELSE TypeOf(value)
                     parts == Sections(Body(m), BoundaryOf(value))
                 IN  IF type \in Multipart /\ d > 0
                     THEN FlattenSeq([i \in 1 .. Len(parts) |-> at[d - 1, parts[i]]])
                     ELSE <<[type |-> type, content |-> Body(m)]>>
    IN  at[Depth, message]

-----------------------------------------------------------------------------
(* DKIM *)

\* The canonicalisation of the headers and of the body; anything else is relaxed.
OurCanon == <<"relaxed/relaxed">>
CanonicalBody(canon, body) ==
    IF canon \in {<<"relaxed/simple">>, <<"simple/simple">>} THEN SimpleBody(body)
    ELSE RelaxedBody(body)
\* Only the relaxed one throws for a key of the filter that no header has.
IsSimple(canon) == canon \in {<<"simple/relaxed">>, <<"simple/simple">>}
CanonicalHeaders(canon, lines, filter) ==
    IF IsSimple(canon) THEN SimpleHeaders(lines, filter) ELSE RelaxedHeaders(lines, filter)

\* sha256base64 of the canonicalised body.
BodyHash(canonical) == IF canonical = attested.body THEN Hash ELSE OtherHash

\* Hashes::RSAShagenerateSignature: the file with the private key is opened and read
\* for every message; if that fails, it throws.
NoSignature == <<>>
RSAgenerateSignature == {Signature, NoSignature}

\* DKIMHeader::getHeaderString, buildHeaderFromSegments and DKIMHeader::build.
HeaderString(keys) ==
    FlattenSeq([i \in 1 .. Len(keys) |-> IF i = 1 THEN keys[i] ELSE <<":">> \o keys[i]])
FromSegments(label, segments) ==
    label \o <<":", SP>> \o FlattenSeq([i \in 1 .. Len(segments) |->
        segments[i][1] \o <<"=">> \o segments[i][2]
            \o IF i < Len(segments) THEN <<";", SP>> ELSE <<>>])
SignatureHeader(hash, signature) ==
    FromSegments(DkimKey,
        <<<<<<"v">>, <<"1">>>>, <<<<"s">>, <<"k">>>>, <<<<"h">>, HeaderString(Filter)>>,
          <<<<"d">>, <<"d", ".", "n">>>>, <<<<"c">>, OurCanon>>, <<<<"a">>, <<"r">>>>,
          <<<<"t">>, <<"0">>>>, <<<<"x">>, <<"1">>>>, <<<<"b", "h">>, hash>>,
          <<<<"b">>, signature>>>>)

\* DKIMHeader::parse: every segment that is not empty has a "=".
Segments(value) == SelectSeq(Split(value, ";"), LAMBDA s : s # <<>>)
IsSignature(value) == \A s \in ToSet(Segments(value)) : Has(s, "=")
Tag(value, name) ==
    LET named == SelectSeq(Segments(value), LAMBDA s :
                     Trim(SubSeq(s, 1, First(s, "=") - 1)) = name)
    IN  IF named = <<>> THEN <<>>
        ELSE LastOff(From(Last(named), First(Last(named), "=") + 1), SP)

\* What precedes the signature: up to the first "b=", wherever that is.
SignatureAt(value) ==
    {i \in 1 .. Len(value) - 1 : value[i] = "b" /\ value[i + 1] = "="}
UpToSignature(value) ==
    SubSeq(value, 1, (CHOOSE i \in SignatureAt(value) : \A j \in SignatureAt(value) : i <= j) + 1)

\* DKIMRecord::parse up to a segment without "=", which throws.
ReadRecord(txt) ==
    LET bad == {i \in DOMAIN txt : txt[i].key = Broken}
    IN  IF bad = {} THEN txt
        ELSE SubSeq(txt, 1, (CHOOSE i \in bad : \A j \in bad : i <= j) - 1)
IsRecord(txt) == ReadRecord(txt) = txt
\* DKIMRecord::fromDNS: goes on after a record that can be parsed, stops at one that
\* cannot, and the last key read counts.  If that was the first, a query for a CNAME
\* decides between what was read and none.
KeyFound(txts) ==
    LET bad == {i \in DOMAIN txts : ~IsRecord(txts[i])}
        last == IF bad = {} THEN Len(txts) ELSE CHOOSE i \in bad : \A j \in bad : i <= j
        p == SelectSeq(FlattenSeq([i \in 1 .. last |-> ReadRecord(txts[i])]),
                       LAMBDA segment : segment.key = "p")
        key == IF p = <<>> THEN "no key" ELSE Last(p).val
    IN  IF txts = <<>> \/ 1 \in bad THEN {NoRecord, key} ELSE {key}

\* Hashes::RSAverify: a key that is none throws.
RSAverify(key, signature, headers) ==
    IF key = "no key" THEN "failure"
    ELSE IF key = OurKey /\ headers = attested.headers /\ signature = Signature THEN "valid"
    ELSE "invalid"

\* validateSignature.
Verdict(value, headers, body, key) ==
    LET others == SelectSeq(headers, LAMBDA h : h.key # DkimKey)
        presign == Rebuilt([key |-> DkimKey, value |-> UpToSignature(value)])
        lines == Append([i \in 1 .. Len(others) |-> Rebuilt(others[i])], presign)
        filter == Append(Split(Tag(value, <<"h">>), ":"), DkimKey)
        canon == Tag(value, <<"c">>)
    IN  IF ~IsSignature(value) THEN "failure"
        ELSE IF BodyHash(CanonicalBody(canon, body)) # Tag(value, <<"b", "h">>) THEN "invalid"
        ELSE IF key = NoRecord THEN "not found"
        ELSE IF SignatureAt(value) = {} THEN "invalid"
        ELSE IF ~IsSimple(canon) /\ ~FilterFound(lines, filter) THEN "failure"
        ELSE RSAverify(key, Tag(value, <<"b">>), CanonicalHeaders(canon, lines, filter))

-----------------------------------------------------------------------------
(* The stages *)

MessageInit ==
    /\ \/ \E m \in Submitted : given = m /\ config = NoConfig /\ stage = "submitted"
       \/ \E c \in Configs : given = Compose(c) /\ config = c /\ stage = "queued"
    /\ text = given
    /\ attested = Nothing /\ published = <<>> /\ verdicts = <<>> /\ filed = Nothing

\* What dataHandler adds: the results of the checks, and Received.
AddedHeaders == <<
    <<"x-fannst-auth", ":", SP, "s", "=", "p", ";", SP, "d", "=", "f">>,
    <<"received", ":", SP, "f", SP, "w", SP, "E", ";", SP, "(", "e", ")", ";", SP, "0">>>>
RebuiltMessage(m) ==
    FoldAll(JoinHeaders(Headers(m)) \o AddedHeaders) \o <<<<>>, <<>>>> \o Body(m)

\* dataHandler from the splitting of the text to what it keeps of the message; the
\* first address of From is taken although there may be none.
File(next) ==
    \/ /\ BadHeaders(text)
       /\ stage' = "thrown" /\ UNCHANGED <<text, filed>>
    \/ /\ ~BadHeaders(text) /\ ~Splits(text)
       /\ stage' = "died" /\ UNCHANGED <<text, filed>>
    \/ /\ ~BadHeaders(text) /\ Splits(text)
       /\ \E m \in {RebuiltMessage(text)}, unset \in Types :
              LET headers == ParseHeaders(Headers(m))
                  leaves == Leaves(m, unset)
                  ends == SelectSeq(leaves, LAMBDA l : l.type \in {"thrown", "died"})
              IN  /\ text' = m
                  /\ filed' = [headers |-> headers, body |-> leaves]
                  /\ stage' = IF \E h \in ToSet(headers) :
                                    h.key \in {<<"from">>, <<"to">>} /\ ~IsAddressList(h.value)
                              THEN "thrown"
                              ELSE IF ends # <<>> THEN ends[1].type
                              ELSE IF LastValue(headers, <<"from">>) = <<>> THEN "died"
                              ELSE next

Submit ==
    /\ stage = "submitted"
    /\ File("queued")
    /\ UNCHANGED <<given, config, attested, published, verdicts>>

\* generateBodyHash and generateSignature, up to the hash and the signature themselves.
HashedBody(m) == CanonicalBody(OurCanon, Body(m))
SignedHeaders(lines, filter) == CanonicalHeaders(OurCanon, lines, filter)

\* Wrong on purpose: the headers are canonicalised line by line.
SignUnjoined ==
    /\ stage = "queued"
    /\ LET lines == Append(SelectSeq(Headers(text), Parses), SignatureHeader(Hash, <<>>))
           filter == Append(Filter, DkimKey)
       IN  IF ~Splits(text) \/ ~FilterFound(lines, filter)
           THEN stage' = "unsigned" /\ UNCHANGED <<text, attested>>
           ELSE /\ attested' = [body |-> HashedBody(text),
                                headers |-> SignedHeaders(lines, filter)]
                /\ text' = Headers(text) \o FoldHeader(SignatureHeader(Hash, Signature))
                           \o <<<<>>>> \o Body(text)
                /\ stage' = "signed"
    /\ UNCHANGED <<given, config, published, verdicts, filed>>

\* DKIMSigner::sign, called by SMTPClient::prepare; it throws if a header of the
\* filter is missing, "unsigned", and without the private key, "keyless".
Sign ==
    /\ stage = "queued"
    /\ IF ~Splits(text) THEN stage' = "died" /\ UNCHANGED <<text, attested>>
       ELSE LET presign == SignatureHeader(Hash, <<>>)
                lines == Append(JoinHeaders(Headers(text)), presign)
                filter == Append(Filter, DkimKey)
            IN  IF ~FilterFound(lines, filter)
                THEN stage' = "unsigned" /\ UNCHANGED <<text, attested>>
                ELSE \E signature \in RSAgenerateSignature :
                         IF signature = NoSignature
                         THEN stage' = "keyless" /\ UNCHANGED <<text, attested>>
                         ELSE /\ attested' = [body |-> HashedBody(text),
                                              headers |-> SignedHeaders(lines, filter)]
                              /\ text' = Headers(text)
                                         \o FoldHeader(SignatureHeader(Hash, signature))
                                         \o <<<<>>>> \o Body(text)
                              /\ stage' = "signed"
    /\ UNCHANGED <<given, config, published, verdicts, filed>>

\* The text goes out as it is, followed by a line with a dot; a line of the text that
\* is one ends it.
Transmit ==
    /\ stage = "signed"
    /\ LET dots == {i \in DOMAIN text : text[i] = <<".">>}
       IN  text' = IF dots = {} THEN text
                   ELSE SubSeq(text, 1, (CHOOSE i \in dots : \A j \in dots : i <= j) - 1)
    /\ stage' = "arrived"
    /\ UNCHANGED <<given, config, attested, published, verdicts, filed>>

\* DKIMValidator::validate; all signatures of a message are of one selector here.
Validate ==
    /\ stage = "arrived"
    /\ IF BadHeaders(text) THEN stage' = "thrown" /\ UNCHANGED <<published, verdicts>>
       ELSE IF ~Splits(text) THEN stage' = "died" /\ UNCHANGED <<published, verdicts>>
       ELSE \E txts \in KeyTxt : \E key \in KeyFound(txts) :
            LET headers == ParseHeaders(Headers(text))
                signatures == SelectSeq(headers, LAMBDA h : h.key = DkimKey)
            IN  /\ verdicts' = [i \in 1 .. Len(signatures) |->
                                   Verdict(signatures[i].value, headers, Body(text), key)]
                /\ published' = txts
                /\ stage' = "judged"
    /\ UNCHANGED <<text, given, config, attested, filed>>

Receive ==
    /\ stage = "judged"
    /\ File("filed")
    /\ UNCHANGED <<given, config, attested, published, verdicts>>

MessageEnded ==
    /\ stage \in {"filed", "unsigned", "keyless", "thrown", "died"}
    /\ UNCHANGED messageVars

MessageNext == Submit \/ Sign \/ Transmit \/ Validate \/ Receive \/ MessageEnded
MessageSpec == MessageInit /\ [][MessageNext]_messageVars

-----------------------------------------------------------------------------
(* Properties *)

\* No line of the message is the one that ends it on the wire.
Dotless == \A i \in DOMAIN given : given[i] # <<".">>
SignedBefore == \E h \in ToSet(ParseHeaders(Headers(given))) : h.key = DkimKey

\* Whatever blanks, tabs, semicolons and folds its headers have, a message signed by
\* our client verifies at our server, unless it was signed before or something else
\* than our key is published: the two sides canonicalise texts that were split and
\* joined differently (DKIMSigner.src.cc 104-131, DKIMValidator.src.cc 207-220).
OnlyOurs(txts) ==
    /\ txts # <<>>
    /\ \A i \in DOMAIN txts : \E j \in DOMAIN txts[i] :
           txts[i][j] = [key |-> "p", val |-> OurKey] /\ Broken \notin {s.key : s \in ToSet(txts[i])}
SignedVerifies ==
    stage \in {"judged", "filed"} /\ Dotless /\ ~SignedBefore /\ OnlyOurs(published)
        => verdicts = <<"valid">>

\* Folding, at every length around the limit, and joining again, twice over, lose,
\* repeat and reorder nothing of a header but blanks and semicolons, and the body is
\* kept line by line.
Words(t) == SelectSeq(t, LAMBDA c : c \notin {SP, TAB, ";"})
TextKept ==
    stage = "filed" /\ Dotless =>
        LET before == ParseHeaders(Headers(given))
        IN  /\ \A i \in DOMAIN before :
                   /\ filed.headers[i].key = before[i].key
                   /\ Words(filed.headers[i].value) = Words(before[i].value)
            /\ Body(text) = Body(given)

\* A message of our own making, such as the report of a failure, is always signed if
\* there is a key, parsed and filed, with its sections, their types and its sender.
Shown(lines) ==
    LET full == {0} \cup {i \in DOMAIN lines : lines[i] # <<>>}
    IN  SubSeq(lines, 1, CHOOSE i \in full : \A j \in full : j <= i)
ReportArrives ==
    config # NoConfig /\ Dotless =>
        /\ stage \notin {"unsigned", "thrown", "died"}
        /\ stage = "filed" =>
               /\ Len(filed.body) = Len(config.sections)
               /\ \A i \in DOMAIN filed.body :
                      /\ filed.body[i].type = config.sections[i].type
                      /\ Shown(filed.body[i].content) = Shown(EncodedBody(config.sections[i]))
               /\ ParseAddressList(LastValue(filed.headers, <<"from">>))
                      = [i \in 1 .. Len(config.from) |-> config.from[i].address]
=============================================================================
