--------------------------- MODULE MCMessagePath ----------------------------
(* Users' messages with every subject of three pieces, folded or not, and four  *)
(* bodies; some that lack something or are signed already.  Reports with one or *)
(* two sections.  Lines of nine tokens, so that most headers are folded.        *)
EXTENDS MessagePath
MCTokens == {"a", "b", "c", "d", "e", "f", "g", "h", "k", "n", "p", "r", "s", "t", "u", "v", "w",
             "x", "i", "0", "1", "3", "B", "D", "E", "F", "H", "I", "M", "N", "R", "S",
             " ", "\t", ";", ":", "=", ".", ",", "\"", "<", ">", "@", "-", "(", ")",
             "subject", "from", "to", "date", "mime-version", "message-id", "x-mailer",
             "received", "x-fannst-auth", "dkim-signature", "content-type", "charset",
             "relaxed/relaxed", "simple/simple", "boundary", "content-transfer-encoding", "quoted-printable", "7bit",
             "text/plain", "text/html", "multipart/mixed", "multipart/alternative", "unknown"}
MCFilter == <<<<"subject">>, <<"from">>, <<"message-id">>>>
MCHash == <<"H", "H", "H", "=">>
MCOtherHash == <<"I", "I", "I", "=">>
MCSignature == <<"S", "R", "S", "R", "S", "R", "S", "R", "S", "R", "=">>

Seg(key, val) == [key |-> key, val |-> val]
MCKeyTxt == {
    <<<<Seg("v", "1"), Seg("p", OurKey)>>>>,
    <<<<Seg("p", "another key")>>, <<Seg("p", OurKey), Seg(Broken, "")>>, <<Seg("p", "no key")>>>>,
    <<<<Seg(Broken, "")>>, <<Seg("p", OurKey)>>>>}

Pieces1 == {<<>>, <<" ", "b", " ">>, <<"d", ";">>, <<"u", "v", "w", "x", "n">>, <<"\t">>,
            <<" ", " ">>, <<";", "e", " ", "h">>}
Pieces2 == {<<>>, <<"c", " ">>, <<"f", "g", ";", " ", "k">>, <<" ", "r", "s", "t", "p", "i", "0", "1", "3">>}
Subjects == {<<<<"subject", ":">> \o a \o b \o c>> : a, b \in Pieces1, c \in Pieces2}
            \cup {<<<<"subject", ":">> \o a, <<i>> \o c>> : a \in Pieces1, c \in Pieces2,
                                                         i \in {" ", "\t"}}
Sender == <<<<"from", ":", " ", "\"", "N", ",", " ", "M", "\"">>, <<" ", " ", "<", "a", "@", "b", ".", "c", ">">>>>
MessageId == <<<<"message-id", ":", "1">>>>
Html == <<<<"content-type", ":", " ", "text/html", ";", " ", "charset", "=", "u">>>>
Plain == <<<<"a", " ", " ", "b", " ">>, <<>>, <<"\t", "c">>, <<" ">>, <<>>>>
Mixed == <<<<"content-type", ":", "multipart/mixed", ";", "boundary", "=", "B">>>>
Parts == <<<<"-", "-", "a">>, <<"-", "-", "B">>, <<"content-type", ":", " ", "text/plain">>, <<>>,
           <<"a">>, <<"-", "-", "B">>, <<>>, <<>>, <<"b">>, <<"-", "-", "B", "-", "-">>, <<"c">>>>
EmptyPart == <<<<"-", "-", "B">>, <<>>, <<"-", "-", "B", "-", "-">>>>
Dot == <<<<"a">>, <<".">>, <<"b">>>>
Foreign == <<<<"dkim-signature", ":", " ", "h", "=", "from", ";", "b", "h", "=", "I", ";", "b", "=", "S">>>>
Simple == <<<<"dkim-signature", ":", " ", "h", "=", "from", ":", "date", ";", "c", "=", "simple/simple", ";">>,
            <<" ", "b", "h", "=", "H", "H", "H", "=", ";", "b", "=", "S">>>>
Short == <<<<"subject", ":", " ", "a">>>>
Blank == <<<<>>>>
MCSubmitted ==
    {MessageId \o s \o Sender \o Html \o Blank \o Plain : s \in Subjects}
    \cup {h \o Short \o i \o t \o Blank \o b :
               h \in {Foreign, <<>>}, i \in {Sender, <<<<"from", ":", "a">>>>, <<>>},
               t \in {MessageId, MessageId \o Html, MessageId \o Mixed, Html, <<<<"a">>>>},
               b \in {Plain, Parts, EmptyPart, Dot, <<>>, Blank}}
    \cup {Simple \o Short \o Sender \o MessageId \o Blank \o b : b \in {Plain, Parts}}
    \cup {Short \o Sender}

Section(type, qp, raw) == [type |-> type, qp |-> qp, raw |-> raw]
Raws == {<<<<" ", "a", " ", " ", "b", "=", "c">>, <<>>, <<>>, <<" ", "d", " ">>, <<"e", "\t">>>>,
         <<<<>>, <<"a", "b", "c", "d", "e", "f", "g", "h", "k", "n", "p", "r", " ">>, <<"-", "-", "=">>>>,
         <<<<"<", "a", ">">>, <<" ">>, <<"=", "=", "=", "a", " ">>>>}
OneSection == {<<Section(t, q, r)>> : t \in {"text/plain", "text/html"}, q \in BOOLEAN, r \in Raws}
MCSections == OneSection \cup
    {<<Section("text/plain", FALSE, a), Section("text/html", TRUE, b)>> : a, b \in Raws}
Address(name, at) == [name |-> name, address |-> at]
AddressOf(u) == <<u, "@", "n", ".", "d">>
MCAddresses == {<<Address(<<>>, AddressOf("a"))>>,
                <<Address(<<"N", ",", " ", "M">>, AddressOf("a")), Address(<<>>, AddressOf("b"))>>}
MCConfigs == {[subject |-> <<"S", " ", "d", " ", "f">>, from |-> f, to |-> t, sections |-> s] :
                  f, t \in MCAddresses, s \in MCSections}
=============================================================================
