-------------------------------- MODULE Wire --------------------------------
(***************************************************************************)
(* A command and its reply on the wire: lib/networking/sockets/            *)
(* ClientSocket.src.cc (readToDelim over peek and read),                   *)
(* lib/smtp/Command.src.cc and Response.src.cc, and the SMTP client's      *)
(* reading loops; and lib/pop3/P3Commands.src.cc and P3Response.src.cc,    *)
(* whose client is some mail reader.                                       *)
(*                                                                         *)
(* What one side writes reaches the other in pieces, cut anywhere.  The    *)
(* two take turns: nothing is sent before the reply to the last command    *)
(* was read.  A byte of a text is a member of a small set here: digits,    *)
(* punctuation, CR, LF, and one "byte" per half of a keyword or per word.  *)
(* The case of keywords is left out: both parsers fold it.                 *)
(***************************************************************************)
EXTENDS Naturals, SequencesExt

CONSTANTS Room,          \* what peek looks at beyond the delimiter's size (255)
          Commands,      \* SMTP commands a client may send, as <<type, args>>
          Messages,      \* message texts (sequences of bytes), never dot-stuffed
          Services,      \* the lines of the EHLO reply after the first
          P3Requests,    \* POP3 commands, as <<type, args>>
          Lists          \* what a POP3 reply may list, one line each

Txt == INSTANCE Text WITH Tokens <- STRING, LineLength <- 128

Crlf == <<"CR", "LF">>
EndOfData == Crlf \o <<".">> \o Crlf
NotFound == 0

-----------------------------------------------------------------------------
(* Texts *)

\* std::string::find, counting from 1.
Positions(text, part) ==
    {i \in 1 .. Len(text) - Len(part) + 1 : SubSeq(text, i, i + Len(part) - 1) = part}
Find(text, part) ==
    LET found == Positions(text, part)
    IN IF found = {} THEN NotFound ELSE CHOOSE i \in found : \A j \in found : i <= j

From(text, i) == SubSeq(text, i, Len(text))
UpTo(text, i) == SubSeq(text, 1, IF i < Len(text) THEN i ELSE Len(text))

\* reduceWhitespace: runs of blanks become one; one blank goes at either end.
Reduced(text) ==
    LET once == Txt!Squeeze(text)
        front == IF Len(once) >= 2 THEN Txt!OneOff(once, " ") ELSE once
    IN IF Len(once) >= 2 THEN Txt!LastOff(front, " ") ELSE front

\* The pieces between blanks, as a getline loop splits them: no empty last piece.
Words(text) ==
    LET pieces == Txt!Split(text, " ")
    IN IF Last(pieces) = <<>> THEN Front(pieces) ELSE pieces

\* A command's type by its name, which ends at cut, and the words after that.
Parsed(keywords, raw, cut) ==
    LET named == {type \in DOMAIN keywords :
                      keywords[type] = IF cut = NotFound THEN raw ELSE UpTo(raw, cut - 1)}
    IN <<IF named = {} THEN "UNKNOWN" ELSE CHOOSE type \in named : TRUE,
         IF cut = NotFound THEN <<>> ELSE Words(Reduced(From(raw, cut + 1)))>>

-----------------------------------------------------------------------------
(* SMTP commands *)

Keyword == [HELO |-> <<"he", "lo">>, EHLO |-> <<"eh", "lo">>, HELP |-> <<"he", "lp">>,
            START_TLS |-> <<"start", "tls">>, SU |-> <<"s", "u">>,
            MAIL_FROM |-> <<"mail", " ", "from">>, RCPT_TO |-> <<"rcpt", " ", "to">>,
            DATA |-> <<"da", "ta">>, QUIT |-> <<"qu", "it">>, AUTH |-> <<"au", "th">>,
            FCAPA |-> <<"f", "capa">>]

CommandText(command) ==
    Keyword[command[1]]
        \o (IF command[1] \in {"MAIL_FROM", "RCPT_TO"} THEN <<":">> ELSE <<>>)
        \o FlattenSeq([i \in 1 .. Len(command[2]) |-> <<" ">> \o command[2][i]])
BuildCommand(command) == CommandText(command) \o Crlf

\* The first colon ends the name, or else the first blank.
ParseCommand(raw) ==
    LET colon == Find(raw, <<":">>)
    IN Parsed(Keyword, raw, IF colon # NotFound THEN colon ELSE Find(raw, <<" ">>))

-----------------------------------------------------------------------------
(* SMTP replies *)

Code == [SPAM_ALERT |-> <<"5", "5", "4">>, GREETING |-> <<"2", "2", "0">>,
         EHLO |-> <<"2", "5", "0">>, HELO |-> <<"2", "5", "0">>,
         MAIL_FROM |-> <<"2", "5", "0">>, RCPT_TO |-> <<"2", "5", "0">>,
         DATA_START |-> <<"3", "5", "4">>, DATA_END |-> <<"2", "5", "0">>,
         QUIT_GOODBYE |-> <<"2", "2", "1">>, SYNTAX_ERR |-> <<"5", "0", "1">>,
         ORDER_ERR |-> <<"5", "0", "3">>, INVALID_COMMAND |-> <<"5", "0", "2">>,
         START_TLS |-> <<"2", "2", "0">>, REC_NOT_LOCAL |-> <<"5", "5", "1">>,
         AUTH_SUCCESS |-> <<"2", "3", "5">>, AUTH_FAIL |-> <<"5", "3", "0">>,
         RELAY_FAIL |-> <<"5", "5", "1">>, HELP_RESP |-> <<"2", "1", "4">>,
         AUTH_NOT_ALLOWED |-> <<"5", "5", "1">>, SU_ACC |-> <<"6", "0", "0">>,
         SU_DENIED |-> <<"6", "5", "1">>, FCAPA_RESP |-> <<"6", "0", "1">>,
         SPF_REJECT |-> <<"5", "5", "0">>, MESSAGE_TOO_LARGE |-> <<"5", "5", "6">>]

\* getEnchancedCode: three of its own, none for the first steps of a conversation.
Enhanced(type) ==
    IF type \in {"DATA_START", "GREETING", "EHLO", "HELO"} THEN <<>>
    ELSE IF type \in {"SU_ACC", "SU_DENIED", "FCAPA_RESP"} THEN <<"6.x.x", " ">>
    ELSE IF Code[type][1] = "2" \/ type = "START_TLS" THEN <<"2.x.x", " ">>
    ELSE <<"5.x.x", " ">>

\* getMessage: the text given, or that of the type.
Message(type) ==
    IF type = "GREETING" THEN <<"node", " ", "ESMTP", " ", "ready">>
    ELSE IF type \in {"EHLO", "HELO"} THEN <<"domain", ",", " ", "service">>
    ELSE <<type, " ", "text">>

OneLine(type) ==
    Code[type] \o <<" ">> \o Enhanced(type) \o Message(type) \o <<" ", "-", " ", "fsmtp">>

\* Wrong on purpose: the last line of the EHLO reply has a dash too.
ResponseAllDashes(type) ==
    IF type # "EHLO" THEN <<OneLine(type)>>
    ELSE <<Code[type] \o <<"-">> \o Message(type)>>
         \o [i \in 1 .. Len(Services) |-> Code[type] \o <<"-">> \o Services[i]]

\* The lines of a reply: one, or the greeting's and one per service; the code is
\* followed by a blank in the last line and by a dash in the others.
Response(type) ==
    IF type # "EHLO" THEN <<OneLine(type)>>
    ELSE <<Code[type] \o <<"-">> \o Message(type)>>
         \o [i \in 1 .. Len(Services) |->
                Code[type] \o <<IF i = Len(Services) THEN " " ELSE "-">> \o Services[i]]

\* What the server may answer to a command (SmtpServer says when).
Errors == {"SYNTAX_ERR", "ORDER_ERR", "INVALID_COMMAND"}
Answers(type) ==
    CASE type = "MAIL_FROM" -> {"MAIL_FROM", "AUTH_NOT_ALLOWED"} \cup Errors
      [] type = "RCPT_TO" -> {"RCPT_TO", "RELAY_FAIL", "REC_NOT_LOCAL"} \cup Errors
      [] type = "DATA" -> {"DATA_START", "ORDER_ERR"}
      [] type = "QUIT" -> {"QUIT_GOODBYE"}
      [] type = "HELP" -> {"HELP_RESP"}
      [] type = "SU" -> {"SU_ACC", "SU_DENIED"}
      [] type = "FCAPA" -> {"FCAPA_RESP"}
      [] type = "AUTH" -> {"AUTH_SUCCESS", "AUTH_FAIL"} \cup Errors
      [] type = "UNKNOWN" -> {"INVALID_COMMAND"}
      [] type = "MESSAGE" -> {"DATA_END", "SPF_REJECT"}
      [] OTHER -> {type} \cup Errors

\* A reply read: the client joins its lines without the codes of the later ones
\* and the dash of the first, and parses the sum.
Heard(lines) ==
    LET first == IF lines[1][4] = "-" THEN [lines[1] EXCEPT ![4] = " "] ELSE lines[1]
        clean == Reduced(first \o FlattenSeq([i \in 1 .. Len(lines) - 1 |-> From(lines[i + 1], 5)]))
        blank == Find(clean, <<" ">>)
    IN IF blank = NotFound THEN <<clean, <<>>>>
       ELSE <<UpTo(clean, blank - 1), From(clean, blank + 1)>>

\* EHLO's reply is read by a loop of its own, as a list of options; the code is
\* then taken to be 250.
Options(lines) ==
    <<Code["EHLO"], [i \in 1 .. Len(lines) |-> Reduced(From(lines[i], 5))]>>

-----------------------------------------------------------------------------
(* POP3 *)

P3Keyword == [CAPA |-> <<"capa">>, TOP |-> <<"top">>, QUIT |-> <<"quit">>,
              STLS |-> <<"st", "ls">>, STAT |-> <<"st", "at">>, USER |-> <<"us", "er">>,
              UIDL |-> <<"ui", "dl">>, PASS |-> <<"pa", "ss">>, LIST |-> <<"li", "st">>,
              RETR |-> <<"re", "tr">>, RSET |-> <<"rs", "et">>, DELE |-> <<"de", "le">>,
              IMPLEMENTATION |-> <<"implemen", "tation">>]

\* A mail reader's command, with a blank too many.
P3Text(request) ==
    P3Keyword[request[1]]
        \o FlattenSeq([i \in 1 .. Len(request[2]) |-> <<" ", " ">> \o request[2][i]])
        \o <<" ">>
P3Line(request) == P3Text(request) \o Crlf

P3Parse(raw) == Parsed(P3Keyword, Reduced(raw), Find(Reduced(raw), <<" ">>))

\* One line, and after it the elements and a dot when there is a list.
P3Response(ok, listed) ==
    <<<<IF ok THEN "+" ELSE "-", IF ok THEN "OK" ELSE "ERR", " ", "text">>>>
        \o (IF listed = "none" THEN <<>> ELSE Append(Lists[listed], <<".">>))

-----------------------------------------------------------------------------
(* What is sent *)

Bytes == Seq(STRING)
ASSUME WireConstants ==
    /\ Room \in Nat
    /\ Commands \subseteq (DOMAIN Keyword) \X Seq(Bytes)
    /\ P3Requests \subseteq (DOMAIN P3Keyword) \X Seq(Bytes)
    /\ Messages \subseteq Bytes /\ Services \in Seq(Bytes)
    /\ \A listed \in DOMAIN Lists : Lists[listed] \in Seq(Bytes)

\* A text and its delimiter: the text is no shorter, and the delimiter does not occur
\* before it.
Delimits(delim, text) == Find(text \o delim, delim) = Len(text) + 1
Ends(delim, text) == Delimits(delim, text) /\ Len(text) >= Len(delim)

\* What readToDelim needs of the texts, however they arrive; and a line of a POP3 list
\* is no dot.
TextsEnd ==
    /\ \A command \in Commands : Ends(Crlf, CommandText(command))
    /\ \A message \in Messages : Delimits(EndOfData, message)
    /\ \A type \in DOMAIN Code :
          \A i \in DOMAIN Response(type) : Ends(Crlf, Response(type)[i])
    /\ \A request \in P3Requests : Ends(Crlf, P3Text(request))
    /\ \A ok \in BOOLEAN : Delimits(Crlf, P3Response(ok, "none")[1])
    /\ \A listed \in DOMAIN Lists : \A i \in DOMAIN Lists[listed] :
          Delimits(Crlf, Lists[listed][i]) /\ Lists[listed][i] # <<".">>

\* The parsers undo what the builders do.
ParsersUndo ==
    /\ \A command \in Commands : ParseCommand(CommandText(command)) = command
    /\ \A request \in P3Requests : P3Parse(P3Text(request)) = request
    /\ \A type \in DOMAIN Code : Heard(Response(type))[1] = UpTo(Response(type)[1], 3)
    /\ Options(Response("EHLO"))[2]
          = [i \in DOMAIN Response("EHLO") |-> From(Response("EHLO")[i], 5)]

-----------------------------------------------------------------------------
(* Two sides *)

Sides == {"client", "server"}
Other(side) == IF side = "client" THEN "server" ELSE "client"

VARIABLES protocol,    \* smtp or pop3
          flight,      \* bytes on their way to a side
          arrived,     \* bytes in a side's socket
          result,      \* what its readToDelim has collected
          want,        \* how much it is about to read; 0 before the peek
          found,       \* endFound
          waits,       \* what a side reads: a line, the message, or nothing
          said,        \* the last command or message sent
          answer,      \* the lines of the server's last reply
          understood,  \* what the server took the command for
          heard,       \* the lines of the reply the client has read
          astray       \* history: the sides that have read past a delimiter

vars == <<protocol, flight, arrived, result, want, found, waits, said, answer,
          understood, heard, astray>>

Nothing == <<>>

Init ==
    /\ protocol \in {"smtp", "pop3"}
    /\ answer = IF protocol = "smtp" THEN Response("GREETING") ELSE P3Response(TRUE, "none")
    /\ flight = [side \in Sides |-> IF side = "client" THEN answer[1] \o Crlf ELSE Nothing]
    /\ arrived = [side \in Sides |-> Nothing]
    /\ result = [side \in Sides |-> Nothing]
    /\ want = [side \in Sides |-> 0]
    /\ found = [side \in Sides |-> FALSE]
    /\ waits = [client |-> "reply", server |-> "command"]
    /\ said = <<"NONE", <<>>>> /\ understood = said
    /\ heard = <<>> /\ astray = {}

Write(from, text) == flight' = [flight EXCEPT ![Other(from)] = @ \o text]

-----------------------------------------------------------------------------
(* Reading: one round of readToDelim's loop is a peek and a read *)

Delimiter(side) == IF waits[side] = "message" THEN EndOfData ELSE Crlf

\* A piece arrives: any number of bytes, at any time, the one between a peek and the
\* read that depends on it included.
Arrive(side) ==
    /\ flight[side] # Nothing
    /\ \E n \in 1 .. Len(flight[side]) :
          /\ arrived' = [arrived EXCEPT ![side] = @ \o UpTo(flight[side], n)]
          /\ flight' = [flight EXCEPT ![side] = From(@, n + 1)]
    /\ UNCHANGED <<protocol, result, want, found, waits, said, answer, understood, heard,
                   astray>>

\* Wrong on purpose: the end of the result is not looked at again.
PeekAlone(side) ==
    LET delim == Delimiter(side)
        seen == UpTo(arrived[side], Len(delim) + Room)
        index == Find(seen, delim)
    IN /\ protocol = "smtp" \/ side = "server"
       /\ waits[side] \in {"reply", "command", "message"}
       /\ want[side] = 0
       /\ arrived[side] # Nothing
       /\ found' = [found EXCEPT ![side] = index # NotFound]
       /\ want' = [want EXCEPT ![side] = IF index = NotFound THEN Len(delim) - 1
                                         ELSE index - 1 + Len(delim)]
       /\ UNCHANGED <<protocol, flight, arrived, result, waits, said, answer, understood,
                      heard, astray>>

\* The search starts in what was read already, if that is longer than the
\* delimiter; an index of npos plus the delimiter's size wraps around.
Peek(side) ==
    LET delim == Delimiter(side)
        seen == UpTo(arrived[side], Len(delim) + Room)
        before == IF Len(result[side]) > Len(delim)
                  THEN From(result[side], Len(result[side]) - Len(delim) + 1) ELSE <<>>
        index == Find(before \o seen, delim)
    IN /\ protocol = "smtp" \/ side = "server"
       /\ waits[side] \in {"reply", "command", "message"}
       /\ want[side] = 0
       /\ arrived[side] # Nothing
       /\ found' = [found EXCEPT ![side] = index # NotFound]
       /\ want' = [want EXCEPT ![side] = IF index = NotFound THEN Len(delim) - 1
                                         ELSE index - 1 + Len(delim)]
       /\ UNCHANGED <<protocol, flight, arrived, result, waits, said, answer, understood,
                      heard, astray>>

Taken(side) == result[side] \o UpTo(arrived[side], want[side])

\* Wrong on purpose: the delimiter stays in the line.
Uncut(side) == Taken(side)

\* readToDelim's return, with its last bytes cut off.
Line(side) == UpTo(Taken(side), Len(Taken(side)) - Len(Delimiter(side)))

\* What was taken ends with its only delimiter if the peek saw one, and has none
\* otherwise.
WellRead(side) ==
    LET end == Find(Taken(side), Delimiter(side))
    IN /\ found[side] <=> end # NotFound
       /\ found[side] => end = Len(Taken(side)) - Len(Delimiter(side)) + 1

\* read.
Consume(side) ==
    /\ want[side] > 0
    /\ astray' = IF WellRead(side) THEN astray ELSE astray \cup {side}
    /\ arrived' = [arrived EXCEPT ![side] = From(@, want[side] + 1)]
    /\ want' = [want EXCEPT ![side] = 0]
    /\ found' = [found EXCEPT ![side] = FALSE]
    /\ result' = [result EXCEPT ![side] = IF found[side] THEN Nothing ELSE Taken(side)]

ReadOn(side) ==
    /\ Consume(side) /\ ~found[side]
    /\ UNCHANGED <<protocol, flight, waits, said, answer, understood, heard>>

-----------------------------------------------------------------------------
(* The client: SMTPClient, or a mail reader (external) *)

Say ==
    /\ waits["client"] = "nothing"
    /\ \E command \in IF protocol = "smtp" THEN Commands ELSE P3Requests :
          /\ said' = command
          /\ Write("client", IF protocol = "smtp" THEN BuildCommand(command)
                             ELSE P3Line(command))
    /\ waits' = [waits EXCEPT !["client"] = "reply"]
    /\ heard' = <<>>
    /\ UNCHANGED <<protocol, arrived, result, want, found, answer, understood, astray>>

\* After a 354: the message, and the end of the data.
SayMessage ==
    /\ waits = [client |-> "nothing", server |-> "message"]
    /\ \E message \in Messages :
          /\ said' = <<"MESSAGE", message>>
          /\ Write("client", message \o EndOfData)
    /\ waits' = [waits EXCEPT !["client"] = "reply"]
    /\ heard' = <<>>
    /\ UNCHANGED <<protocol, arrived, result, want, found, answer, understood, astray>>

\* A line of a reply is its last one when a blank follows the code, for EHLO's
\* when no dash does; in POP3, when it is the dot or nothing is listed.
IsLast(line) ==
    IF protocol = "pop3"
    THEN line = <<".">> \/ (heard = <<>> /\ Len(answer) = 1)
    ELSE IF said[1] = "EHLO" THEN Len(line) < 4 \/ line[4] # "-"
    ELSE Len(line) >= 4 /\ line[4] = " "

Hear(line) ==
    /\ heard' = Append(heard, line)
    /\ waits' = [waits EXCEPT !["client"] = IF IsLast(line) THEN "nothing" ELSE @]
    /\ UNCHANGED <<protocol, flight, said, answer, understood>>

HearLine ==
    /\ protocol = "smtp"
    /\ waits["client"] = "reply"
    /\ Consume("client") /\ found["client"]
    /\ Hear(Line("client"))

\* A mail reader takes the bytes up to the end of a line.
MailReaderHears ==
    LET index == Find(arrived["client"], Crlf)
    IN /\ protocol = "pop3"
       /\ index # NotFound
       /\ Hear(UpTo(arrived["client"], index - 1))
       /\ arrived' = [arrived EXCEPT !["client"] = From(@, index + 2)]
       /\ UNCHANGED <<result, want, found, astray>>

-----------------------------------------------------------------------------
(* The server *)

TakeCommand ==
    /\ waits["server"] = "command"
    /\ Consume("server") /\ found["server"]
    /\ \E line \in {Line("server")} :
          understood' = IF protocol = "smtp" THEN ParseCommand(line) ELSE P3Parse(line)
    /\ waits' = [waits EXCEPT !["server"] = "answer"]
    /\ UNCHANGED <<protocol, flight, said, answer, heard>>

\* dataHandler.
TakeMessage ==
    /\ waits["server"] = "message"
    /\ Consume("server") /\ found["server"]
    /\ understood' = <<"MESSAGE", Line("server")>>
    /\ waits' = [waits EXCEPT !["server"] = "answer"]
    /\ UNCHANGED <<protocol, flight, said, answer, heard>>

\* One write per reply; the server then reads the next command, or the message.
Reply(lines, next) ==
    /\ waits["server"] = "answer"
    /\ answer' = lines
    /\ Write("server", FlattenSeq([i \in 1 .. Len(lines) |-> lines[i] \o Crlf]))
    /\ waits' = [waits EXCEPT !["server"] = next]
    /\ UNCHANGED <<protocol, arrived, result, want, found, said, understood, heard, astray>>

AnswerCommand ==
    /\ protocol = "smtp"
    /\ \E type \in Answers(understood[1]) :
          Reply(Response(type), IF type = "DATA_START" THEN "message"
                                ELSE IF type \in {"QUIT_GOODBYE", "SU_DENIED"} THEN "end"
                                ELSE "command")

AnswerRequest ==
    /\ protocol = "pop3"
    /\ \E ok \in BOOLEAN, listed \in {"none"} \cup DOMAIN Lists :
          /\ listed # "none" => ok /\ understood[1] \in {"CAPA", "LIST", "UIDL"}
          /\ Reply(P3Response(ok, listed), IF understood[1] = "QUIT" THEN "end" ELSE "command")

\* The loops' catch clauses that write nothing: SMTP drops a command whose look-up
\* throws DatabaseException and reads the next one; whatever else is thrown ends the
\* connection of either protocol.
LooksUp == {"MAIL_FROM", "RCPT_TO", "AUTH"}
NoReply ==
    /\ waits["server"] = "answer"
    /\ \E next \in {"command", "end"} :
          /\ next = "command" => protocol = "smtp" /\ understood[1] \in LooksUp
          /\ waits' = [waits EXCEPT !["server"] = next]
    /\ answer' = <<>>
    /\ UNCHANGED <<protocol, flight, arrived, result, want, found, said, understood, heard,
                   astray>>

-----------------------------------------------------------------------------
Network == \E side \in Sides : Arrive(side)
Reader == \E side \in Sides : Peek(side) \/ ReadOn(side)
Client == (waits["server"] = "command" /\ Say) \/ SayMessage \/ HearLine \/ MailReaderHears
Server == TakeCommand \/ TakeMessage \/ AnswerCommand \/ AnswerRequest \/ NoReply
Next == Network \/ Reader \/ Client \/ Server

\* TCP delivers, a peek or read of what is there returns (every step of Consume
\* is one of ReadOn, HearLine, TakeCommand and TakeMessage), the server's handler
\* returns or throws, a mail reader reads; nobody has to say anything.
Fairness ==
    /\ \A side \in Sides : WF_arrived(Arrive(side)) /\ WF_want(Peek(side)) /\ WF_want(Consume(side))
    /\ WF_vars(AnswerCommand \/ AnswerRequest \/ NoReply) /\ WF_heard(MailReaderHears)
Spec == Init /\ [][Next]_vars /\ Fairness

-----------------------------------------------------------------------------
(* Properties *)

Answered == waits["client"] = "nothing"

\* Until a read of readToDelim takes bytes behind a delimiter, the server takes every
\* command or message for what was sent, and the client a reply for what was answered,
\* however the bytes are cut: no delimiter that arrives in two pieces is missed, no text
\* cut short or begun late, and the parsers undo what the builders do.
AnswersMatch ==
    astray = {} /\ Answered =>
        /\ understood = said
        /\ heard = answer
        /\ protocol = "smtp" =>
              IF said[1] = "EHLO" /\ Len(answer) > 1
              THEN Options(heard)[2] = [i \in 1 .. Len(answer) |-> From(answer[i], 5)]
              ELSE Heard(heard)[1] = UpTo(answer[1], 3)

\* readToDelim (ClientSocket.src.cc 166-190) goes wrong first at a message, whose
\* delimiter of five bytes it can step over, or at a reply of several lines, whose next
\* line it can begin to take.  A command and a reply of one line survive every way in
\* which their bytes may be cut and arrive.
LongTextsOnly ==
    [][astray = {} =>
          /\ "server" \in astray' => waits["server"] = "message"
          /\ "client" \in astray' => Len(answer) > 1]_vars

\* Every command and every message is answered and the answer read to its end, unless
\* the server has sent no reply to it or a reader has taken bytes behind a delimiter.
AlwaysAnswered ==
    waits["client"] = "reply" ~> (Answered \/ astray # {} \/ answer = <<>>)

\* "Keeps reading from the client untill delimiter is reached then we return [...] We
\* use peek so we can later use pipelining" (lib/networking/sockets/
\* ClientSocket.src.cc 160-162): no reader holds a delimiter and reads on, and every
\* line the client reads is the next one of the reply, with no byte of the one after.
ReadsToDelimiter ==
    /\ \A side \in Sides :
          waits[side] # "nothing" => Find(result[side], Delimiter(side)) = NotFound
    /\ \A i \in 1 .. Len(heard) : i <= Len(answer) /\ heard[i] = answer[i]
=============================================================================
