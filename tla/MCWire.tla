------------------------------- MODULE MCWire -------------------------------
(* Every command of the client and the server's HELP and AUTH, a message of two *)
(* lines whose text comes near the delimiter, and lists of no and two elements. *)
EXTENDS Wire

McCommands ==
    {<<"HELO", <<<<"domain">>>>>>, <<"EHLO", <<<<"domain">>>>>>, <<"START_TLS", <<>>>>,
     <<"MAIL_FROM", <<<<"<", "a", ">">>>>>>, <<"RCPT_TO", <<<<"<", "b", ">">>>>>>,
     <<"DATA", <<>>>>, <<"QUIT", <<>>>>, <<"SU", <<>>>>, <<"FCAPA", <<>>>>,
     <<"HELP", <<>>>>, <<"AUTH", <<<<"plain">>, <<"secret">>>>>>}
McMessages == {<<"h", "CR", "LF", "CR", "LF", ".", "CR">>,
               <<"h", "CR", "LF", "CR", "LF", "t", "CR", "LF">>}
McServices == <<<<"starttls">>, <<"size", " ", "0">>, <<"auth", " ", "plain">>>>
McP3Requests == {<<"USER", <<<<"u">>>>>>, <<"TOP", <<<<"1">>, <<"0">>>>>>, <<"LIST", <<>>>>,
                 <<"QUIT", <<>>>>}
McLists == [empty |-> <<>>, two |-> <<<<"1", " ", "9">>, <<"2", " ", "7">>>>]

\* The bound: once a side has read past a delimiter the turn is played to its end, and
\* the client says nothing more (what is left over would pile up without end).
LastTurnAstray == astray # {} /\ waits["client"] = "nothing" => waits'["client"] = "nothing"

ASSUME McTexts == TextsEnd /\ ParsersUndo
=============================================================================
