----------------------------- MODULE SmtpClient -----------------------------
(***************************************************************************)
(* lib/smtp/client/SMTPClient.src.cc: one message taken to the servers of  *)
(* its recipients, one after the other.  The remote servers answer as they *)
(* like, go silent, or leave.                                              *)
(***************************************************************************)
EXTENDS Naturals, Sequences, FiniteSets, SequencesExt, FiniteSetsExt

CONSTANTS N,    \* number of recipients
          Own   \* those of the domain this server serves itself

ASSUME ClientConstants == N \in Nat /\ Own \subseteq 1 .. N

Recipients == 1 .. N
Codes == {"220", "221", "250", "354", "other"}
Actions == {"HELO", "START_TLS", "START_TLS_FINISHED", "MAIL_FROM", "RCPT_TO",
            "DATA_START", "DATA_END", "QUIT"}
Commands == {"FCAPA", "SU", "EHLO", "HELO", "STARTTLS", "MAIL", "RCPT", "DATA",
             "BODY", "QUIT"}
Ends == {"returned", "thrown", "hang", "dead"}

VARIABLES step,       \* where the worker's thread is
          unresolvable, \* targets whose list of servers is empty
          pending,    \* the recipients, then s_Targets from the current one on
          log,        \* s_ErrorLog: the recipients it names
          errorCount, \* s_ErrorCount
          code,       \* what its stack slot holds, also before the first read
          saysEsmtp,  \* args contains "ESMTP"
          run,        \* _run
          done,       \* the session's performed actions
          esmtp,      \* the session's ESMTP flag
          secured,    \* the socket uses TLS
          dialogue,   \* history: what was sent on the last connection made
          broken,     \* history: recipients with a read that failed
          accepted    \* history: recipients whose body got no error for an answer

session == <<done, esmtp, secured, dialogue>>
errorVars == <<log, errorCount>>
reply == <<code, saysEsmtp, run>>
history == <<broken, accepted>>
vars == <<step, unresolvable, pending, errorVars, reply, session, history>>

ClientTypeOK ==
    /\ step \in {"prepare", "connect", "read", "act", "greet", "options"} \cup Ends
    /\ unresolvable \subseteq Recipients
    /\ pending \subseteq Recipients
    /\ log \subseteq Recipients
    /\ errorCount \in Nat
    /\ code \in Codes
    /\ saysEsmtp \in BOOLEAN
    /\ run \in BOOLEAN
    /\ done \subseteq Actions
    /\ esmtp \in BOOLEAN
    /\ secured \in BOOLEAN
    /\ dialogue \in Seq(Commands)
    /\ broken \subseteq Recipients
    /\ accepted \subseteq Recipients

Init ==
    /\ step = "prepare"
    /\ unresolvable = {}
    /\ pending = Recipients
    /\ log = {} /\ errorCount = 0
    /\ code \in Codes
    /\ saysEsmtp = FALSE
    /\ run = TRUE
    /\ done = {} /\ esmtp = FALSE /\ secured = FALSE /\ dialogue = <<>>
    /\ broken = {} /\ accepted = {}

\* The vector of targets is worked off in its order.
Current == Min(pending)
AddError == log' = log \cup {Current} /\ errorCount' = errorCount + 1
NextTarget == pending' = pending \ {Current} /\ step' = "connect"

\* The test of the loop.
Onward == IF run THEN step' = "read" /\ UNCHANGED pending ELSE NextTarget

-----------------------------------------------------------------------------
(* Before the conversation *)

\* The message is signed and the MX hosts are looked up: no MX record is an
\* error, an MX host without address is not noticed.
Prepare ==
    /\ step = "prepare"
    /\ \E failed \in SUBSET Recipients :
        /\ pending' = Recipients \ failed
        /\ log' = failed
        /\ errorCount' = Cardinality(failed)
        /\ unresolvable' \in SUBSET (Recipients \ failed)
    /\ step' = "connect"
    /\ UNCHANGED <<reply, session, history>>

SignFails ==
    /\ step = "prepare"
    /\ step' = "thrown"
    /\ UNCHANGED <<unresolvable, pending, errorVars, reply, session, history>>

Connect ==
    /\ step = "connect"
    /\ pending # {}
    /\ Current \notin unresolvable
    /\ step' = "read"
    /\ run' = TRUE
    /\ done' = {} /\ esmtp' = FALSE /\ secured' = FALSE /\ dialogue' = <<>>
    /\ UNCHANGED <<unresolvable, pending, errorVars, code, saysEsmtp, history>>

ConnectFails ==
    /\ step = "connect"
    /\ pending # {}
    /\ Current \notin unresolvable
    /\ AddError
    /\ NextTarget
    /\ UNCHANGED <<unresolvable, reply, session, history>>

\* servers[0] of an empty vector is read through a null pointer.
NoServer ==
    /\ step = "connect"
    /\ pending # {}
    /\ Current \in unresolvable
    /\ step' = "dead"
    /\ UNCHANGED <<unresolvable, pending, errorVars, reply, session, history>>

AllHandled ==
    /\ step = "connect"
    /\ pending = {}
    /\ step' = "returned"
    /\ UNCHANGED <<unresolvable, pending, errorVars, reply, session, history>>

-----------------------------------------------------------------------------
(* Reading a reply *)

Broken == broken' = broken \cup {Current} /\ UNCHANGED accepted

\* Wrong on purpose: after a failed read the server is tried again.
ReadRetried ==
    /\ step = "read"
    /\ \/ /\ code' \in Codes
          /\ saysEsmtp' \in BOOLEAN
          /\ step' = "act"
          /\ UNCHANGED <<run, broken>>
          /\ accepted' = IF "DATA_END" \in done /\ "QUIT" \notin done /\ code' # "other"
                         THEN accepted \cup {Current} ELSE accepted
       \/ step' = "connect" /\ saysEsmtp' = FALSE /\ UNCHANGED <<code, run, history>>
    /\ UNCHANGED <<unresolvable, pending, errorVars, session>>

\* A read that fails ends the loop, but the code of the last one, or whatever
\* the slot held before the first, is still acted upon.
Read ==
    /\ step = "read"
    /\ \/ /\ code' \in Codes
          /\ saysEsmtp' \in BOOLEAN
          /\ UNCHANGED <<run, broken>>
          /\ accepted' = IF "DATA_END" \in done /\ "QUIT" \notin done /\ code' # "other"
                         THEN accepted \cup {Current} ELSE accepted
       \/ run' = FALSE /\ saysEsmtp' = FALSE /\ Broken /\ UNCHANGED code
    /\ step' = "act"
    /\ UNCHANGED <<unresolvable, pending, errorVars, session>>

\* A continued line too short for substr(4), a number too long for stoi, a reply
\* beyond the size limit: exceptions that no catch clause of the client names.
Garbled ==
    /\ step = "read"
    /\ step' = "thrown"
    /\ UNCHANGED <<unresolvable, pending, errorVars, reply, session, history>>

-----------------------------------------------------------------------------
(* Acting upon the reply: the cases of the switch, which fall through *)

Positive == code \in {"221", "250"}

\* Wrong on purpose: the end of the TLS upgrade is not waited for.
WantsMailEarly == "HELO" \in done /\ "MAIL_FROM" \notin done

WantsMail ==
    \/ "HELO" \in done /\ ~esmtp
    \/ "START_TLS_FINISHED" \in done /\ esmtp /\ "MAIL_FROM" \notin done

Turn ==
    IF code = "other" THEN "refuse"
    ELSE IF code = "221" /\ "QUIT" \in done THEN "close"
    ELSE IF Positive /\ "HELO" \in done /\ "START_TLS" \notin done /\ esmtp THEN "starttls"
    ELSE IF Positive /\ WantsMail THEN "mail"
    ELSE IF Positive /\ "MAIL_FROM" \in done /\ "RCPT_TO" \notin done THEN "rcpt"
    ELSE IF Positive /\ "RCPT_TO" \in done /\ {"DATA_START", "DATA_END"} \cap done = {}
         THEN "data"
    ELSE IF code # "220" /\ "DATA_START" \in done /\ "DATA_END" \notin done THEN "body"
    ELSE IF "DATA_END" \in done /\ "QUIT" \notin done THEN "quit"
    ELSE IF "START_TLS" \in done /\ "START_TLS_FINISHED" \notin done /\ esmtp THEN "upgrade"
    ELSE IF "HELO" \notin done THEN "greet"
    ELSE "refuse"

\* One of the commands that only mark an action as done and are sent.
Send(turn, action, command) ==
    /\ step = "act"
    /\ Turn = turn
    /\ done' = done \cup {action}
    /\ dialogue' = Append(dialogue, command)
    /\ Onward
    /\ UNCHANGED <<unresolvable, errorVars, reply, esmtp, secured, history>>

StartTLS == Send("starttls", "START_TLS", "STARTTLS")
MailFrom == Send("mail", "MAIL_FROM", "MAIL")
RcptTo == Send("rcpt", "RCPT_TO", "RCPT")

\* Wrong on purpose: the action is not marked as done.
DataUnmarked == Send("data", "RCPT_TO", "DATA")

Data == Send("data", "DATA_START", "DATA")
Body == Send("body", "DATA_END", "BODY")
Quit == Send("quit", "QUIT", "QUIT")

\* A write fails: the exception leaves beSocial.
WriteFails ==
    /\ step \in {"act", "greet"}
    /\ step = "act" => Turn \notin {"refuse", "close", "upgrade"}
    /\ step' = "thrown"
    /\ UNCHANGED <<unresolvable, pending, errorVars, reply, session, history>>

Close ==
    /\ step = "act"
    /\ Turn = "close"
    /\ NextTarget
    /\ run' = FALSE
    /\ UNCHANGED <<unresolvable, errorVars, code, saysEsmtp, session, history>>

\* Wrong on purpose: the conversation goes on after the error.
RefuseAndGoOn ==
    /\ step = "act"
    /\ Turn = "refuse"
    /\ AddError
    /\ step' = "read"
    /\ UNCHANGED <<unresolvable, pending, reply, session, history>>

\* Wrong on purpose: the error is not recorded.
RefuseSilently ==
    /\ step = "act"
    /\ Turn = "refuse"
    /\ NextTarget
    /\ run' = FALSE
    /\ UNCHANGED <<unresolvable, errorVars, code, saysEsmtp, session, history>>

Refuse ==
    /\ step = "act"
    /\ Turn = "refuse"
    /\ AddError
    /\ NextTarget
    /\ run' = FALSE
    /\ UNCHANGED <<unresolvable, code, saysEsmtp, session, history>>

\* After the handshake the greeting is sent again, in the same round.
Upgrade ==
    /\ step = "act"
    /\ Turn = "upgrade"
    /\ done' = (done \cup {"START_TLS_FINISHED"}) \ {"HELO"}
    /\ secured' = TRUE
    /\ step' = "greet"
    /\ UNCHANGED <<unresolvable, pending, errorVars, reply, esmtp, dialogue, history>>

UpgradeFails ==
    /\ step = "act"
    /\ Turn = "upgrade"
    /\ done' = done \cup {"START_TLS_FINISHED"}
    /\ AddError
    /\ NextTarget
    /\ run' = FALSE
    /\ UNCHANGED <<unresolvable, code, saysEsmtp, esmtp, secured, dialogue, history>>

Greeting == step = "greet" \/ (step = "act" /\ Turn = "greet")
SpeaksEsmtp == esmtp \/ saysEsmtp
AccessRequest == IF Current \in Own THEN <<"FCAPA", "SU">> ELSE <<>>

\* A server of our own domain does not know FCAPA or does not grant SU.
AccessRefused(said) ==
    /\ Greeting
    /\ SpeaksEsmtp
    /\ Current \in Own
    /\ said \in {<<"FCAPA">>, <<"FCAPA", "SU">>}
    /\ dialogue' = dialogue \o said
    /\ esmtp' = TRUE
    /\ AddError
    /\ NextTarget
    /\ run' = FALSE
    /\ UNCHANGED <<unresolvable, code, saysEsmtp, done, secured, history>>

\* Wrong on purpose: the replies to FCAPA and SU overwrite the round's code.
EhloUnshadowed ==
    /\ Greeting
    /\ SpeaksEsmtp
    /\ dialogue' = dialogue \o AccessRequest \o <<"EHLO">>
    /\ done' = done \cup {"HELO"}
    /\ esmtp' = TRUE
    /\ code' = IF Current \in Own THEN "600" ELSE code
    /\ step' = "options"
    /\ UNCHANGED <<unresolvable, pending, errorVars, saysEsmtp, run, secured, history>>

\* Access is granted where it is asked for, and EHLO goes out.
Ehlo ==
    /\ Greeting
    /\ SpeaksEsmtp
    /\ dialogue' = dialogue \o AccessRequest \o <<"EHLO">>
    /\ done' = done \cup {"HELO"}
    /\ esmtp' = TRUE
    /\ step' = "options"
    /\ UNCHANGED <<unresolvable, pending, errorVars, reply, secured, history>>

-----------------------------------------------------------------------------
(* The options that answer EHLO: one read a line, and no limit to their number *)

\* A line with a dash: another read.
MoreOptions == step = "options" /\ UNCHANGED vars

\* The next round takes the options for a 250, whatever the code of their lines.
LastOption ==
    /\ step = "options"
    /\ code' = "250"
    /\ saysEsmtp' = FALSE
    /\ IF run THEN step' = "act" /\ UNCHANGED pending ELSE NextTarget
    /\ UNCHANGED <<unresolvable, errorVars, run, session, history>>

\* A line cannot be read: the conversation ends and nothing is recorded; or it
\* is too short for substr(4), which throws.
OptionsFail ==
    /\ step = "options"
    /\ Broken
    /\ \/ NextTarget /\ run' = FALSE
       \/ step' = "thrown" /\ UNCHANGED <<pending, run>>
    /\ UNCHANGED <<unresolvable, errorVars, code, saysEsmtp, session>>

-----------------------------------------------------------------------------
\* HELO is sent, and the case falls through into the default: an error.
Helo ==
    /\ Greeting
    /\ ~SpeaksEsmtp
    /\ dialogue' = Append(dialogue, "HELO")
    /\ done' = done \cup {"HELO"}
    /\ AddError
    /\ NextTarget
    /\ run' = FALSE
    /\ UNCHANGED <<unresolvable, code, saysEsmtp, esmtp, secured, history>>

\* The server stays silent in a read or a handshake, or closes a plain
\* connection, whose end readToDelim does not notice: no timeout is set.
GoesSilent ==
    /\ \/ step \in {"read", "greet", "options"}
       \/ step = "act" /\ Turn = "upgrade"
       \/ step = "act" /\ Turn = "greet" /\ SpeaksEsmtp
    /\ step' = "hang"
    /\ UNCHANGED <<unresolvable, pending, errorVars, reply, session, history>>

Ended == step \in Ends /\ UNCHANGED vars

Step ==
    \/ Prepare \/ SignFails
    \/ Connect \/ ConnectFails \/ NoServer \/ AllHandled
    \/ Read \/ Garbled
    \/ StartTLS \/ MailFrom \/ RcptTo \/ Data \/ Body \/ Quit \/ WriteFails
    \/ Close \/ Refuse
    \/ Upgrade \/ UpgradeFails
    \/ Ehlo \/ LastOption \/ OptionsFail \/ Helo
    \/ \E said \in {<<"FCAPA">>, <<"FCAPA", "SU">>} : AccessRefused(said)
    \/ GoesSilent

Next == Step \/ MoreOptions \/ Ended

Spec == Init /\ [][Next]_vars

\* The worker's thread is scheduled; a silent server is a step of its own.  That
\* a server ever comes to its last option is its own affair.
FairSpec == Spec /\ WF_vars(step # "options" /\ Step)

-----------------------------------------------------------------------------
(* Properties *)

Script(request) ==
    request \o <<"EHLO", "STARTTLS">> \o request
        \o <<"EHLO", "MAIL", "RCPT", "DATA", "BODY", "QUIT">>

\* Whatever a server answers, and whatever code is left over when a read fails,
\* the commands go out in the one order SMTP allows and none goes out twice:
\* nothing is mailed before it was announced (beSocial 243-586).  It is said of
\* a connection until the next one replaces it, so of the command that a left-over
\* code still causes, too.  A server without ESMTP hears HELO and nothing else.
InOrder ==
    \/ \E request \in {<<>>, <<"FCAPA", "SU">>} : IsPrefix(dialogue, Script(request))
    \/ dialogue = <<"HELO">>

\* Sender, recipient and message are told to a server over TLS only: every
\* path to MAIL FROM leads through the upgrade (beSocial 326-344, 416-443), with
\* a left-over code as with one that was read.
OverTLS ==
    \/ secured
    \/ \A i \in DOMAIN dialogue : dialogue[i] \notin {"MAIL", "RCPT", "DATA", "BODY"}

\* A recipient who is not in the error log when beSocial returns has had his
\* message answered without an error code, unless a read failed on the way: no other failure is
\* passed over (beSocial 213-223, 429-436, 490-498, 577-586).
SuccessIsReal == step = "returned" =>
    \A t \in Recipients \ broken : t \in accepted \cup log

\* The client deals with each recipient once, with at most one error each, and
\* returns when it is through (the abstract client of RelayContract).
Abstract == INSTANCE RelayContract WITH
    open <- pending,
    errors <- errorCount,
    outcome <- IF step \in Ends THEN step ELSE "running"
KeepsContract == Abstract!Contract

\* A conversation ends, for whatever the servers answer: it cannot go round in
\* circles (beSocial 196-590).  Two servers keep the worker for good: one that says
\* nothing, which the step "hang" names, and one whose options have no end, since
\* the loop that reads them has no limit (515-530).
ConversationEnds == <>(step \in Ends) \/ <>[](step = "options")
=============================================================================
