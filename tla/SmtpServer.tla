----------------------------- MODULE SmtpServer -----------------------------
(***************************************************************************)
(* The ESMTP server: one thread per client runs the command loop of        *)
(* lib/smtp/server/SMTPServer.src.cc and, after DATA, the body handler of  *)
(* handlers/data.src.cc.  A session object is shared, by pointer, with the *)
(* two workers as soon as it is pushed onto their queues.                  *)
(*                                                                         *)
(* Addresses are model values of three kinds: Accounts (an account of a    *)
(* local domain), Strangers (a local domain, no such user) and Remotes     *)
(* (any other domain).  The database answers with the directory, with an   *)
(* EmptyQuery, or with a DatabaseException.                                *)
(***************************************************************************)
EXTENDS Naturals, Sequences, FiniteSets, SequencesExt, Selection

CONSTANTS Conns,        \* client connections, each used once
          Accounts, Strangers, Remotes,
          NoAddress,    \* the empty address a session starts with
          FlagHeaders,  \* the X-Fannst-Flags of a message: sequences of values
          MaxCommands,  \* commands served before the loop gives up (60)
          MaxRcpt       \* bound on the tasks of one session (unbounded in the code)

ASSUME AddressKinds ==
    /\ Accounts \cap Remotes = {}
    /\ Accounts \cap Strangers = {}
    /\ Strangers \cap Remotes = {}
    /\ NoAddress \notin Accounts \cup Strangers \cup Remotes
ASSUME Bounds == MaxCommands \in Nat /\ MaxRcpt \in Nat

Addresses == Accounts \cup Strangers \cup Remotes
LocalAddresses == Accounts \cup Strangers

Flags == {"AUTH", "SSL", "FROM_LOCAL", "RELAY", "SU"}
PerformedActions == {"HELO", "MAIL_FROM", "RCPT_TO", "DATA_START", "AUTH_PERF"}
Targets == {"Incomming", "Sent", "Spam"}
StorageTask == [account : Accounts, target : Targets]
XFannstFlags == [nostore : BOOLEAN, nerror : BOOLEAN]
\* A value of the header in segments; one without "=" has the key NoKey.
NoKey == "none"
Segment == [key : {"db", "mailer", "other", NoKey}, words : SUBSET {"nstore", "nerror", "other"}]
ASSUME FlagHeadersType == FlagHeaders \subseteq Seq(Seq(Segment))
Policies == {"absent", "none", "quarantine", "reject"}

(***************************************************************************)
(* Where a connection's thread is: "command" is the handler loop, "body"   *)
(* to "relay" the steps of DATA, "spin" a read loop that never returns.    *)
(***************************************************************************)
BodyPhases == {"body", "file", "reply", "store", "relay"}
Phases == {"none", "command", "spin", "closed"} \cup BodyPhases

VARIABLES phase, itt, flags, actions, transportFrom, sendingAccount,
          storageTasks, relayTasks, possibleSpam, xfannst,
          verified,           \* history: accounts whose password was checked
          databaseQueue, transmissionQueue

session == <<flags, actions, transportFrom, sendingAccount, storageTasks,
             relayTasks, possibleSpam, xfannst, verified>>
queues == <<databaseQueue, transmissionQueue>>
smtpVars == <<phase, itt, session, queues>>

TypeOK ==
    /\ phase \in [Conns -> Phases]
    /\ itt \in [Conns -> 0 .. MaxCommands]
    /\ flags \in [Conns -> SUBSET Flags]
    /\ actions \in [Conns -> SUBSET PerformedActions]
    /\ transportFrom \in [Conns -> Addresses \cup {NoAddress}]
    /\ sendingAccount \in [Conns -> Accounts \cup {NoAddress}]
    /\ storageTasks \in [Conns -> Seq(StorageTask)]
    /\ relayTasks \in [Conns -> Seq(Remotes)]
    /\ possibleSpam \in [Conns -> BOOLEAN]
    /\ xfannst \in [Conns -> XFannstFlags]
    /\ verified \in [Conns -> SUBSET Accounts]
    /\ databaseQueue \in Seq(Conns)
    /\ transmissionQueue \in Seq(Conns)

Init ==
    /\ phase = [c \in Conns |-> "none"]
    /\ itt = [c \in Conns |-> 0]
    /\ flags = [c \in Conns |-> {}]
    /\ actions = [c \in Conns |-> {}]
    /\ transportFrom = [c \in Conns |-> NoAddress]
    /\ sendingAccount = [c \in Conns |-> NoAddress]
    /\ storageTasks = [c \in Conns |-> <<>>]
    /\ relayTasks = [c \in Conns |-> <<>>]
    /\ possibleSpam = [c \in Conns |-> FALSE]
    /\ xfannst = [c \in Conns |-> [nostore |-> FALSE, nerror |-> FALSE]]
    /\ verified = [c \in Conns |-> {}]
    /\ databaseQueue = <<>>
    /\ transmissionQueue = <<>>

-----------------------------------------------------------------------------
(* The session's operations *)

Sends(account, target) == [account |-> account, target |-> target]

\* Wrong on purpose: stops after the first task.
OnlyFirstToSpam(tasks) ==
    IF tasks # <<>> /\ tasks[1].target = "Incomming"
    THEN [tasks EXCEPT ![1] = Sends(@.account, "Spam")]
    ELSE tasks

TasksToSpam(tasks) ==
    [i \in DOMAIN tasks |->
        IF tasks[i].target = "Incomming" THEN Sends(tasks[i].account, "Spam")
                                         ELSE tasks[i]]

\* Wrong on purpose: takes the last task for the Sent copy.
RemoveLastTask(tasks) == IF tasks = <<>> THEN tasks ELSE Front(tasks)

\* The first Sent task is erased, the rest keeps its order.
RemoveSent(tasks) == RemoveFirstMatch(tasks, LAMBDA t : t.target = "Sent")

SetFlag(c, flag) == flags' = [flags EXCEPT ![c] = @ \cup {flag}]
SetAction(c, action) == actions' = [actions EXCEPT ![c] = @ \cup {action}]
Goto(c, p) == phase' = [phase EXCEPT ![c] = p]

-----------------------------------------------------------------------------
(* Connections *)

\* The acceptor hands a client to a thread of its own, which greets it.
Accept(c) == \E ssl \in BOOLEAN :
    /\ phase[c] = "none"
    /\ Goto(c, "command")
    /\ flags' = [flags EXCEPT ![c] = IF ssl THEN {"SSL"} ELSE {}]
    /\ UNCHANGED <<itt, actions, transportFrom, sendingAccount, storageTasks,
                   relayTasks, possibleSpam, xfannst, verified, queues>>

\* Wrong on purpose: one command too many.
CommandOffByOne(c) ==
    /\ phase[c] = "command"
    /\ itt[c] <= MaxCommands
    /\ itt' = [itt EXCEPT ![c] = @ + 1]

\* Wrong on purpose: the turn is not counted.
CommandUncounted(c) == phase[c] = "command" /\ UNCHANGED itt

\* One turn of the loop has read a command line.
Command(c) ==
    /\ phase[c] = "command"
    /\ itt[c] < MaxCommands
    /\ itt' = [itt EXCEPT ![c] = @ + 1]

Close(c) == Goto(c, "closed") /\ UNCHANGED <<session, queues>>

CommandLimit(c) ==
    /\ phase[c] = "command"
    /\ itt[c] = MaxCommands
    /\ Close(c)
    /\ UNCHANGED itt

\* A read times out, the peer resets, or a write fails: the thread ends.
ConnectionLost(c) ==
    /\ phase[c] \in {"command", "body", "file", "reply"}
    /\ Close(c)
    /\ UNCHANGED itt

\* A plain peer closes its side: recv returns 0 for ever and readToDelim loops.
\* (Over TLS the same end of file throws, which is ConnectionLost.)
EndOfFile(c) ==
    /\ phase[c] \in {"command", "body"}
    /\ "SSL" \notin flags[c]
    /\ Goto(c, "spin")
    /\ UNCHANGED <<itt, session, queues>>

-----------------------------------------------------------------------------
(* Commands *)

\* HELP, FCAPA, an unknown or malformed command, one out of order, a recipient
\* that is not local, or a lookup that throws DatabaseException (the one case
\* that writes no reply): the session is as before.
Answer(c) ==
    /\ Command(c)
    /\ UNCHANGED <<phase, session, queues>>

\* QUIT, a refused SU, a MAIL FROM that is not the authenticated user's, an
\* AUTH that fails and a TLS upgrade that throws all end the connection.
CloseAfter(c) == Command(c) /\ Close(c)

Quit(c) == CloseAfter(c)

\* HELO and EHLO differ in their reply only.
Helo(c) ==
    /\ Command(c)
    /\ "HELO" \notin actions[c]
    /\ SetAction(c, "HELO")
    /\ UNCHANGED <<phase, flags, transportFrom, sendingAccount, storageTasks,
                   relayTasks, possibleSpam, xfannst, verified, queues>>

StartTLS(c) ==
    /\ Command(c)
    /\ "HELO" \in actions[c]
    /\ "SSL" \notin flags[c]
    /\ SetFlag(c, "SSL")
    /\ actions' = [actions EXCEPT ![c] = @ \ {"HELO"}]
    /\ UNCHANGED <<phase, transportFrom, sendingAccount, storageTasks,
                   relayTasks, possibleSpam, xfannst, verified, queues>>

\* Wrong on purpose: a second MAIL FROM is taken.
MayMailAgain(c) == "HELO" \in actions[c]

MayMail(c) == "MAIL_FROM" \notin actions[c] /\ "HELO" \in actions[c]

MailAccepted(c, from) ==
    /\ transportFrom' = [transportFrom EXCEPT ![c] = from]
    /\ SetAction(c, "MAIL_FROM")
    /\ UNCHANGED <<phase, sendingAccount, storageTasks, relayTasks,
                   possibleSpam, xfannst, verified, queues>>

\* The domain is not one of ours, or SU skips the look-up.
MailFromForeign(c, from) ==
    /\ Command(c)
    /\ MayMail(c)
    /\ from \in Remotes \/ "SU" \in flags[c]
    /\ MailAccepted(c, from)
    /\ UNCHANGED flags

\* Wrong on purpose: any address of our domains will do once authenticated.
MailFromAnyLocal(c, from) ==
    /\ Command(c)
    /\ MayMail(c)
    /\ "SU" \notin flags[c]
    /\ from \in LocalAddresses
    /\ "AUTH" \in flags[c]
    /\ SetFlag(c, "FROM_LOCAL")
    /\ MailAccepted(c, from)

MailFromLocal(c, from) ==
    /\ Command(c)
    /\ MayMail(c)
    /\ "SU" \notin flags[c]
    /\ from \in LocalAddresses
    /\ "AUTH" \in flags[c]
    /\ from = sendingAccount[c]
    /\ SetFlag(c, "FROM_LOCAL")
    /\ MailAccepted(c, from)

\* An authenticated user names an address that is not his own.
MailFromNotAllowed(c, from) ==
    /\ MayMail(c)
    /\ "SU" \notin flags[c]
    /\ from \in LocalAddresses
    /\ "AUTH" \in flags[c]
    /\ from # sendingAccount[c]
    /\ CloseAfter(c)

MayRcpt(c) ==
    /\ {"HELO", "MAIL_FROM"} \subseteq actions[c]
    /\ Len(storageTasks[c]) + Len(relayTasks[c]) < MaxRcpt

RcptToLocal(c, to) ==
    /\ Command(c)
    /\ MayRcpt(c)
    /\ to \in Accounts
    /\ storageTasks' = [storageTasks EXCEPT ![c] = Append(@, Sends(to, "Incomming"))]
    /\ SetAction(c, "RCPT_TO")
    /\ UNCHANGED <<phase, flags, transportFrom, sendingAccount, relayTasks,
                   possibleSpam, xfannst, verified, queues>>

\* Wrong on purpose: every relayed recipient files a copy under Sent.
RcptToRelayCopies(c, to) ==
    /\ Command(c)
    /\ MayRcpt(c)
    /\ to \in Remotes
    /\ "FROM_LOCAL" \in flags[c]
    /\ relayTasks' = [relayTasks EXCEPT ![c] = Append(@, to)]
    /\ SetFlag(c, "RELAY")
    /\ storageTasks' = [storageTasks EXCEPT ![c] =
                          Append(@, Sends(sendingAccount[c], "Sent"))]
    /\ SetAction(c, "RCPT_TO")
    /\ UNCHANGED <<phase, transportFrom, sendingAccount, possibleSpam, xfannst,
                   verified, queues>>

\* The first relayed recipient also files a copy under Sent.
RcptToRelay(c, to) ==
    /\ Command(c)
    /\ MayRcpt(c)
    /\ to \in Remotes
    /\ "FROM_LOCAL" \in flags[c]
    /\ relayTasks' = [relayTasks EXCEPT ![c] = Append(@, to)]
    /\ SetFlag(c, "RELAY")
    /\ storageTasks' = IF "RELAY" \in flags[c] THEN storageTasks
                       ELSE [storageTasks EXCEPT ![c] =
                               Append(@, Sends(sendingAccount[c], "Sent"))]
    /\ SetAction(c, "RCPT_TO")
    /\ UNCHANGED <<phase, transportFrom, sendingAccount, possibleSpam, xfannst,
                   verified, queues>>

\* Wrong on purpose: a second AUTH is taken.
MayAuthAgain(c) == "HELO" \in actions[c]

MayAuth(c) == "AUTH_PERF" \notin actions[c] /\ "HELO" \in actions[c]

\* authVerify fills in the session's account before it checks the password.
AuthSuccess(c, user) ==
    /\ Command(c)
    /\ MayAuth(c)
    /\ user \in Accounts
    /\ sendingAccount' = [sendingAccount EXCEPT ![c] = user]
    /\ verified' = [verified EXCEPT ![c] = @ \cup {user}]
    /\ SetAction(c, "AUTH_PERF")
    /\ SetFlag(c, "AUTH")
    /\ UNCHANGED <<phase, transportFrom, storageTasks, relayTasks,
                   possibleSpam, xfannst, queues>>

\* A wrong password or an unknown user: the connection ends.
AuthFail(c) == MayAuth(c) /\ CloseAfter(c)

\* Reading the password throws DatabaseException: the account stays filled in,
\* the connection stays open.
AuthDatabaseFailure(c, user) ==
    /\ Command(c)
    /\ MayAuth(c)
    /\ user \in Accounts
    /\ sendingAccount' = [sendingAccount EXCEPT ![c] = user]
    /\ UNCHANGED <<phase, flags, actions, transportFrom, storageTasks,
                   relayTasks, possibleSpam, xfannst, verified, queues>>

\* The peer is one of the servers of our own domain's SPF record.
SuperUser(c) ==
    /\ Command(c)
    /\ SetFlag(c, "SU")
    /\ UNCHANGED <<phase, actions, transportFrom, sendingAccount, storageTasks,
                   relayTasks, possibleSpam, xfannst, verified, queues>>

-----------------------------------------------------------------------------
(* DATA and the body handler *)

\* Wrong on purpose: a second DATA is taken.
DataAgain(c) ==
    /\ Command(c)
    /\ {"HELO", "MAIL_FROM", "RCPT_TO"} \subseteq actions[c]
    /\ SetAction(c, "DATA_START")
    /\ Goto(c, "body")
    /\ UNCHANGED <<flags, transportFrom, sendingAccount, storageTasks,
                   relayTasks, possibleSpam, xfannst, verified, queues>>

Data(c) ==
    /\ Command(c)
    /\ "DATA_START" \notin actions[c]
    /\ {"HELO", "MAIL_FROM", "RCPT_TO"} \subseteq actions[c]
    /\ SetAction(c, "DATA_START")
    /\ Goto(c, "body")
    /\ UNCHANGED <<flags, transportFrom, sendingAccount, storageTasks,
                   relayTasks, possibleSpam, xfannst, verified, queues>>

TooLarge(c) ==
    /\ phase[c] = "body"
    /\ Close(c)
    /\ UNCHANGED itt

\* The checks of an unauthenticated sender: SPF of the envelope domain, and
\* what its DMARC record asks for when SPF fails.
Rejected(spf, policy) == ~spf /\ policy = "reject"

CheckSender(c, spf, policy) ==
    /\ phase[c] = "body"
    /\ "AUTH" \notin flags[c]
    /\ UNCHANGED itt
    /\ \/ Rejected(spf, policy) /\ Close(c)
       \/ /\ ~Rejected(spf, policy)
          /\ possibleSpam' = [possibleSpam EXCEPT ![c] = @ \/ ~spf]
          /\ Goto(c, "file")
          /\ UNCHANGED <<flags, actions, transportFrom, sendingAccount,
                         storageTasks, relayTasks, xfannst, verified, queues>>

TrustSender(c) ==
    /\ phase[c] = "body"
    /\ "AUTH" \in flags[c]
    /\ Goto(c, "file")
    /\ UNCHANGED <<itt, session, queues>>

\* XFannstFlags::parse sets flags, never clears one; a segment without "=" throws,
\* which dataHandler catches: what precedes it in the value counts.
Says(value, key, word) ==
    \E i \in DOMAIN value :
        /\ value[i].key = key /\ word \in value[i].words
        /\ \A j \in 1 .. i : value[j].key # NoKey
ParsedFlags(xflags, headers) ==
    [nostore |-> xflags.nostore \/ \E i \in DOMAIN headers : Says(headers[i], "db", "nstore"),
     nerror |-> xflags.nerror \/ \E i \in DOMAIN headers : Says(headers[i], "mailer", "nerror")]

\* The message is parsed, its X-Fannst-Flags read, its storage targets changed.
File(c, headers) ==
    LET xflags == ParsedFlags(xfannst[c], headers)
        moved == IF possibleSpam[c] THEN TasksToSpam(storageTasks[c])
                                    ELSE storageTasks[c] IN
    /\ phase[c] = "file"
    /\ xfannst' = [xfannst EXCEPT ![c] = xflags]
    /\ storageTasks' = [storageTasks EXCEPT ![c] =
                          IF xflags.nostore THEN RemoveSent(moved) ELSE moved]
    /\ Goto(c, "reply")
    /\ UNCHANGED <<itt, flags, actions, transportFrom, sendingAccount,
                   relayTasks, possibleSpam, verified, queues>>

\* "queued for delivery": the reply leaves before either queue has the session.
Acknowledge(c) ==
    /\ phase[c] = "reply"
    /\ Goto(c, "store")
    /\ UNCHANGED <<itt, session, queues>>

\* Wrong on purpose: the session is pushed before the reply, too.
PushStorageEarly(c) ==
    /\ phase[c] \in {"reply", "store"}
    /\ databaseQueue' = Append(databaseQueue, c)
    /\ Goto(c, IF phase[c] = "reply" THEN "reply" ELSE "relay")
    /\ UNCHANGED <<itt, session, transmissionQueue>>

PushStorage(c) ==
    /\ phase[c] = "store"
    /\ databaseQueue' = IF storageTasks[c] # <<>> THEN Append(databaseQueue, c)
                                                  ELSE databaseQueue
    /\ Goto(c, "relay")
    /\ UNCHANGED <<itt, session, transmissionQueue>>

PushRelay(c) ==
    /\ phase[c] = "relay"
    /\ transmissionQueue' = IF relayTasks[c] # <<>> THEN Append(transmissionQueue, c)
                                                    ELSE transmissionQueue
    /\ Goto(c, "command")
    /\ UNCHANGED <<itt, session, databaseQueue>>

-----------------------------------------------------------------------------
\* A connection's thread, once it runs.
Serve(c) ==
    \/ CommandLimit(c) \/ ConnectionLost(c) \/ EndOfFile(c)
    \/ Answer(c) \/ Quit(c) \/ Helo(c) \/ StartTLS(c) \/ SuperUser(c)
    \/ \E from \in Addresses : \/ MailFromForeign(c, from)
                               \/ MailFromLocal(c, from)
                               \/ MailFromNotAllowed(c, from)
    \/ \E to \in Addresses : RcptToLocal(c, to) \/ RcptToRelay(c, to)
    \/ \E user \in Accounts : AuthSuccess(c, user) \/ AuthDatabaseFailure(c, user)
    \/ AuthFail(c)
    \/ Data(c) \/ TooLarge(c) \/ TrustSender(c)
    \/ \E spf \in BOOLEAN, policy \in Policies : CheckSender(c, spf, policy)
    \/ \E headers \in FlagHeaders : File(c, headers)
    \/ Acknowledge(c) \/ PushStorage(c) \/ PushRelay(c)

\* Every client has come and gone (or hangs): the acceptors wait.
Idle ==
    /\ \A c \in Conns : phase[c] \in {"closed", "spin"}
    /\ UNCHANGED smtpVars

Next == (\E c \in Conns : Accept(c) \/ Serve(c)) \/ Idle

Spec == Init /\ [][Next]_smtpVars

\* A running thread takes a step: its reads return, or time out after 7 s.
FairSpec == Spec /\ \A c \in Conns : WF_smtpVars(Serve(c))

-----------------------------------------------------------------------------
(* Properties *)

Positions(c, queue) == {i \in DOMAIN queue : queue[i] = c}
SentTasks(c) == {i \in DOMAIN storageTasks[c] : storageTasks[c][i].target = "Sent"}

\* Mail leaves for another server only for a user who proved his password on
\* this connection and names his own address as the sender: three commands,
\* in any order a client likes, have to agree (SMTPServer.src.cc 320-347,
\* 399-434, 498-506).
RelayAuthorised == \A c \in Conns : relayTasks[c] # <<>> =>
    /\ {"AUTH", "FROM_LOCAL"} \subseteq flags[c]
    /\ transportFrom[c] = sendingAccount[c]
    /\ sendingAccount[c] \in verified[c]

\* Nobody is accepted as a sender of one of our domains unless he is that user
\* or one of our own servers (SU), whatever TLS upgrade, failed look-up or
\* later AUTH comes between (SMTPServer.src.cc 316-348).
LocalSenderVouched == \A c \in Conns :
    "MAIL_FROM" \in actions[c] /\ transportFrom[c] \in LocalAddresses =>
        \/ "SU" \in flags[c]
        \/ "AUTH" \in flags[c] /\ transportFrom[c] = sendingAccount[c]

\* The Sent copy: at most one, only with relayed mail, in the mailbox of the
\* envelope's sender, and there until X-Fannst-Flags asks for none
\* (SMTPServer.src.cc 446-453, data.src.cc 288-290).
SentCopy == \A c \in Conns :
    /\ Cardinality(SentTasks(c)) <= 1
    /\ \A i \in SentTasks(c) : storageTasks[c][i].account = transportFrom[c]
    /\ SentTasks(c) # {} => relayTasks[c] # <<>>
    /\ relayTasks[c] # <<>> /\ ~xfannst[c].nostore => SentTasks(c) # {}

\* A session is in a queue only after the client was told so, and once: a
\* second DATA would make the workers deliver everything again.
QueuedOnce == \A c \in Conns :
    /\ Cardinality(Positions(c, databaseQueue)) <= 1
    /\ Cardinality(Positions(c, transmissionQueue)) <= 1
    /\ phase[c] \in {"body", "file", "reply", "store"} =>
          Positions(c, databaseQueue) \cup Positions(c, transmissionQueue) = {}

\* From the moment its targets are changed until it is on both queues, a
\* suspect message has no task for an inbox (data.src.cc 284-306).
SuspectNotForInbox == \A c \in Conns :
    possibleSpam[c] /\ phase[c] \in {"reply", "store", "relay"} =>
        \A i \in DOMAIN storageTasks[c] : storageTasks[c][i].target # "Incomming"

\* Who sends is settled once: the account never changes after AUTH succeeded,
\* the envelope sender never after MAIL FROM, also when a later look-up fails
\* half-way (authVerify writes the account before it checks the password).
SenderSettled == [][\A c \in Conns :
    /\ "AUTH" \in flags[c] => sendingAccount'[c] = sendingAccount[c]
    /\ "MAIL_FROM" \in actions[c] => transportFrom'[c] = transportFrom[c]]_smtpVars

Recipients(c) ==
    LET kept == Picked(storageTasks[c], DOMAIN storageTasks[c] \ SentTasks(c))
    IN  [i \in DOMAIN kept |-> kept[i].account]

\* Moving to Spam and dropping the Sent copy neither lose nor reorder a
\* recipient that was answered 250 (SMTPServerSession.src.cc 30-47).
RecipientsKept == [][\A c \in Conns :
    /\ IsPrefix(Recipients(c), Recipients(c)')
    /\ IsPrefix(relayTasks[c], relayTasks'[c])]_smtpVars

\* Every connection ends, or hangs in the read of a plain peer that left: the
\* 60-command limit and the read timeout bound a client that never quits.
ConnectionsEnd == \A c \in Conns :
    phase[c] = "command" ~> phase[c] \in {"closed", "spin"}
=============================================================================
