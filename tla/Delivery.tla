------------------------------ MODULE Delivery ------------------------------
(***************************************************************************)
(* The SMTP server together with the two workers it hands a session to:    *)
(* lib/workers/DatabaseWorker.src.cc files the session's storage tasks,    *)
(* lib/workers/TransmissionWorker.src.cc relays to its remote recipients   *)
(* and reports what failed to the sender.  Both share the session object   *)
(* with the connection's thread, which may still be taking commands.       *)
(*                                                                         *)
(* Filing one task is one step here (MailStore has its parts); so is a      *)
(* conversation with a remote server, which does to the recipients and the *)
(* errors what RelayContract allows (SmtpClient has it, and implements it).*)
(* The queues live in memory: Crash loses them.                            *)
(***************************************************************************)
EXTENDS SmtpServer

CONSTANTS NoConn,       \* no session in hand
          MaxCrashes    \* bound on the crashes of the process

ASSUME DeliveryConstants == NoConn \notin Conns /\ MaxCrashes \in Nat

VARIABLES dbStep, dbSession, dbTasks,             \* the storage thread
          txStep, txSession,                      \* the transmission thread
          txTargets, txErrors,  \* the recipients it has left, the errors collected
          filed,    \* history: the tasks worked off, stored or dropped
          tried,    \* history: the recipients a relay attempt was made for
          reports,  \* history: error messages sent to the sender
          crashes

dbVars == <<dbStep, dbSession, dbTasks, filed>>
txVars == <<txStep, txSession, txTargets, txErrors, tried, reports>>
vars == <<smtpVars, dbVars, txVars, crashes>>

FiledTask == [task : StorageTask, stored : BOOLEAN]

DTypeOK ==
    /\ TypeOK
    /\ dbStep \in {"idle", "copy", "store"}
    /\ dbSession \in Conns \cup {NoConn}
    /\ dbTasks \in Seq(StorageTask)
    /\ txStep \in {"idle", "prepare", "send", "report", "hang"}
    /\ txSession \in Conns \cup {NoConn}
    /\ txTargets \in Nat
    /\ txErrors \in Nat
    /\ filed \in [Conns -> Seq(FiledTask)]
    /\ tried \in [Conns -> Seq(Remotes)]
    /\ reports \in [Conns -> Nat]
    /\ crashes \in 0 .. MaxCrashes

DInit ==
    /\ Init
    /\ dbStep = "idle" /\ dbSession = NoConn /\ dbTasks = <<>>
    /\ txStep = "idle" /\ txSession = NoConn /\ txTargets = 0 /\ txErrors = 0
    /\ filed = [c \in Conns |-> <<>>]
    /\ tried = [c \in Conns |-> <<>>]
    /\ reports = [c \in Conns |-> 0]
    /\ crashes = 0

Append1(f, c, e) == [f EXCEPT ![c] = Append(@, e)]

-----------------------------------------------------------------------------
(* The storage thread *)

\* The lock is held for this step only; the newest session is taken.
TakeStorage ==
    /\ dbStep = "idle"
    /\ databaseQueue # <<>>
    /\ dbSession' = Last(databaseQueue)
    /\ databaseQueue' = Front(databaseQueue)
    /\ dbStep' = "copy"
    /\ UNCHANGED <<phase, itt, session, transmissionQueue, dbTasks, filed,
                   txVars, crashes>>

\* The tasks are copied out of the session, which the connection still owns.
CopyTasks ==
    /\ dbStep = "copy"
    /\ dbTasks' = storageTasks[dbSession]
    /\ dbStep' = "store"
    /\ UNCHANGED <<smtpVars, dbSession, filed, txVars, crashes>>

\* Wrong on purpose: a task that failed is tried again.
StoreTaskRetried(stored) ==
    /\ dbStep = "store"
    /\ dbTasks # <<>>
    /\ filed' = Append1(filed, dbSession, [task |-> Head(dbTasks), stored |-> stored])
    /\ dbTasks' = IF stored THEN Tail(dbTasks) ELSE dbTasks
    /\ UNCHANGED <<smtpVars, dbStep, dbSession, txVars, crashes>>

\* A failure is logged and the next task is taken: no task is tried again.
StoreTask(stored) ==
    /\ dbStep = "store"
    /\ dbTasks # <<>>
    /\ filed' = Append1(filed, dbSession, [task |-> Head(dbTasks), stored |-> stored])
    /\ dbTasks' = Tail(dbTasks)
    /\ UNCHANGED <<smtpVars, dbStep, dbSession, txVars, crashes>>

StorageDone ==
    /\ dbStep = "store"
    /\ dbTasks = <<>>
    /\ dbStep' = "idle"
    /\ dbSession' = NoConn
    /\ UNCHANGED <<smtpVars, dbTasks, filed, txVars, crashes>>

StorageThread ==
    TakeStorage \/ CopyTasks \/ (\E stored \in BOOLEAN : StoreTask(stored)) \/ StorageDone

-----------------------------------------------------------------------------
(* The transmission thread *)

\* Wrong on purpose: the session stays in the queue.
TakeRelayNoPop ==
    /\ txStep = "idle"
    /\ transmissionQueue # <<>>
    /\ txSession' = Last(transmissionQueue)
    /\ txStep' = "prepare"
    /\ UNCHANGED <<smtpVars, dbVars, txTargets, txErrors, tried, reports,
                   crashes>>

TakeRelay ==
    /\ txStep = "idle"
    /\ transmissionQueue # <<>>
    /\ txSession' = Last(transmissionQueue)
    /\ transmissionQueue' = Front(transmissionQueue)
    /\ txStep' = "prepare"
    /\ UNCHANGED <<phase, itt, session, databaseQueue, dbVars, txTargets,
                   txErrors, tried, reports, crashes>>

\* The conversation is over, or an exception leaves the worker's try block: it
\* is logged, and the recipients not yet reached and the errors collected so
\* far are forgotten.
TxIdle ==
    /\ txStep' = "idle"
    /\ txSession' = NoConn
    /\ txTargets' = 0
    /\ txErrors' = 0

\* Wrong on purpose: the errors are counted the wrong way round.
PrepareMiscounts ==
    /\ txStep = "prepare"
    /\ tried' = [tried EXCEPT ![txSession] = @ \o relayTasks[txSession]]
    /\ UNCHANGED <<smtpVars, dbVars, reports, crashes>>
    /\ \/ TxIdle
       \/ \E resolved \in 0 .. Len(relayTasks[txSession]) :
            /\ txTargets' = resolved
            /\ txErrors' = resolved - Len(relayTasks[txSession])
            /\ txStep' = "send"
            /\ UNCHANGED txSession

\* The recipients are read, the message is signed, each domain is resolved; a
\* domain that does not resolve counts as an error and is no target.
Prepare ==
    /\ txStep = "prepare"
    /\ tried' = [tried EXCEPT ![txSession] = @ \o relayTasks[txSession]]
    /\ UNCHANGED <<smtpVars, dbVars, reports, crashes>>
    /\ \/ TxIdle
       \/ \E resolved \in 0 .. Len(relayTasks[txSession]) :
            /\ txTargets' = resolved
            /\ txErrors' = Len(relayTasks[txSession]) - resolved
            /\ txStep' = "send"
            /\ UNCHANGED txSession

\* One conversation, which leaves an error behind or not.
SendTo(errors) ==
    /\ txStep = "send"
    /\ txTargets > 0
    /\ txTargets' = txTargets - 1
    /\ txErrors' = txErrors + errors
    /\ UNCHANGED <<smtpVars, dbVars, txStep, txSession, tried, reports, crashes>>

SendThrows ==
    /\ txStep = "send"
    /\ txTargets > 0
    /\ TxIdle
    /\ UNCHANGED <<smtpVars, dbVars, tried, reports, crashes>>

\* The remote server says nothing more, or lists its options without end: the
\* socket has no timeout, the loop that reads options no limit, and the only
\* transmission thread stays in its read for ever.
SendHangs ==
    /\ txStep = "send"
    /\ txTargets > 0
    /\ txStep' = "hang"
    /\ UNCHANGED <<smtpVars, dbVars, txSession, txTargets, txErrors, tried, reports,
                   crashes>>

\* Wrong on purpose: nerror is not looked at.
SendDoneReports ==
    /\ txStep = "send"
    /\ txTargets = 0
    /\ IF txErrors > 0
       THEN txStep' = "report" /\ UNCHANGED <<txSession, txTargets, txErrors>>
       ELSE TxIdle
    /\ UNCHANGED <<smtpVars, dbVars, tried, reports, crashes>>

SendDone ==
    /\ txStep = "send"
    /\ txTargets = 0
    /\ IF txErrors > 0 /\ ~xfannst[txSession].nerror
       THEN txStep' = "report" /\ UNCHANGED <<txSession, txTargets, txErrors>>
       ELSE TxIdle
    /\ UNCHANGED <<smtpVars, dbVars, tried, reports, crashes>>

\* Wrong on purpose: a report that fails is sent again, for ever.
ReportRetried ==
    /\ txStep = "report"
    /\ \/ TxIdle /\ reports' = [reports EXCEPT ![txSession] = @ + 1]
       \/ txStep' = "send" /\ UNCHANGED <<txSession, txTargets, txErrors, reports>>
    /\ UNCHANGED <<smtpVars, dbVars, tried, crashes>>

\* The report is a message of its own to the envelope sender.  When it fails
\* nobody is told; it may meet a silent server as well.
Report ==
    /\ txStep = "report"
    /\ reports' = [reports EXCEPT ![txSession] = @ + 1]
    /\ \/ TxIdle
       \/ txStep' = "hang" /\ UNCHANGED <<txSession, txTargets, txErrors>>
    /\ UNCHANGED <<smtpVars, dbVars, tried, crashes>>

TransmissionThread ==
    \/ TakeRelay \/ Prepare \/ SendThrows \/ SendHangs \/ SendDone \/ Report
    \/ \E errors \in 0 .. 1 : SendTo(errors)

-----------------------------------------------------------------------------
\* The process dies: its connections and everything in memory are gone.
Crash ==
    /\ crashes < MaxCrashes
    /\ crashes' = crashes + 1
    /\ phase' = [c \in Conns |-> IF phase[c] = "none" THEN "none" ELSE "closed"]
    /\ databaseQueue' = <<>>
    /\ transmissionQueue' = <<>>
    /\ dbStep' = "idle" /\ dbSession' = NoConn /\ dbTasks' = <<>>
    /\ TxIdle
    /\ UNCHANGED <<itt, session, filed, tried, reports>>

Connection(c) == (Accept(c) \/ Serve(c)) /\ UNCHANGED <<dbVars, txVars, crashes>>

AllDone ==
    /\ Idle
    /\ dbStep = "idle" /\ databaseQueue = <<>>
    /\ txStep = "hang" \/ (txStep = "idle" /\ transmissionQueue = <<>>)
    /\ UNCHANGED vars

DNext ==
    \/ \E c \in Conns : Connection(c)
    \/ StorageThread \/ TransmissionThread \/ Crash \/ AllDone

DSpec == DInit /\ [][DNext]_vars

\* The workers loop for ever: action, sleep, action.
DFairSpec ==
    /\ DSpec
    /\ \A c \in Conns : WF_vars(Serve(c) /\ UNCHANGED <<dbVars, txVars, crashes>>)
    /\ WF_vars(StorageThread)
    /\ WF_vars(TransmissionThread)

-----------------------------------------------------------------------------
(* Properties *)

Occurs(x, seq) == Cardinality({i \in DOMAIN seq : seq[i] = x})

\* The storage thread works off a session's tasks as they stand in the
\* session: in order, each once, nothing added, through any crash and any
\* command that arrives meanwhile (DatabaseWorker.src.cc 55-80).
FiledInOrder == \A c \in Conns :
    /\ Len(filed[c]) <= Len(storageTasks[c])
    /\ \A i \in DOMAIN filed[c] : filed[c][i].task = storageTasks[c][i]

\* No remote recipient gets a message more often than the client named him:
\* nothing is sent again after a failure or a crash
\* (TransmissionWorker.src.cc 78-124).
RelayedAtMostOnce == \A c \in Conns, r \in Remotes :
    Occurs(r, tried[c]) <= Occurs(r, relayTasks[c])

\* A session leaves a trace outside the server (a mailbox, a remote server, a
\* report) only after its client was told that the message is queued.
NothingBeforeReply == \A c \in Conns :
    filed[c] # <<>> \/ tried[c] # <<>> \/ reports[c] > 0 =>
        /\ "DATA_START" \in actions[c]
        /\ phase[c] \notin {"body", "file", "reply"}

\* Reports go, once per message, to a sender who proved his password, never to
\* an address a stranger put in MAIL FROM, and not when X-Fannst-Flags says
\* nerror (TransmissionWorker.src.cc 43-67, 128-134).
NoBackscatter == \A c \in Conns : reports[c] > 0 =>
    /\ reports[c] = 1
    /\ transportFrom[c] \in verified[c]
    /\ ~xfannst[c].nerror

\* What is queued is taken up and finished (or lost with the process).  The
\* transmission thread has one excuse, "hang": a server that has gone silent or
\* lists options for ever; nothing else may keep it, and nothing at all the
\* storage thread
\* (DatabaseWorker.src.cc 45-174, TransmissionWorker.src.cc 69-145).
QueuesDrain == \A c \in Conns :
    /\ Positions(c, databaseQueue) # {} ~> Positions(c, databaseQueue) = {} /\ dbSession # c
    /\ Positions(c, transmissionQueue) # {} ~>
            \/ Positions(c, transmissionQueue) = {} /\ txSession # c
            \/ txStep = "hang"

\* "we will send the success response, and add the to address to the vector of
\* receivers" (SMTPServer.src.cc 431-433): once DATA was answered, the storage
\* thread comes to work off every recipient that was answered 250.
EveryRecipientServed == \A c \in Conns :
    phase[c] = "store" ~> Len(filed[c]) = Len(storageTasks[c])
=============================================================================
