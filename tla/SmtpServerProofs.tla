-------------------------- MODULE SmtpServerProofs --------------------------
(* Theorems about SmtpServer, for every set of connections and addresses. *)
EXTENDS SmtpServer, OrderLemmas, SequenceTheorems, FiniteSetTheorems, TLAPS

-----------------------------------------------------------------------------
(* The operations on a session's storage tasks *)

\* A function on 1 .. n is a sequence.
LEMMA FunctionIsSeq ==
    ASSUME NEW S, NEW n \in Nat, NEW f \in [1 .. n -> S]
    PROVE  f \in Seq(S) /\ Len(f) = n
<1>1. f \in Seq(S)
  BY SeqDef
<1> QED
  BY <1>1, LenProperties

\* Moving to Spam keeps the tasks' number and leaves none for an inbox.
LEMMA TasksToSpamType ==
    ASSUME NEW tasks \in Seq(StorageTask)
    PROVE  /\ TasksToSpam(tasks) \in Seq(StorageTask)
           /\ Len(TasksToSpam(tasks)) = Len(tasks)
           /\ \A i \in DOMAIN TasksToSpam(tasks) :
                 TasksToSpam(tasks)[i].target # "Incomming"
<1> DEFINE n == Len(tasks)
<1>1. /\ n \in Nat
      /\ DOMAIN tasks = 1 .. n
      /\ \A i \in 1 .. n : tasks[i] \in StorageTask
  BY LenProperties
<1>2. TasksToSpam(tasks) \in [1 .. n -> StorageTask]
  BY <1>1 DEF TasksToSpam, Sends, StorageTask, Targets
<1>3. \A i \in 1 .. n : TasksToSpam(tasks)[i].target # "Incomming"
  BY <1>1 DEF TasksToSpam, Sends, StorageTask, Targets
<1> HIDE DEF n
<1> QED
  BY <1>1, <1>2, <1>3, FunctionIsSeq

\* Moving to Spam leaves the Sent copies where they are, and makes none.
LEMMA TasksToSpamSent ==
    ASSUME NEW tasks \in Seq(StorageTask)
    PROVE  /\ DOMAIN TasksToSpam(tasks) = DOMAIN tasks
           /\ \A i \in DOMAIN tasks :
                 /\ TasksToSpam(tasks)[i].account = tasks[i].account
                 /\ TasksToSpam(tasks)[i].target = "Sent" <=> tasks[i].target = "Sent"
<1>1. \A i \in DOMAIN tasks : tasks[i] \in StorageTask
  BY LenProperties
<1> QED
  BY <1>1 DEF TasksToSpam, Sends, StorageTask

\* Whatever the headers say, parsing them makes a record of two flags.
LEMMA ParsedFlagsType ==
    ASSUME NEW xflags, NEW headers
    PROVE  ParsedFlags(xflags, headers) \in XFannstFlags
BY DEF ParsedFlags, XFannstFlags

\* At most one task is for the Sent mailbox.
OneSent(tasks) ==
    \A i, j \in DOMAIN tasks :
        tasks[i].target = "Sent" /\ tasks[j].target = "Sent" => i = j

\* Dropping the Sent copy: the first one goes, the tasks after it move up.
LEMMA RemoveSentIs ==
    ASSUME NEW tasks \in Seq(StorageTask)
    PROVE  \/ /\ RemoveSent(tasks) = tasks
              /\ \A i \in DOMAIN tasks : tasks[i].target # "Sent"
           \/ \E first \in 1 .. Len(tasks) :
                 /\ tasks[first].target = "Sent"
                 /\ RemoveSent(tasks) \in Seq(StorageTask)
                 /\ DOMAIN RemoveSent(tasks) = 1 .. Len(tasks) - 1
                 /\ \A i \in 1 .. Len(tasks) - 1 :
                       RemoveSent(tasks)[i] = IF i <= first - 1 THEN tasks[i] ELSE tasks[i + 1]
<1> DEFINE sent == {i \in 1 .. Len(tasks) : tasks[i].target = "Sent"}
           first == Min(sent)
           before == SubSeq(tasks, 1, first - 1)
           after == SubSeq(tasks, first + 1, Len(tasks))
<1>1. /\ Len(tasks) \in Nat
      /\ DOMAIN tasks = 1 .. Len(tasks)
      /\ \A i \in 1 .. Len(tasks) : tasks[i] \in StorageTask
  BY LenProperties
<1>2. CASE sent = {}
  <2>1. RemoveSent(tasks) = tasks
    BY <1>2 DEF RemoveSent, RemoveFirstMatch
  <2> QED
    BY <1>1, <1>2, <2>1
<1>3. CASE sent # {}
  <2>1. first \in 1 .. Len(tasks) /\ tasks[first].target = "Sent"
    <3>1. sent \in SUBSET Nat
      OBVIOUS
    <3>2. first \in sent
      BY <1>3, <3>1, MinOfNaturals
    <3> QED
      BY <3>2
  <2>2. RemoveSent(tasks) = before \o after
    BY <1>3 DEF RemoveSent, RemoveFirstMatch, RemoveAt, SelectInSeq
  <2> HIDE DEF first
  <2>3. /\ before \in Seq(StorageTask)
        /\ Len(before) = first - 1
        /\ \A i \in 1 .. first - 1 : before[i] = tasks[i]
    BY <1>1, <2>1, SubSeqProperties
  <2>4. /\ after \in Seq(StorageTask)
        /\ Len(after) = Len(tasks) - first
        /\ \A i \in 1 .. Len(tasks) - first : after[i] = tasks[first + i]
    <3>1. /\ first + 1 \in Int /\ Len(tasks) \in Int
          /\ \A i \in first + 1 .. Len(tasks) : tasks[i] \in StorageTask
      BY <1>1, <2>1
    <3>2. /\ after \in Seq(StorageTask)
          /\ Len(after) = IF first + 1 <= Len(tasks)
                            THEN Len(tasks) - (first + 1) + 1 ELSE 0
          /\ \A i \in 1 .. Len(tasks) - (first + 1) + 1 :
                after[i] = tasks[(first + 1) + i - 1]
      BY <3>1, SubSeqProperties
    <3> HIDE DEF after
    <3>3. Len(after) = Len(tasks) - first
      <4>1. Len(after) = IF first + 1 <= Len(tasks)
                           THEN Len(tasks) - (first + 1) + 1 ELSE 0
        BY <3>2
      <4>2. Len(tasks) \in Nat /\ first \in Nat /\ first <= Len(tasks)
        BY <1>1, <2>1
      <4> HIDE DEF before, sent
      <4> QED
        BY <4>1, <4>2
    <3>4. ASSUME NEW i \in 1 .. Len(tasks) - first
          PROVE  after[i] = tasks[first + i]
      <4>1. /\ i \in 1 .. Len(tasks) - (first + 1) + 1
            /\ (first + 1) + i - 1 = first + i
        BY <1>1, <2>1
      <4> QED
        BY <3>2, <4>1
    <3> QED
      BY <3>2, <3>3, <3>4
  <2> HIDE DEF before, after
  <2>5. /\ before \o after \in Seq(StorageTask)
        /\ DOMAIN (before \o after) = 1 .. Len(tasks) - 1
        /\ \A i \in 1 .. Len(tasks) - 1 :
              (before \o after)[i] = IF i <= first - 1 THEN tasks[i] ELSE tasks[i + 1]
    <3>1. /\ before \o after \in Seq(StorageTask)
          /\ Len(before \o after) = Len(before) + Len(after)
          /\ \A i \in 1 .. Len(before) + Len(after) : (before \o after)[i] =
                IF i <= Len(before) THEN before[i] ELSE after[i - Len(before)]
      BY <2>3, <2>4, ConcatProperties
    <3>2. Len(before) + Len(after) = Len(tasks) - 1
      BY <1>1, <2>1, <2>3, <2>4
    <3>3. ASSUME NEW i \in 1 .. Len(tasks) - 1
          PROVE  (before \o after)[i] = IF i <= first - 1 THEN tasks[i] ELSE tasks[i + 1]
      <4>1. CASE i <= first - 1
        BY <1>1, <2>1, <2>3, <3>1, <3>2, <4>1
      <4>2. CASE ~(i <= first - 1)
        <5>1. i - (first - 1) \in 1 .. Len(tasks) - first
          BY <1>1, <2>1, <4>2
        <5>2. first + (i - (first - 1)) = i + 1
          BY <2>1
        <5> QED
          BY <1>1, <2>1, <2>3, <2>4, <3>1, <3>2, <4>2, <5>1, <5>2, ZenonT(60)
      <4> QED
        BY <4>1, <4>2
    <3> QED
      BY <3>1, <3>2, <3>3, LenProperties
  <2> QED
    BY <2>1, <2>2, <2>5
<1> QED
  BY <1>2, <1>3

\* It adds no task, and when there was one copy there is none.
LEMMA RemoveSentType ==
    ASSUME NEW tasks \in Seq(StorageTask)
    PROVE  /\ RemoveSent(tasks) \in Seq(StorageTask)
           /\ \A i \in DOMAIN RemoveSent(tasks) :
                 /\ \E j \in DOMAIN tasks : RemoveSent(tasks)[i] = tasks[j]
                 /\ OneSent(tasks) => RemoveSent(tasks)[i].target # "Sent"
<1> DEFINE shorter == RemoveSent(tasks)
<1>1. Len(tasks) \in Nat /\ DOMAIN tasks = 1 .. Len(tasks)
  BY LenProperties
<1> HIDE DEF shorter
<1>2. CASE shorter = tasks /\ \A i \in DOMAIN tasks : tasks[i].target # "Sent"
  BY <1>2 DEF shorter
<1>3. ASSUME NEW first \in 1 .. Len(tasks),
             tasks[first].target = "Sent",
             DOMAIN shorter = 1 .. Len(tasks) - 1,
             \A i \in 1 .. Len(tasks) - 1 :
                 shorter[i] = IF i <= first - 1 THEN tasks[i] ELSE tasks[i + 1],
             NEW i \in DOMAIN shorter
      PROVE  /\ \E j \in DOMAIN tasks : shorter[i] = tasks[j]
             /\ OneSent(tasks) => shorter[i].target # "Sent"
  <2>1. /\ i \in DOMAIN tasks /\ i + 1 \in DOMAIN tasks /\ first \in DOMAIN tasks
        /\ i <= first - 1 => i # first
        /\ ~(i <= first - 1) => i + 1 # first
    BY <1>1, <1>3
  <2>2. shorter[i] = IF i <= first - 1 THEN tasks[i] ELSE tasks[i + 1]
    BY <1>3
  <2>3. \E j \in DOMAIN tasks : j # first /\ shorter[i] = tasks[j]
    <3>1. CASE i <= first - 1
      <4>1. i \in DOMAIN tasks /\ shorter[i] = tasks[i] /\ i # first
        BY <2>1, <2>2, <3>1
      <4> QED
        BY <4>1
    <3>2. CASE ~(i <= first - 1)
      <4>1. i + 1 \in DOMAIN tasks /\ shorter[i] = tasks[i + 1] /\ i + 1 # first
        BY <2>1, <2>2, <3>2
      <4> QED
        BY <4>1
    <3> QED
      BY <3>1, <3>2
  <2> QED
    BY <1>3, <2>1, <2>3 DEF OneSent
<1> QED
  BY <1>2, <1>3, RemoveSentIs DEF shorter

-----------------------------------------------------------------------------
(* Types.  The Sent copy of the first relayed recipient goes to the        *)
(* session's account, which is typed as the address it is before AUTH, too *)
(* (NoAddress): that it is an account by then needs what the session's     *)
(* flags say of the sender.                                                *)

\* A flag of a session stands for what was checked when it was set; a session
\* that was not accepted yet is blank.
SenderKnown == \A c \in Conns :
    /\ phase[c] = "none" => actions[c] = {} /\ relayTasks[c] = <<>>
    /\ "AUTH" \in flags[c] =>
          "AUTH_PERF" \in actions[c] /\ sendingAccount[c] \in verified[c]
    /\ "FROM_LOCAL" \in flags[c] =>
          /\ "AUTH" \in flags[c]
          /\ "MAIL_FROM" \in actions[c]
          /\ transportFrom[c] = sendingAccount[c]
    /\ relayTasks[c] # <<>> => "FROM_LOCAL" \in flags[c]

\* One step keeps the types.
LEMMA TypeStep == TypeOK /\ SenderKnown /\ [Next]_smtpVars => TypeOK'
<1> SUFFICES ASSUME TypeOK, SenderKnown, [Next]_smtpVars
             PROVE  TypeOK'
  OBVIOUS
<1> USE DEF TypeOK, session, queues, Goto, SetFlag, SetAction, Close,
            Command, CloseAfter, Flags, PerformedActions, Phases, BodyPhases
<1>1. CASE UNCHANGED smtpVars
  BY <1>1 DEF smtpVars
<1>2. ASSUME NEW c \in Conns, Command(c)
      PROVE  itt' \in [Conns -> 0 .. MaxCommands]
  BY <1>2, Bounds
<1>3. ASSUME NEW c \in Conns, Accept(c)
      PROVE  TypeOK'
  BY <1>3 DEF Accept
<1>4. ASSUME NEW c \in Conns, CommandLimit(c)
      PROVE  TypeOK'
  BY <1>4 DEF CommandLimit
<1>5. ASSUME NEW c \in Conns, ConnectionLost(c)
      PROVE  TypeOK'
  BY <1>5 DEF ConnectionLost
<1>6. ASSUME NEW c \in Conns, EndOfFile(c)
      PROVE  TypeOK'
  BY <1>6 DEF EndOfFile
<1>7. ASSUME NEW c \in Conns, TooLarge(c)
      PROVE  TypeOK'
  BY <1>7 DEF TooLarge
<1>8. ASSUME NEW c \in Conns, TrustSender(c)
      PROVE  TypeOK'
  BY <1>8 DEF TrustSender
<1>9. ASSUME NEW c \in Conns, Acknowledge(c)
      PROVE  TypeOK'
  BY <1>9 DEF Acknowledge
<1>10. ASSUME NEW c \in Conns, PushStorage(c)
      PROVE  TypeOK'
  BY <1>10 DEF PushStorage
<1>11. ASSUME NEW c \in Conns, PushRelay(c)
      PROVE  TypeOK'
  BY <1>11 DEF PushRelay
<1>12. ASSUME NEW c \in Conns, Answer(c)
      PROVE  TypeOK'
  BY <1>2, <1>12 DEF Answer
<1>13. ASSUME NEW c \in Conns, Quit(c)
      PROVE  TypeOK'
  BY <1>2, <1>13 DEF Quit
<1>14. ASSUME NEW c \in Conns, AuthFail(c)
      PROVE  TypeOK'
  BY <1>2, <1>14 DEF AuthFail
<1>15. ASSUME NEW c \in Conns, Helo(c)
      PROVE  TypeOK'
  BY <1>2, <1>15 DEF Helo
<1>16. ASSUME NEW c \in Conns, StartTLS(c)
      PROVE  TypeOK'
  BY <1>2, <1>16 DEF StartTLS
<1>17. ASSUME NEW c \in Conns, SuperUser(c)
      PROVE  TypeOK'
  BY <1>2, <1>17 DEF SuperUser
<1>18. ASSUME NEW c \in Conns, Data(c)
      PROVE  TypeOK'
  BY <1>2, <1>18 DEF Data
<1>19. ASSUME NEW c \in Conns, NEW from \in Addresses,
             MailFromForeign(c, from)
      PROVE  TypeOK'
  BY <1>2, <1>19 DEF MailFromForeign, MailAccepted
<1>20. ASSUME NEW c \in Conns, NEW from \in Addresses,
             MailFromLocal(c, from)
      PROVE  TypeOK'
  BY <1>2, <1>20 DEF MailFromLocal, MailAccepted
<1>21. ASSUME NEW c \in Conns, NEW from \in Addresses,
             MailFromNotAllowed(c, from)
      PROVE  TypeOK'
  BY <1>2, <1>21 DEF MailFromNotAllowed
<1>22. ASSUME NEW c \in Conns, NEW to \in Addresses, RcptToLocal(c, to)
      PROVE  TypeOK'
  <2>1. Sends(to, "Incomming") \in StorageTask
    BY <1>22 DEF RcptToLocal, Sends, StorageTask, Targets
  <2>2. storageTasks' \in [Conns -> Seq(StorageTask)]
    BY <1>22, <2>1 DEF RcptToLocal
  <2>3. /\ actions' \in [Conns -> SUBSET PerformedActions]
        /\ itt' \in [Conns -> 0 .. MaxCommands]
        /\ UNCHANGED <<phase, flags, transportFrom, sendingAccount, relayTasks,
                       possibleSpam, xfannst, verified, queues>>
    BY <1>2, <1>22 DEF RcptToLocal
  <2> QED
    BY <2>2, <2>3
<1>23. ASSUME NEW c \in Conns, NEW to \in Addresses, RcptToRelay(c, to)
      PROVE  TypeOK'
  <2>1. sendingAccount[c] \in Accounts
    BY <1>23 DEF RcptToRelay, SenderKnown
  <2>2. Sends(sendingAccount[c], "Sent") \in StorageTask
    BY <2>1 DEF Sends, StorageTask, Targets
  <2>3. storageTasks' \in [Conns -> Seq(StorageTask)]
    BY <1>23, <2>2 DEF RcptToRelay
  <2>4. /\ relayTasks' \in [Conns -> Seq(Remotes)]
        /\ flags' \in [Conns -> SUBSET Flags]
    BY <1>23 DEF RcptToRelay
  <2>5. /\ actions' \in [Conns -> SUBSET PerformedActions]
        /\ itt' \in [Conns -> 0 .. MaxCommands]
        /\ UNCHANGED <<phase, transportFrom, sendingAccount, possibleSpam,
                       xfannst, verified, queues>>
    BY <1>2, <1>23 DEF RcptToRelay
  <2> QED
    BY <2>3, <2>4, <2>5
<1>24. ASSUME NEW c \in Conns, NEW user \in Accounts, AuthSuccess(c, user)
      PROVE  TypeOK'
  <2>1. /\ flags' \in [Conns -> SUBSET Flags]
        /\ actions' \in [Conns -> SUBSET PerformedActions]
        /\ itt' \in [Conns -> 0 .. MaxCommands]
    BY <1>2, <1>24 DEF AuthSuccess
  <2>2. /\ sendingAccount' \in [Conns -> Accounts \cup {NoAddress}]
        /\ verified' \in [Conns -> SUBSET Accounts]
        /\ UNCHANGED <<phase, transportFrom, storageTasks, relayTasks, possibleSpam,
                       xfannst, queues>>
    BY <1>24 DEF AuthSuccess
  <2> QED
    BY <2>1, <2>2
<1>25. ASSUME NEW c \in Conns, NEW user \in Accounts,
             AuthDatabaseFailure(c, user)
      PROVE  TypeOK'
  BY <1>2, <1>25 DEF AuthDatabaseFailure
<1>26. ASSUME NEW c \in Conns, NEW spf \in BOOLEAN, NEW policy \in Policies,
             CheckSender(c, spf, policy)
      PROVE  TypeOK'
  BY <1>26 DEF CheckSender
<1>27. ASSUME NEW c \in Conns, NEW headers \in FlagHeaders, File(c, headers)
      PROVE  TypeOK'
  <2>1. storageTasks' \in [Conns -> Seq(StorageTask)]
    BY <1>27, TasksToSpamType, RemoveSentType DEF File
  <2>2. ParsedFlags(xfannst[c], headers) \in XFannstFlags
    BY ParsedFlagsType
  <2> QED
    BY <1>27, <2>1, <2>2 DEF File
<1> QED
  BY <1>1, <1>3, <1>4, <1>5, <1>6, <1>7, <1>8, <1>9, <1>10,
     <1>11, <1>12, <1>13, <1>14, <1>15, <1>16, <1>17, <1>18,
     <1>19, <1>20, <1>21, <1>22, <1>23, <1>24, <1>25, <1>26,
     <1>27
  DEF Next, Serve, Idle

-----------------------------------------------------------------------------
(* The sender: who he is, that he proved it, that it stays so *)

senderVars == <<flags, actions, transportFrom, sendingAccount, relayTasks, verified>>

\* The steps that say nothing about the sender; none starts a connection anew.
LEMMA Bystander ==
    ASSUME TypeOK, NEW c \in Conns,
           \/ CommandLimit(c) \/ ConnectionLost(c) \/ EndOfFile(c) \/ TooLarge(c)
           \/ Answer(c) \/ Quit(c) \/ AuthFail(c) \/ TrustSender(c)
           \/ Acknowledge(c) \/ PushStorage(c) \/ PushRelay(c)
           \/ \E from \in Addresses : MailFromNotAllowed(c, from)
           \/ \E spf \in BOOLEAN, policy \in Policies : CheckSender(c, spf, policy)
           \/ \E headers \in FlagHeaders : File(c, headers)
    PROVE  /\ UNCHANGED senderVars
           /\ \A d \in Conns : phase'[d] = "none" => phase[d] = "none"
<1> USE DEF TypeOK, senderVars, session, queues, Goto, Close, Command, CloseAfter
<1>1. CASE CommandLimit(c) \/ ConnectionLost(c) \/ EndOfFile(c) \/ TooLarge(c)
  BY <1>1 DEF CommandLimit, ConnectionLost, EndOfFile, TooLarge
<1>2. CASE Answer(c) \/ Quit(c) \/ AuthFail(c) \/ TrustSender(c)
  BY <1>2 DEF Answer, Quit, AuthFail, TrustSender
<1>3. CASE Acknowledge(c) \/ PushStorage(c) \/ PushRelay(c)
  BY <1>3 DEF Acknowledge, PushStorage, PushRelay
<1>4. CASE \E from \in Addresses : MailFromNotAllowed(c, from)
  BY <1>4 DEF MailFromNotAllowed
<1>5. CASE \E spf \in BOOLEAN, policy \in Policies : CheckSender(c, spf, policy)
  BY <1>5 DEF CheckSender
<1>6. CASE \E headers \in FlagHeaders : File(c, headers)
  BY <1>6 DEF File
<1> QED
  BY <1>1, <1>2, <1>3, <1>4, <1>5, <1>6

SenderInv == SenderKnown /\ LocalSenderVouched

\* One step keeps what the flags say of the sender.
LEMMA SenderStep == TypeOK /\ SenderInv /\ [Next]_smtpVars => SenderInv'
<1> SUFFICES ASSUME TypeOK, SenderInv, [Next]_smtpVars
             PROVE  SenderInv'
  OBVIOUS
<1> USE DEF TypeOK, SenderInv, SenderKnown, LocalSenderVouched, LocalAddresses
<1>1. ASSUME UNCHANGED senderVars,
             \A d \in Conns : phase'[d] = "none" => phase[d] = "none"
      PROVE  SenderInv'
  BY <1>1 DEF senderVars
<1> USE DEF Goto, SetFlag, SetAction, Command
<1>2. CASE UNCHANGED smtpVars
  BY <1>2 DEF smtpVars, session, queues
<1>3. ASSUME NEW c \in Conns, Accept(c)
      PROVE  SenderInv'
  BY <1>3 DEF Accept
<1>4. ASSUME NEW c \in Conns, Helo(c)
      PROVE  SenderInv'
  BY <1>4 DEF Helo
<1>5. ASSUME NEW c \in Conns, StartTLS(c)
      PROVE  SenderInv'
  BY <1>5 DEF StartTLS
<1>6. ASSUME NEW c \in Conns, SuperUser(c)
      PROVE  SenderInv'
  BY <1>6 DEF SuperUser
<1>7. ASSUME NEW c \in Conns, Data(c)
      PROVE  SenderInv'
  BY <1>7 DEF Data
<1>8. ASSUME NEW c \in Conns, NEW from \in Addresses, MailFromForeign(c, from)
      PROVE  SenderInv'
  BY <1>8, AddressKinds DEF MailFromForeign, MailAccepted, MayMail
<1>9. ASSUME NEW c \in Conns, NEW from \in Addresses, MailFromLocal(c, from)
      PROVE  SenderInv'
  BY <1>9 DEF MailFromLocal, MailAccepted, MayMail
<1>10. ASSUME NEW c \in Conns, NEW to \in Addresses, RcptToLocal(c, to)
       PROVE  SenderInv'
  BY <1>10 DEF RcptToLocal
<1>11. ASSUME NEW c \in Conns, NEW to \in Addresses, RcptToRelay(c, to)
       PROVE  SenderInv'
  BY <1>11 DEF RcptToRelay
<1>12. ASSUME NEW c \in Conns, NEW user \in Accounts, AuthSuccess(c, user)
       PROVE  SenderInv'
  BY <1>12 DEF AuthSuccess, MayAuth
<1>13. ASSUME NEW c \in Conns, NEW user \in Accounts, AuthDatabaseFailure(c, user)
       PROVE  SenderInv'
  BY <1>13 DEF AuthDatabaseFailure, MayAuth
<1>14. Idle => UNCHANGED smtpVars
  BY DEF Idle
<1> QED
  BY <1>1, <1>2, <1>3, <1>4, <1>5, <1>6, <1>7, <1>8, <1>9, <1>10, <1>11,
     <1>12, <1>13, <1>14, Bystander DEF Next, Serve

\* The variables keep their types, and the sender's invariant holds, whatever
\* the clients send in whatever order.
LEMMA Inductive == Spec => [](TypeOK /\ SenderInv)
<1>1. Init => TypeOK /\ SenderInv
  BY Bounds DEF Init, TypeOK, SenderInv, SenderKnown, LocalSenderVouched,
                Flags, Phases, XFannstFlags
<1>2. TypeOK /\ SenderInv /\ [Next]_smtpVars => (TypeOK /\ SenderInv)'
  BY TypeStep, SenderStep DEF SenderInv
<1> QED
  BY <1>1, <1>2, PTL DEF Spec

\* Every variable of the server keeps its type (SMTPServerSession.src.cc).
THEOREM TypeCorrect == Spec => []TypeOK
BY Inductive, PTL

\* Nobody is accepted as a local sender unless he is that user or one of our
\* own servers (SMTPServer.src.cc 316-348).
THEOREM LocalSendersAreVouched == Spec => []LocalSenderVouched
BY Inductive, PTL DEF SenderInv

\* Mail is relayed only for a user who proved his password on this connection
\* and sends under his own address (SMTPServer.src.cc 320-347, 399-434, 498-506).
THEOREM RelayIsAuthorised == Spec => []RelayAuthorised
<1>1. TypeOK /\ SenderInv => RelayAuthorised
  BY DEF SenderInv, SenderKnown, RelayAuthorised
<1> QED
  BY <1>1, Inductive, PTL

-----------------------------------------------------------------------------
(* What follows from them *)

\* What a step never does to the account and the envelope sender of a session.
Settled == \A c \in Conns :
    /\ "AUTH" \in flags[c] => sendingAccount'[c] = sendingAccount[c]
    /\ "MAIL_FROM" \in actions[c] => transportFrom'[c] = transportFrom[c]

LEMMA SettledStep == TypeOK /\ SenderInv /\ [Next]_smtpVars => Settled
<1> SUFFICES ASSUME TypeOK, SenderInv, [Next]_smtpVars
             PROVE  Settled
  OBVIOUS
<1> USE DEF Settled, TypeOK, SenderInv, SenderKnown
<1>1. CASE UNCHANGED senderVars
  BY <1>1 DEF senderVars
<1>2. CASE UNCHANGED smtpVars
  BY <1>2 DEF smtpVars, session
<1>3. ASSUME NEW c \in Conns,
             Accept(c) \/ Helo(c) \/ StartTLS(c) \/ SuperUser(c) \/ Data(c)
      PROVE  Settled
  BY <1>3 DEF Accept, Helo, StartTLS, SuperUser, Data
<1>4. ASSUME NEW c \in Conns, NEW from \in Addresses,
             MailFromForeign(c, from) \/ MailFromLocal(c, from)
      PROVE  Settled
  BY <1>4 DEF MailFromForeign, MailFromLocal, MailAccepted, MayMail
<1>5. ASSUME NEW c \in Conns, NEW to \in Addresses,
             RcptToLocal(c, to) \/ RcptToRelay(c, to)
      PROVE  Settled
  BY <1>5 DEF RcptToLocal, RcptToRelay
<1>6. ASSUME NEW c \in Conns, NEW user \in Accounts,
             AuthSuccess(c, user) \/ AuthDatabaseFailure(c, user)
      PROVE  Settled
  BY <1>6 DEF AuthSuccess, AuthDatabaseFailure, MayAuth
<1>7. Idle => UNCHANGED smtpVars
  BY DEF Idle
<1> QED
  BY <1>1, <1>2, <1>3, <1>4, <1>5, <1>6, <1>7, Bystander DEF Next, Serve

\* The account never changes once AUTH succeeded, the envelope sender never
\* once MAIL FROM did (SMTPAuthentication.src.cc 74-116 writes the account
\* before it has checked the password).
THEOREM SenderIsSettled == Spec => SenderSettled
<1>1. TypeOK /\ SenderInv /\ [Next]_smtpVars => [Settled]_smtpVars
  BY SettledStep
<1> QED
  BY <1>1, Inductive, PTL DEF Spec, SenderSettled, Settled

-----------------------------------------------------------------------------
(* The targets of a suspect message *)

\* Commands that may add a recipient are served in phase "command" only.
LEMMA SuspectStep == TypeOK /\ SuspectNotForInbox /\ [Next]_smtpVars => SuspectNotForInbox'
<1> SUFFICES ASSUME TypeOK, SuspectNotForInbox, [Next]_smtpVars
             PROVE  SuspectNotForInbox'
  OBVIOUS
<1> USE DEF TypeOK, SuspectNotForInbox, session, queues, Goto, Close, CloseAfter, Command
<1>1. CASE UNCHANGED smtpVars
  BY <1>1 DEF smtpVars
<1>2. ASSUME NEW c \in Conns,
             /\ UNCHANGED <<storageTasks, possibleSpam>>
             /\ phase' = phase
                  \/ \E p \in Phases \ {"reply", "store", "relay"} :
                        phase' = [phase EXCEPT ![c] = p]
      PROVE  SuspectNotForInbox'
  BY <1>2
<1>3. ASSUME NEW c \in Conns, Accept(c)
      PROVE  SuspectNotForInbox'
  BY <1>2, <1>3 DEF Accept, Phases
<1>4. ASSUME NEW c \in Conns,
             CommandLimit(c) \/ ConnectionLost(c) \/ EndOfFile(c) \/ TooLarge(c) \/ TrustSender(c)
      PROVE  SuspectNotForInbox'
  BY <1>2, <1>4 DEF CommandLimit, ConnectionLost, EndOfFile, TooLarge,
                    TrustSender, Phases, BodyPhases
<1>5. ASSUME NEW c \in Conns, Answer(c) \/ Quit(c) \/ AuthFail(c) \/ Helo(c)
      PROVE  SuspectNotForInbox'
  BY <1>2, <1>5 DEF Answer, Quit, AuthFail, Helo, Phases
<1>6. ASSUME NEW c \in Conns, StartTLS(c) \/ SuperUser(c) \/ Data(c)
      PROVE  SuspectNotForInbox'
  BY <1>2, <1>6 DEF StartTLS, SuperUser, Data, Phases, BodyPhases
<1>7. ASSUME NEW c \in Conns, NEW from \in Addresses,
             MailFromForeign(c, from) \/ MailFromLocal(c, from) \/ MailFromNotAllowed(c, from)
      PROVE  SuspectNotForInbox'
  BY <1>2, <1>7 DEF MailFromForeign, MailFromLocal, MailFromNotAllowed, MailAccepted, Phases
<1>8. ASSUME NEW c \in Conns, NEW user \in Accounts,
             AuthSuccess(c, user) \/ AuthDatabaseFailure(c, user)
      PROVE  SuspectNotForInbox'
  BY <1>2, <1>8 DEF AuthSuccess, AuthDatabaseFailure
<1>9. ASSUME NEW c \in Conns, NEW to \in Addresses, RcptToLocal(c, to) \/ RcptToRelay(c, to)
      PROVE  SuspectNotForInbox'
  <2>1. /\ phase' = phase /\ phase[c] = "command"
        /\ possibleSpam' = possibleSpam
        /\ \A d \in Conns \ {c} : storageTasks'[d] = storageTasks[d]
    BY <1>9 DEF RcptToLocal, RcptToRelay
  <2> QED
    BY <2>1, ZenonT(60)
<1>10. ASSUME NEW c \in Conns, NEW spf \in BOOLEAN, NEW policy \in Policies,
              CheckSender(c, spf, policy)
       PROVE  SuspectNotForInbox'
  BY <1>2, <1>10, ZenonT(60) DEF CheckSender, Phases
<1>11. ASSUME NEW c \in Conns, NEW headers \in FlagHeaders, File(c, headers)
       PROVE  SuspectNotForInbox'
  <2>1. storageTasks[c] \in Seq(StorageTask)
    OBVIOUS
  <2>2. possibleSpam[c] =>
          \A i \in DOMAIN storageTasks'[c] : storageTasks'[c][i].target # "Incomming"
    BY <1>11, <2>1, TasksToSpamType, RemoveSentType DEF File
  <2>3. \A d \in Conns \ {c} : storageTasks'[d] = storageTasks[d] /\ phase'[d] = phase[d]
    BY <1>11 DEF File
  <2> QED
    BY <1>11, <2>2, <2>3, ZenonT(60) DEF File
<1>12. ASSUME NEW c \in Conns, Acknowledge(c) \/ PushStorage(c) \/ PushRelay(c)
       PROVE  SuspectNotForInbox'
  <2>1. /\ UNCHANGED <<storageTasks, possibleSpam>>
        /\ phase[c] \in {"reply", "store", "relay"}
        /\ \E p \in Phases : phase' = [phase EXCEPT ![c] = p]
    BY <1>12 DEF Acknowledge, PushStorage, PushRelay, Phases, BodyPhases
  <2>2. \A d \in Conns : phase'[d] \in {"reply", "store", "relay"} =>
                            phase[d] \in {"reply", "store", "relay"}
    BY <2>1
  <2> QED
    BY <2>1, <2>2, ZenonT(60)
<1>13. Idle => UNCHANGED smtpVars
  BY DEF Idle
<1> QED
  BY <1>1, <1>3, <1>4, <1>5, <1>6, <1>7, <1>8, <1>9, <1>10, <1>11, <1>12, <1>13
  DEF Next, Serve

\* From the change of its targets until it is queued a suspect message has no
\* task for an inbox (data.src.cc 284-306).
THEOREM SuspectsAreNotForInbox == Spec => []SuspectNotForInbox
<1>1. Init => SuspectNotForInbox
  BY DEF Init, SuspectNotForInbox
<1> QED
  BY <1>1, SuspectStep, TypeCorrect, PTL DEF Spec

-----------------------------------------------------------------------------
(* The Sent copy *)

\* Mail is relayed exactly when the session's flag says so, and the flag is what
\* the handler asks before it files a copy: one copy, for the envelope's sender,
\* from then on, until a header asks for none.
SentOf(c) ==
    /\ "RELAY" \in flags[c] <=> relayTasks[c] # <<>>
    /\ OneSent(storageTasks[c])
    /\ \A i \in DOMAIN storageTasks[c] : storageTasks[c][i].target = "Sent" =>
          "RELAY" \in flags[c] /\ storageTasks[c][i].account = transportFrom[c]
    /\ "RELAY" \in flags[c] /\ ~xfannst[c].nostore =>
          \E i \in DOMAIN storageTasks[c] : storageTasks[c][i].target = "Sent"

SentInv == \A c \in Conns : SentOf(c)

\* What a session's copy depends on: as long as it stays the copy is right.
LEMMA SentStays ==
    ASSUME NEW c \in Conns, SentOf(c),
           "RELAY" \in flags'[c] <=> "RELAY" \in flags[c],
           relayTasks'[c] = relayTasks[c], storageTasks'[c] = storageTasks[c],
           transportFrom'[c] = transportFrom[c], xfannst'[c] = xfannst[c]
    PROVE  SentOf(c)'
BY DEF SentOf, OneSent

\* A task appended comes after the others.
LEMMA AppendTask ==
    ASSUME NEW tasks \in Seq(StorageTask), NEW task \in StorageTask
    PROVE  /\ DOMAIN tasks \subseteq DOMAIN Append(tasks, task)
           /\ \A i \in DOMAIN tasks : Append(tasks, task)[i] = tasks[i]
           /\ \E i \in DOMAIN Append(tasks, task) : Append(tasks, task)[i] = task
           /\ \E last : \A i \in DOMAIN Append(tasks, task) :
                 \/ i \in DOMAIN tasks
                 \/ i = last /\ Append(tasks, task)[i] = task
<1> DEFINE n == Len(tasks)
           longer == Append(tasks, task)
<1>1. n \in Nat /\ DOMAIN tasks = 1 .. n
  BY LenProperties
<1>2. /\ longer \in Seq(StorageTask) /\ Len(longer) = n + 1
      /\ \A i \in 1 .. n : longer[i] = tasks[i]
      /\ longer[n + 1] = task
  BY AppendProperties
<1>3. DOMAIN longer = 1 .. n + 1
  BY <1>2, LenProperties
<1> HIDE DEF n, longer
<1>4. n + 1 \in 1 .. n + 1 /\ \A i \in 1 .. n + 1 : i \in 1 .. n \/ i = n + 1
  BY <1>1
<1> QED
  BY <1>1, <1>2, <1>3, <1>4 DEF longer

\* Setting another flag leaves RELAY alone.
LEMMA OtherFlag ==
    ASSUME TypeOK, NEW c \in Conns, NEW flag, flag # "RELAY",
           flags' = [flags EXCEPT ![c] = @ \cup {flag}], NEW d \in Conns
    PROVE  "RELAY" \in flags'[d] <=> "RELAY" \in flags[d]
<1>1. flags \in [Conns -> SUBSET Flags]
  BY DEF TypeOK
<1>2. CASE d = c
  <2>1. flags'[d] = flags[d] \cup {flag}
    BY <1>1, <1>2
  <2> QED
    BY <2>1
<1>3. CASE d # c
  BY <1>1, <1>3
<1> QED
  BY <1>2, <1>3

\* The steps that leave every session's copy as it is.
LEMMA SentBystander ==
    ASSUME TypeOK, SenderInv, SentInv, NEW c \in Conns,
           \/ Accept(c) \/ CommandLimit(c) \/ ConnectionLost(c) \/ EndOfFile(c)
           \/ Answer(c) \/ Quit(c) \/ AuthFail(c) \/ Helo(c) \/ StartTLS(c) \/ SuperUser(c)
           \/ Data(c) \/ TooLarge(c) \/ TrustSender(c)
           \/ Acknowledge(c) \/ PushStorage(c) \/ PushRelay(c)
           \/ \E from \in Addresses : MailFromNotAllowed(c, from)
           \/ \E user \in Accounts : AuthSuccess(c, user) \/ AuthDatabaseFailure(c, user)
           \/ \E spf \in BOOLEAN, policy \in Policies : CheckSender(c, spf, policy)
    PROVE  SentInv'
<1> SUFFICES /\ UNCHANGED <<relayTasks, storageTasks, transportFrom, xfannst>>
             /\ \A d \in Conns : "RELAY" \in flags'[d] <=> "RELAY" \in flags[d]
  BY SentStays DEF SentInv
<1> USE DEF session, queues, Goto, SetFlag, Close, Command, CloseAfter
<1>1. CASE Accept(c)
  <2>1. "RELAY" \notin flags[c]
    BY <1>1 DEF Accept, SenderInv, SenderKnown, SentInv, SentOf
  <2> QED
    BY <1>1, <2>1 DEF Accept, TypeOK
<1>2. CASE StartTLS(c) \/ SuperUser(c)
  <2>1. /\ UNCHANGED <<relayTasks, storageTasks, transportFrom, xfannst>>
        /\ \/ flags' = [flags EXCEPT ![c] = @ \cup {"SSL"}]
           \/ flags' = [flags EXCEPT ![c] = @ \cup {"SU"}]
    BY <1>2 DEF StartTLS, SuperUser
  <2> QED
    BY <2>1, OtherFlag
<1>3. CASE \E user \in Accounts : AuthSuccess(c, user) \/ AuthDatabaseFailure(c, user)
  BY <1>3 DEF AuthSuccess, AuthDatabaseFailure, TypeOK
<1>4. CASE \/ CommandLimit(c) \/ ConnectionLost(c) \/ EndOfFile(c)
           \/ Answer(c) \/ Quit(c) \/ AuthFail(c) \/ Helo(c)
  BY <1>4 DEF CommandLimit, ConnectionLost, EndOfFile, Answer, Quit, AuthFail, Helo
<1>5. CASE \/ Data(c) \/ TooLarge(c) \/ TrustSender(c)
           \/ Acknowledge(c) \/ PushStorage(c) \/ PushRelay(c)
  BY <1>5 DEF Data, TooLarge, TrustSender, Acknowledge, PushStorage, PushRelay
<1>6. CASE \E from \in Addresses : MailFromNotAllowed(c, from)
  BY <1>6 DEF MailFromNotAllowed
<1>7. CASE \E spf \in BOOLEAN, policy \in Policies : CheckSender(c, spf, policy)
  BY <1>7 DEF CheckSender
<1> QED
  BY <1>1, <1>2, <1>3, <1>4, <1>5, <1>6, <1>7

\* A sender is named before there is anything to relay.
LEMMA SentMail ==
    ASSUME TypeOK, SenderInv, SentInv, NEW c \in Conns, NEW from \in Addresses,
           MailFromForeign(c, from) \/ MailFromLocal(c, from)
    PROVE  SentInv'
<1>1. /\ UNCHANGED <<relayTasks, storageTasks, xfannst>>
      /\ transportFrom' = [transportFrom EXCEPT ![c] = from]
      /\ "MAIL_FROM" \notin actions[c]
  BY DEF MailFromForeign, MailFromLocal, MailAccepted, MayMail
<1>2. \A d \in Conns : "RELAY" \in flags'[d] <=> "RELAY" \in flags[d]
  <2>1. \/ flags' = flags
        \/ flags' = [flags EXCEPT ![c] = @ \cup {"FROM_LOCAL"}]
    BY DEF MailFromForeign, MailFromLocal, SetFlag
  <2> QED
    BY <2>1, OtherFlag
<1>3. "RELAY" \notin flags[c]
  BY <1>1 DEF SenderInv, SenderKnown, SentInv, SentOf
<1>4. SentOf(c)'
  BY <1>1, <1>2, <1>3 DEF SentInv, SentOf, OneSent
<1>5. ASSUME NEW d \in Conns \ {c}
      PROVE  SentOf(d)'
  <2>1. transportFrom'[d] = transportFrom[d]
    BY <1>1 DEF TypeOK
  <2> QED
    BY <1>1, <1>2, <2>1, SentStays DEF SentInv
<1> QED
  BY <1>4, <1>5 DEF SentInv

\* A local recipient has no copy; the first relayed one has it filed for the
\* sender, the later ones find the flag set.
LEMMA SentRcpt ==
    ASSUME TypeOK, SenderInv, SentInv, NEW c \in Conns, NEW to \in Addresses,
           RcptToLocal(c, to) \/ RcptToRelay(c, to)
    PROVE  SentInv'
<1>1. /\ storageTasks[c] \in Seq(StorageTask) /\ relayTasks[c] \in Seq(Remotes)
      /\ SentOf(c)
  BY DEF TypeOK, SentInv
<1>2. ASSUME NEW d \in Conns \ {c}
      PROVE  SentOf(d)'
  <2>1. /\ storageTasks'[d] = storageTasks[d] /\ relayTasks'[d] = relayTasks[d]
        /\ transportFrom'[d] = transportFrom[d] /\ xfannst'[d] = xfannst[d]
        /\ flags'[d] = flags[d]
    BY DEF RcptToLocal, RcptToRelay, SetFlag, TypeOK
  <2> QED
    BY <2>1, SentStays DEF SentInv
<1>3. CASE RcptToLocal(c, to)
  <2> DEFINE task == Sends(to, "Incomming")
  <2>1. task \in StorageTask /\ task.target # "Sent"
    BY <1>3 DEF RcptToLocal, Sends, StorageTask, Targets
  <2>2. /\ storageTasks'[c] = Append(storageTasks[c], task)
        /\ UNCHANGED <<relayTasks, transportFrom, xfannst, flags>>
    BY <1>3 DEF RcptToLocal, TypeOK
  <2> HIDE DEF task
  <2>3. SentOf(c)'
    BY <1>1, <2>1, <2>2, AppendTask, SMTT(40) DEF SentOf, OneSent
  <2> QED
    BY <1>2, <2>3 DEF SentInv
<1>4. CASE RcptToRelay(c, to)
  <2> DEFINE task == Sends(sendingAccount[c], "Sent")
  <2>1. /\ UNCHANGED <<transportFrom, xfannst>>
        /\ "RELAY" \in flags'[c]
        /\ to \in Remotes
        /\ relayTasks'[c] = Append(relayTasks[c], to)
        /\ "RELAY" \in flags[c] => storageTasks'[c] = storageTasks[c]
        /\ "RELAY" \notin flags[c] => storageTasks'[c] = Append(storageTasks[c], task)
    BY <1>4 DEF RcptToRelay, SetFlag, TypeOK
  <2>2. relayTasks'[c] # <<>>
    <3>1. Append(relayTasks[c], to) # <<>>
      BY <1>1, <2>1, AppendProperties
    <3> QED
      BY <2>1, <3>1
  <2>3. task \in StorageTask /\ task.target = "Sent" /\ task.account = transportFrom[c]
    BY <1>4 DEF RcptToRelay, SenderInv, SenderKnown, TypeOK, Sends, StorageTask, Targets
  <2> HIDE DEF task
  <2>4. CASE "RELAY" \in flags[c]
    <3>1. storageTasks'[c] = storageTasks[c]
      BY <2>1, <2>4
    <3> QED
      BY <1>1, <1>2, <2>1, <2>2, <2>4, <3>1 DEF SentOf, SentInv, OneSent
  <2>5. CASE "RELAY" \notin flags[c]
    <3>1. storageTasks'[c] = Append(storageTasks[c], task)
      BY <2>1, <2>5
    <3>2. \A i \in DOMAIN storageTasks[c] : storageTasks[c][i].target # "Sent"
      BY <1>1, <2>5 DEF SentOf
    <3>3. /\ OneSent(storageTasks'[c])
          /\ \A i \in DOMAIN storageTasks'[c] : storageTasks'[c][i].target = "Sent" =>
                storageTasks'[c][i].account = transportFrom[c]
          /\ \E i \in DOMAIN storageTasks'[c] : storageTasks'[c][i].target = "Sent"
      BY <1>1, <2>3, <3>1, <3>2, AppendTask DEF OneSent
    <3>4. SentOf(c)'
      BY <2>1, <2>2, <3>3 DEF SentOf, OneSent
    <3> QED
      BY <1>2, <3>4 DEF SentInv
  <2> QED
    BY <2>4, <2>5
<1> QED
  BY <1>3, <1>4

\* Moving to Spam keeps the copy; a header that asks for none removes it.
LEMMA SentFile ==
    ASSUME TypeOK, SentInv, NEW c \in Conns, NEW headers \in FlagHeaders, File(c, headers)
    PROVE  SentInv'
<1> DEFINE xflags == ParsedFlags(xfannst[c], headers)
           tasks == storageTasks[c]
           moved == IF possibleSpam[c] THEN TasksToSpam(tasks) ELSE tasks
<1>1. tasks \in Seq(StorageTask) /\ SentOf(c)
  BY DEF TypeOK, SentInv
<1>2. /\ xfannst'[c] = xflags
      /\ storageTasks'[c] = IF xflags.nostore THEN RemoveSent(moved) ELSE moved
      /\ UNCHANGED <<relayTasks, transportFrom, flags>>
      /\ \A d \in Conns \ {c} : storageTasks'[d] = storageTasks[d] /\ xfannst'[d] = xfannst[d]
  BY DEF File, TypeOK
<1>3. xfannst[c].nostore => xflags.nostore
  BY DEF ParsedFlags
<1> HIDE DEF xflags
<1>4. /\ moved \in Seq(StorageTask)
      /\ DOMAIN moved = DOMAIN tasks
      /\ \A i \in DOMAIN tasks : /\ moved[i].account = tasks[i].account
                                 /\ moved[i].target = "Sent" <=> tasks[i].target = "Sent"
  BY <1>1, TasksToSpamType, TasksToSpamSent
<1> HIDE DEF moved
<1>5. OneSent(moved)
  BY <1>1, <1>4 DEF SentOf, OneSent
<1>6. SentOf(c)'
  <2>1. CASE xflags.nostore
    <3>1. \A i \in DOMAIN storageTasks'[c] : storageTasks'[c][i].target # "Sent"
      BY <1>2, <1>4, <1>5, <2>1, RemoveSentType
    <3> QED
      BY <1>1, <1>2, <2>1, <3>1 DEF SentOf, OneSent
  <2>2. CASE ~xflags.nostore
    <3>1. storageTasks'[c] = moved
      BY <1>2, <2>2
    <3> QED
      BY <1>1, <1>2, <1>3, <1>4, <1>5, <2>2, <3>1 DEF SentOf, OneSent
  <2> QED
    BY <2>1, <2>2
<1>7. ASSUME NEW d \in Conns \ {c}
      PROVE  SentOf(d)'
  BY <1>2, SentStays DEF SentInv
<1> QED
  BY <1>6, <1>7 DEF SentInv

LEMMA SentStep == TypeOK /\ SenderInv /\ SentInv /\ [Next]_smtpVars => SentInv'
<1> SUFFICES ASSUME TypeOK, SenderInv, SentInv, [Next]_smtpVars
             PROVE  SentInv'
  OBVIOUS
<1>1. CASE UNCHANGED smtpVars
  BY <1>1, SentStays DEF SentInv, smtpVars, session
<1>2. CASE \E c \in Conns : Accept(c) \/ Serve(c)
  BY <1>2, SentBystander, SentMail, SentRcpt, SentFile DEF Serve
<1>3. Idle => UNCHANGED smtpVars
  BY DEF Idle
<1> QED
  BY <1>1, <1>2, <1>3 DEF Next

LEMMA SentFollows == SentInv => SentCopy
<1> SUFFICES ASSUME SentInv, NEW c \in Conns
             PROVE  /\ Cardinality(SentTasks(c)) <= 1
                    /\ \A i \in SentTasks(c) : storageTasks[c][i].account = transportFrom[c]
                    /\ SentTasks(c) # {} => relayTasks[c] # <<>>
                    /\ relayTasks[c] # <<>> /\ ~xfannst[c].nostore => SentTasks(c) # {}
  BY DEF SentCopy
<1>1. SentOf(c)
  BY DEF SentInv
<1>2. CASE SentTasks(c) = {}
  <2>1. Cardinality(SentTasks(c)) = 0
    BY <1>2, FS_EmptySet
  <2> QED
    BY <1>1, <1>2, <2>1 DEF SentOf, SentTasks
<1>3. CASE SentTasks(c) # {}
  <2>1. PICK i \in SentTasks(c) : TRUE
    BY <1>3
  <2>2. SentTasks(c) = {i}
    BY <1>1, <2>1 DEF SentOf, OneSent, SentTasks
  <2>3. Cardinality({i}) = 1
    BY FS_Singleton
  <2>4. Cardinality(SentTasks(c)) <= 1
    BY <2>2, <2>3
  <2> QED
    BY <1>1, <2>1, <2>4 DEF SentOf, SentTasks
<1> QED
  BY <1>2, <1>3

\* The Sent copy: at most one, only with relayed mail, in the sender's mailbox,
\* and there until X-Fannst-Flags asks for none (SMTPServer.src.cc 446-453,
\* data.src.cc 288-290).
THEOREM SentCopyIsKept == Spec => []SentCopy
<1>1. Init => SentInv
  BY DEF Init, SentInv, SentOf, OneSent
<1> QED
  BY <1>1, SentFollows, SentStep, Inductive, PTL DEF Spec

-----------------------------------------------------------------------------
(* The recipients *)

\* The tasks of recipients, and whose they are.
Kept(tasks) == {i \in DOMAIN tasks : tasks[i].target # "Sent"}
RecipientsOf(tasks) ==
    [k \in 1 .. Cardinality(Kept(tasks)) |-> tasks[Nth(Kept(tasks), k)].account]

LEMMA RecipientsAre ==
    ASSUME NEW c \in Conns
    PROVE  /\ Recipients(c) = RecipientsOf(storageTasks[c])
           /\ Recipients(c)' = RecipientsOf(storageTasks'[c])
<1>1. /\ DOMAIN storageTasks[c] \ SentTasks(c) = Kept(storageTasks[c])
      /\ DOMAIN storageTasks'[c] \ SentTasks(c)' = Kept(storageTasks'[c])
  BY DEF SentTasks, Kept
<1> QED
  BY <1>1 DEF Recipients, RecipientsOf, Picked

LEMMA KeptPlaces ==
    ASSUME NEW tasks \in Seq(StorageTask)
    PROVE  /\ Len(tasks) \in Nat /\ DOMAIN tasks = 1 .. Len(tasks)
           /\ Kept(tasks) \in SUBSET (1 .. Len(tasks))
           /\ Cardinality(Kept(tasks)) \in Nat
           /\ \A i \in Kept(tasks) : i \in Nat /\ 1 <= i /\ i <= Len(tasks)
                                     /\ tasks[i].account \in Accounts
<1>1. /\ Len(tasks) \in Nat /\ DOMAIN tasks = 1 .. Len(tasks)
      /\ \A i \in DOMAIN tasks : tasks[i] \in StorageTask
  BY LenProperties
<1>2. Kept(tasks) \in SUBSET (1 .. Len(tasks))
  BY <1>1 DEF Kept
<1>3. \A i \in Kept(tasks) : tasks[i].account \in Accounts
  BY <1>1 DEF Kept, StorageTask
<1> QED
  BY <1>1, <1>2, <1>3, PlacesFinite

\* A sequence is a prefix of one that is as long and agrees with it.
LEMMA PrefixOf ==
    ASSUME NEW A, NEW s \in Seq(A), NEW t \in Seq(A),
           Len(s) <= Len(t), \A i \in 1 .. Len(s) : s[i] = t[i]
    PROVE  IsPrefix(s, t)
<1> DEFINE n == Len(s)
<1>1. n \in Nat /\ Len(t) \in Nat /\ n \in Int /\ 1 \in Int
  BY LenProperties
<1>2. \A i \in 1 .. n : s[i] \in A /\ t[i] \in A /\ s[i] = t[i]
  <2>1. \A i \in 1 .. n : i \in 1 .. Len(t)
    BY <1>1
  <2> QED
    BY <2>1, LenProperties
<1>3. /\ SubSeq(s, 1, n) \in Seq(A)
      /\ Len(SubSeq(s, 1, n)) = IF 1 <= n THEN n - 1 + 1 ELSE 0
      /\ \A i \in 1 .. n - 1 + 1 : SubSeq(s, 1, n)[i] = s[1 + i - 1]
  BY <1>1, <1>2, SubSeqProperties
<1>4. /\ SubSeq(t, 1, n) \in Seq(A)
      /\ Len(SubSeq(t, 1, n)) = IF 1 <= n THEN n - 1 + 1 ELSE 0
      /\ \A i \in 1 .. n - 1 + 1 : SubSeq(t, 1, n)[i] = t[1 + i - 1]
  BY <1>1, <1>2, SubSeqProperties
<1>5. /\ (IF 1 <= n THEN n - 1 + 1 ELSE 0) = n /\ n - 1 + 1 = n
      /\ \A i \in 1 .. n : 1 + i - 1 = i
  BY <1>1
<1> HIDE DEF n
<1>6. SubSeq(s, 1, n) = SubSeq(t, 1, n)
  <2>1. \A i \in 1 .. n : SubSeq(s, 1, n)[i] = SubSeq(t, 1, n)[i]
    BY <1>2, <1>3, <1>4, <1>5
  <2>2. Len(SubSeq(s, 1, n)) = n /\ Len(SubSeq(t, 1, n)) = n
    BY <1>3, <1>4, <1>5
  <2> QED
    BY <1>3, <1>4, <2>1, <2>2, SeqEqual
<1> QED
  BY <1>6 DEF IsPrefix, n

LEMMA PrefixSame ==
    ASSUME NEW A, NEW s \in Seq(A)
    PROVE  IsPrefix(s, s)
BY LenProperties, PrefixOf

LEMMA PrefixAppend ==
    ASSUME NEW A, NEW s \in Seq(A), NEW e \in A
    PROVE  IsPrefix(s, Append(s, e))
<1>1. /\ Len(s) \in Nat
      /\ Append(s, e) \in Seq(A) /\ Len(Append(s, e)) = Len(s) + 1
      /\ \A i \in 1 .. Len(s) : s[i] = Append(s, e)[i]
  BY LenProperties, AppendProperties
<1>2. Len(s) <= Len(Append(s, e))
  BY <1>1
<1> QED
  BY <1>1, <1>2, PrefixOf

\* The recipients stay, in their order, when their tasks do and none comes before
\* one of them.
LEMMA RecipientsGrow ==
    ASSUME NEW s \in Seq(StorageTask), NEW t \in Seq(StorageTask),
           NEW f \in [Kept(s) -> Kept(t)],
           \A i, j \in Kept(s) : i < j => f[i] < f[j],
           \A i \in Kept(s), j \in Kept(t) : j <= f[i] => \E k \in Kept(s) : f[k] = j,
           \A i \in Kept(s) : t[f[i]].account = s[i].account
    PROVE  IsPrefix(RecipientsOf(s), RecipientsOf(t))
<1>1. /\ Len(s) \in Nat /\ Kept(s) \in SUBSET (1 .. Len(s)) /\ Cardinality(Kept(s)) \in Nat
      /\ Len(t) \in Nat /\ Kept(t) \in SUBSET (1 .. Len(t)) /\ Cardinality(Kept(t)) \in Nat
  BY KeptPlaces
<1>2. /\ Cardinality(Kept(s)) <= Cardinality(Kept(t))
      /\ \A k \in 1 .. Cardinality(Kept(s)) :
            Nth(Kept(s), k) \in Kept(s) /\ Nth(Kept(t), k) = f[Nth(Kept(s), k)]
  BY <1>1, NthMoves, ZenonT(60)
<1>3. ASSUME NEW tasks \in Seq(StorageTask)
      PROVE  /\ RecipientsOf(tasks) \in Seq(Accounts)
             /\ Len(RecipientsOf(tasks)) = Cardinality(Kept(tasks))
  <2> DEFINE n == Cardinality(Kept(tasks))
  <2>1. /\ n \in Nat /\ Len(tasks) \in Nat /\ Kept(tasks) \in SUBSET (1 .. Len(tasks))
        /\ \A i \in Kept(tasks) : tasks[i].account \in Accounts
    BY KeptPlaces
  <2>2. \A k \in 1 .. n : Nth(Kept(tasks), k) \in Kept(tasks)
    BY <2>1, NthMember
  <2>3. RecipientsOf(tasks) \in [1 .. n -> Accounts]
    BY <2>1, <2>2 DEF RecipientsOf
  <2> HIDE DEF n
  <2>4. RecipientsOf(tasks) \in Seq(Accounts) /\ Len(RecipientsOf(tasks)) = n
    BY <2>1, <2>3, FunctionIsSeq
  <2> QED
    BY <2>4 DEF n
<1>4. \A k \in 1 .. Cardinality(Kept(s)) : RecipientsOf(s)[k] = RecipientsOf(t)[k]
  <2> SUFFICES ASSUME NEW k \in 1 .. Cardinality(Kept(s))
               PROVE  RecipientsOf(s)[k] = RecipientsOf(t)[k]
    OBVIOUS
  <2>1. k \in 1 .. Cardinality(Kept(t))
    BY <1>1, <1>2
  <2>2. /\ RecipientsOf(s)[k] = s[Nth(Kept(s), k)].account
        /\ RecipientsOf(t)[k] = t[Nth(Kept(t), k)].account
    BY <2>1 DEF RecipientsOf
  <2>3. Nth(Kept(s), k) \in Kept(s) /\ Nth(Kept(t), k) = f[Nth(Kept(s), k)]
    BY <1>2
  <2> QED
    BY <2>2, <2>3
<1> QED
  BY <1>2, <1>3, <1>4, PrefixOf

\* Tasks that are added come last.
LEMMA RecipientsExtend ==
    ASSUME NEW s \in Seq(StorageTask), NEW t \in Seq(StorageTask),
           DOMAIN s \subseteq DOMAIN t, \A i \in DOMAIN s : t[i] = s[i],
           \A i \in DOMAIN t \ DOMAIN s : \A j \in DOMAIN s : ~ (i <= j)
    PROVE  IsPrefix(RecipientsOf(s), RecipientsOf(t))
<1> DEFINE f == [i \in Kept(s) |-> i]
<1>1. f \in [Kept(s) -> Kept(t)] /\ \A i \in Kept(s) : f[i] = i
  BY DEF Kept
<1> HIDE DEF f
<1>2. \A i, j \in Kept(s) : i < j => f[i] < f[j]
  BY <1>1
<1>3. \A i \in Kept(s), j \in Kept(t) : j <= f[i] => \E k \in Kept(s) : f[k] = j
  <2>1. \A i \in Kept(s), j \in Kept(t) : j <= i => j \in Kept(s)
    BY Zenon DEF Kept
  <2> QED
    BY <1>1, <2>1, Zenon
<1>4. \A i \in Kept(s) : t[f[i]].account = s[i].account
  BY <1>1 DEF Kept
<1> QED
  BY <1>1, <1>2, <1>3, <1>4, RecipientsGrow

LEMMA RecipientsStay ==
    ASSUME NEW tasks \in Seq(StorageTask)
    PROVE  IsPrefix(RecipientsOf(tasks), RecipientsOf(tasks))
BY RecipientsExtend

LEMMA RecipientsAppend ==
    ASSUME NEW tasks \in Seq(StorageTask), NEW task \in StorageTask
    PROVE  IsPrefix(RecipientsOf(tasks), RecipientsOf(Append(tasks, task)))
<1> DEFINE n == Len(tasks)
           longer == Append(tasks, task)
<1>1. n \in Nat /\ DOMAIN tasks = 1 .. n
  BY LenProperties
<1>2. /\ longer \in Seq(StorageTask) /\ Len(longer) = n + 1
      /\ \A i \in 1 .. n : longer[i] = tasks[i]
  BY AppendProperties
<1>3. DOMAIN longer = 1 .. n + 1
  BY <1>2, LenProperties
<1> HIDE DEF n, longer
<1>4. /\ 1 .. n \subseteq 1 .. n + 1
      /\ \A i \in (1 .. n + 1) \ (1 .. n) : \A j \in 1 .. n : ~ (i <= j)
  BY <1>1
<1>5. IsPrefix(RecipientsOf(tasks), RecipientsOf(longer))
  BY <1>1, <1>2, <1>3, <1>4, RecipientsExtend
<1> QED
  BY <1>5 DEF longer

\* Moving to Spam changes no recipient.
LEMMA RecipientsToSpam ==
    ASSUME NEW tasks \in Seq(StorageTask)
    PROVE  RecipientsOf(TasksToSpam(tasks)) = RecipientsOf(tasks)
<1>1. Kept(TasksToSpam(tasks)) = Kept(tasks)
  BY TasksToSpamSent DEF Kept
<1>2. \A i \in Kept(tasks) : TasksToSpam(tasks)[i].account = tasks[i].account
  BY TasksToSpamSent DEF Kept
<1>3. \A k \in 1 .. Cardinality(Kept(tasks)) : Nth(Kept(tasks), k) \in Kept(tasks)
  BY KeptPlaces, NthMember
<1> QED
  BY <1>1, <1>2, <1>3, Zenon DEF RecipientsOf

\* The Sent copy is no recipient; those after it move up.
LEMMA RecipientsWithoutSent ==
    ASSUME NEW tasks \in Seq(StorageTask)
    PROVE  IsPrefix(RecipientsOf(tasks), RecipientsOf(RemoveSent(tasks)))
<1> DEFINE shorter == RemoveSent(tasks)
           n == Len(tasks)
<1>1. /\ n \in Nat /\ DOMAIN tasks = 1 .. n
      /\ \A i \in Kept(tasks) : i \in Nat /\ 1 <= i /\ i <= n
  BY KeptPlaces
<1>2. CASE shorter = tasks
  <2>1. IsPrefix(RecipientsOf(tasks), RecipientsOf(tasks))
    BY RecipientsStay
  <2> QED
    BY <1>2, <2>1
<1> HIDE DEF shorter, n
<1>3. ASSUME NEW first \in 1 .. n, tasks[first].target = "Sent",
             shorter \in Seq(StorageTask), DOMAIN shorter = 1 .. n - 1,
             \A i \in 1 .. n - 1 :
                 shorter[i] = IF i <= first - 1 THEN tasks[i] ELSE tasks[i + 1]
      PROVE  IsPrefix(RecipientsOf(tasks), RecipientsOf(shorter))
  <2> DEFINE place(i) == IF i < first THEN i ELSE i - 1
             f == [i \in Kept(tasks) |-> place(i)]
  <2>1. \A i \in Kept(tasks) : i # first
    BY <1>3 DEF Kept
  <2>2. ASSUME NEW i \in Kept(tasks)
        PROVE  place(i) \in 1 .. n - 1 /\ shorter[place(i)] = tasks[i]
    <3>1. i \in Nat /\ 1 <= i /\ i <= n /\ i # first
      BY <1>1, <2>1
    <3>2. CASE i < first
      <4>1. place(i) = i /\ i \in 1 .. n - 1 /\ i <= first - 1
        BY <1>1, <1>3, <3>1, <3>2
      <4> QED
        BY <1>3, <4>1
    <3>3. CASE ~ (i < first)
      <4>1. place(i) = i - 1 /\ i - 1 \in 1 .. n - 1 /\ ~ (i - 1 <= first - 1) /\ i - 1 + 1 = i
        BY <1>1, <1>3, <3>1, <3>3
      <4>2. shorter[i - 1] = tasks[i - 1 + 1]
        BY <1>3, <4>1
      <4> QED
        BY <4>1, <4>2
    <3> QED
      BY <3>2, <3>3
  <2>3. ASSUME NEW i \in Kept(tasks), NEW j \in Kept(tasks), i < j
        PROVE  place(i) < place(j)
    BY <1>1, <1>3, <2>1, <2>3
  <2>4. ASSUME NEW j \in Kept(shorter)
        PROVE  \E k \in Kept(tasks) : place(k) = j
    <3>1. j \in 1 .. n - 1 /\ shorter[j].target # "Sent"
      BY <1>3 DEF Kept
    <3>2. CASE j <= first - 1
      <4>1. place(j) = j /\ j \in 1 .. n
        BY <1>1, <1>3, <3>1, <3>2
      <4>2. j \in Kept(tasks)
        BY <1>1, <1>3, <3>1, <3>2, <4>1 DEF Kept
      <4> QED
        BY <4>1, <4>2
    <3>3. CASE ~ (j <= first - 1)
      <4>1. place(j + 1) = j /\ j + 1 \in 1 .. n
        BY <1>1, <1>3, <3>1, <3>3
      <4>2. j + 1 \in Kept(tasks)
        BY <1>1, <1>3, <3>1, <3>3, <4>1 DEF Kept
      <4> QED
        BY <4>1, <4>2
    <3> QED
      BY <3>2, <3>3
  <2>5. \A i \in Kept(tasks) : f[i] = place(i)
    OBVIOUS
  <2>6. f \in [Kept(tasks) -> Kept(shorter)]
    <3> HIDE DEF place
    <3>1. \A i \in Kept(tasks) : place(i) \in Kept(shorter)
      BY <1>3, <2>2 DEF Kept
    <3> QED
      BY <3>1
  <2> HIDE DEF place, f
  <2>7. \A i, j \in Kept(tasks) : i < j => f[i] < f[j]
    BY <2>3, <2>5
  <2>8. \A i \in Kept(tasks), j \in Kept(shorter) : j <= f[i] => \E k \in Kept(tasks) : f[k] = j
    BY <2>4, <2>5
  <2>9. \A i \in Kept(tasks) : shorter[f[i]].account = tasks[i].account
    BY <2>2, <2>5
  <2> QED
    BY <1>3, <2>6, <2>7, <2>8, <2>9, RecipientsGrow
<1> QED
  <2>1. \/ shorter = tasks
        \/ \E first \in 1 .. n :
              /\ tasks[first].target = "Sent"
              /\ shorter \in Seq(StorageTask) /\ DOMAIN shorter = 1 .. n - 1
              /\ \A i \in 1 .. n - 1 :
                    shorter[i] = IF i <= first - 1 THEN tasks[i] ELSE tasks[i + 1]
    BY RemoveSentIs DEF shorter, n
  <2> QED
    BY <1>2, <1>3, <2>1 DEF shorter

\* What a step does to the tasks of a session: it leaves them, adds one at the
\* end, or, when the message is filed, moves them and drops the copy.
TasksKept(d) ==
    /\ \/ storageTasks'[d] = storageTasks[d]
       \/ \E task \in StorageTask : storageTasks'[d] = Append(storageTasks[d], task)
       \/ \E moved \in {storageTasks[d], TasksToSpam(storageTasks[d])} :
             storageTasks'[d] \in {moved, RemoveSent(moved)}
    /\ \/ relayTasks'[d] = relayTasks[d]
       \/ \E to \in Remotes : relayTasks'[d] = Append(relayTasks[d], to)

LEMMA TasksStep ==
    ASSUME TypeOK, SenderInv, [Next]_smtpVars, NEW d \in Conns
    PROVE  TasksKept(d)
<1> USE DEF session, queues
<1>1. CASE UNCHANGED <<storageTasks, relayTasks>>
  BY <1>1 DEF TasksKept
<1>2. ASSUME NEW c \in Conns,
             \/ Accept(c) \/ CommandLimit(c) \/ ConnectionLost(c) \/ EndOfFile(c)
             \/ Answer(c) \/ Quit(c) \/ AuthFail(c) \/ Helo(c) \/ StartTLS(c) \/ SuperUser(c)
             \/ Data(c) \/ TooLarge(c) \/ TrustSender(c)
             \/ Acknowledge(c) \/ PushStorage(c) \/ PushRelay(c)
             \/ \E from \in Addresses : \/ MailFromForeign(c, from)
                                        \/ MailFromLocal(c, from)
                                        \/ MailFromNotAllowed(c, from)
             \/ \E user \in Accounts : AuthSuccess(c, user) \/ AuthDatabaseFailure(c, user)
             \/ \E spf \in BOOLEAN, policy \in Policies : CheckSender(c, spf, policy)
      PROVE  UNCHANGED <<storageTasks, relayTasks>>
  BY <1>2 DEF Accept, CommandLimit, ConnectionLost, EndOfFile, Answer, Quit, AuthFail, Helo,
              StartTLS, SuperUser, Data, TooLarge, TrustSender, Acknowledge, PushStorage,
              PushRelay, MailFromForeign, MailFromLocal, MailFromNotAllowed, MailAccepted,
              AuthSuccess, AuthDatabaseFailure, CheckSender, Close, CloseAfter
<1>3. ASSUME NEW c \in Conns, NEW to \in Addresses, RcptToLocal(c, to)
      PROVE  TasksKept(d)
  <2>1. Sends(to, "Incomming") \in StorageTask
    BY <1>3 DEF RcptToLocal, Sends, StorageTask, Targets
  <2>2. /\ relayTasks' = relayTasks
        /\ storageTasks'[d] = IF d = c THEN Append(storageTasks[c], Sends(to, "Incomming"))
                                       ELSE storageTasks[d]
    BY <1>3 DEF RcptToLocal, TypeOK
  <2> QED
    BY <2>1, <2>2 DEF TasksKept
<1>4. ASSUME NEW c \in Conns, NEW to \in Addresses, RcptToRelay(c, to)
      PROVE  TasksKept(d)
  <2>1. Sends(sendingAccount[c], "Sent") \in StorageTask /\ to \in Remotes
    BY <1>4 DEF RcptToRelay, SenderInv, SenderKnown, TypeOK, Sends, StorageTask, Targets
  <2>2. /\ relayTasks'[d] = IF d = c THEN Append(relayTasks[c], to) ELSE relayTasks[d]
        /\ \/ storageTasks' = storageTasks
           \/ storageTasks'[d] =
                 IF d = c THEN Append(storageTasks[c], Sends(sendingAccount[c], "Sent"))
                          ELSE storageTasks[d]
    BY <1>4 DEF RcptToRelay, TypeOK
  <2> QED
    BY <2>1, <2>2 DEF TasksKept
<1>5. ASSUME NEW c \in Conns, NEW headers \in FlagHeaders, File(c, headers)
      PROVE  TasksKept(d)
  <2>1. /\ relayTasks' = relayTasks
        /\ d # c => storageTasks'[d] = storageTasks[d]
    BY <1>5 DEF File, TypeOK
  <2>2. \E moved \in {storageTasks[c], TasksToSpam(storageTasks[c])} :
            storageTasks'[c] \in {moved, RemoveSent(moved)}
    <3> DEFINE moved == IF possibleSpam[c] THEN TasksToSpam(storageTasks[c]) ELSE storageTasks[c]
    <3>1. storageTasks'[c] = IF ParsedFlags(xfannst[c], headers).nostore THEN RemoveSent(moved)
                                                                          ELSE moved
      BY <1>5 DEF File, TypeOK
    <3>2. moved \in {storageTasks[c], TasksToSpam(storageTasks[c])}
      OBVIOUS
    <3> HIDE DEF moved
    <3> QED
      BY <3>1, <3>2
  <2> QED
    BY <2>1, <2>2 DEF TasksKept
<1>6. UNCHANGED smtpVars \/ Idle => UNCHANGED <<storageTasks, relayTasks>>
  BY DEF Idle, smtpVars
<1> QED
  BY <1>1, <1>2, <1>3, <1>4, <1>5, <1>6 DEF Next, Serve

\* A step only adds to the recipients of a session.
LEMMA RecipientsStep ==
    ASSUME TypeOK, SenderInv, [Next]_smtpVars, NEW c \in Conns
    PROVE  /\ IsPrefix(Recipients(c), Recipients(c)')
           /\ IsPrefix(relayTasks[c], relayTasks'[c])
<1>1. /\ storageTasks[c] \in Seq(StorageTask) /\ relayTasks[c] \in Seq(Remotes)
      /\ TasksKept(c)
  BY TasksStep DEF TypeOK
<1>2. IsPrefix(relayTasks[c], relayTasks'[c])
  BY <1>1, PrefixSame, PrefixAppend DEF TasksKept
<1>3. ASSUME NEW moved \in {storageTasks[c], TasksToSpam(storageTasks[c])}
      PROVE  /\ IsPrefix(RecipientsOf(storageTasks[c]), RecipientsOf(moved))
             /\ IsPrefix(RecipientsOf(storageTasks[c]), RecipientsOf(RemoveSent(moved)))
  <2>1. moved \in Seq(StorageTask) /\ RecipientsOf(moved) = RecipientsOf(storageTasks[c])
    BY <1>1, TasksToSpamType, RecipientsToSpam
  <2>2. IsPrefix(RecipientsOf(moved), RecipientsOf(moved))
    BY <2>1, RecipientsStay
  <2>3. IsPrefix(RecipientsOf(moved), RecipientsOf(RemoveSent(moved)))
    BY <2>1, RecipientsWithoutSent
  <2> QED
    BY <2>1, <2>2, <2>3
<1>4. IsPrefix(RecipientsOf(storageTasks[c]), RecipientsOf(storageTasks'[c]))
  BY <1>1, <1>3, RecipientsStay, RecipientsAppend DEF TasksKept
<1> QED
  BY <1>2, <1>4, RecipientsAre

\* A recipient that was answered 250 is neither lost nor reordered
\* (SMTPServerSession.src.cc 30-47).
THEOREM RecipientsAreKept == Spec => RecipientsKept
<1> DEFINE Keeps == \A c \in Conns : /\ IsPrefix(Recipients(c), Recipients(c)')
                                     /\ IsPrefix(relayTasks[c], relayTasks'[c])
<1>1. TypeOK /\ SenderInv /\ [Next]_smtpVars => [Keeps]_smtpVars
  BY RecipientsStep
<1> QED
  BY <1>1, Inductive, PTL DEF Spec, RecipientsKept

-----------------------------------------------------------------------------
(* The queues *)

Unread == {"body", "file", "reply", "store"}

\* A session may be on the storage queue, or on the transmission queue.
MayStore(c) == "DATA_START" \in actions[c] /\ phase[c] \notin Unread
MayRelay(c) == MayStore(c) /\ phase[c] # "relay"

In(c, q) == \E i \in 1 .. Len(q) : q[i] = c
Distinct(q) == \A i, j \in 1 .. Len(q) : q[i] = q[j] => i = j
Grows(s, t) == Len(s) <= Len(t) /\ \A i \in 1 .. Len(s) : t[i] = s[i]

\* A sequence grows when it stays or something is appended.
LEMMA AppendGrows ==
    ASSUME NEW S, NEW s \in Seq(S), NEW e \in S
    PROVE  Grows(s, s) /\ Grows(s, Append(s, e))
<1>1. Len(s) \in Nat
  BY LenProperties
<1> QED
  BY <1>1, AppendProperties DEF Grows

\* A session that is pushed on a queue where it is not is there once.
LEMMA PushNew ==
    ASSUME NEW S, NEW q \in Seq(S), NEW c \in S, Distinct(q), ~In(c, q)
    PROVE  /\ Append(q, c) \in Seq(S)
           /\ Distinct(Append(q, c))
           /\ \A d : In(d, Append(q, c)) => In(d, q) \/ d = c
<1>1. /\ Len(q) \in Nat
      /\ Append(q, c) \in Seq(S)
      /\ Len(Append(q, c)) = Len(q) + 1
      /\ \A i \in 1 .. Len(q) : Append(q, c)[i] = q[i]
      /\ Append(q, c)[Len(q) + 1] = c
  BY AppendProperties, LenProperties
<1>2. \A i \in 1 .. Len(q) + 1 : i \in 1 .. Len(q) \/ i = Len(q) + 1
  BY <1>1
<1>3. Distinct(Append(q, c))
  BY <1>1, <1>2 DEF Distinct, In
<1> QED
  BY <1>1, <1>2, <1>3 DEF In

\* The last session of a queue is there no more when it was taken.
LEMMA PopLast ==
    ASSUME NEW S, NEW q \in Seq(S), q # <<>>, Distinct(q)
    PROVE  /\ Front(q) \in Seq(S) /\ Last(q) \in S
           /\ Distinct(Front(q))
           /\ In(Last(q), q)
           /\ \A d : In(d, Front(q)) => In(d, q) /\ d # Last(q)
<1>1. Len(q) \in Nat \ {0} /\ \A i \in 1 .. Len(q) : q[i] \in S
  BY EmptySeq, LenProperties
<1>2. /\ Front(q) \in Seq(S)
      /\ Len(Front(q)) = Len(q) - 1
      /\ \A i \in 1 .. Len(q) - 1 : Front(q)[i] = q[i]
  <2> DEFINE n == Len(q) - 1
  <2>1. n \in Int /\ 1 \in Int /\ \A i \in 1 .. n : q[i] \in S
    BY <1>1
  <2>2. /\ SubSeq(q, 1, n) \in Seq(S)
        /\ Len(SubSeq(q, 1, n)) = IF 1 <= n THEN n - 1 + 1 ELSE 0
        /\ \A i \in 1 .. n - 1 + 1 : SubSeq(q, 1, n)[i] = q[1 + i - 1]
    BY <2>1, SubSeqProperties
  <2>3. Front(q) = SubSeq(q, 1, n)
    BY DEF Front
  <2>4. n \in Nat
    BY <1>1
  <2> HIDE DEF n
  <2>5. Len(SubSeq(q, 1, n)) = n
    BY <2>2, <2>4
  <2>6. \A i \in 1 .. n : SubSeq(q, 1, n)[i] = q[i]
    <3>1. n - 1 + 1 = n /\ \A i \in 1 .. n : 1 + i - 1 = i
      BY <2>4
    <3> QED
      BY <2>2, <3>1
  <2> QED
    BY <2>2, <2>3, <2>5, <2>6 DEF n
<1>3. \A i \in 1 .. Len(q) - 1 : i \in 1 .. Len(q) /\ i # Len(q)
  BY <1>1
<1>4. Last(q) = q[Len(q)] /\ Len(q) \in 1 .. Len(q)
  BY <1>1 DEF Last
<1> QED
  BY <1>1, <1>2, <1>3, <1>4 DEF In, Distinct

BodyStarted == \A c \in Conns : phase[c] \in BodyPhases => "DATA_START" \in actions[c]

\* What a step of a connection does to the variables the workers look at.
Effect(c) ==
    /\ \A d \in Conns \ {c} : /\ phase'[d] = phase[d] /\ actions'[d] = actions[d]
                              /\ storageTasks'[d] = storageTasks[d]
                              /\ relayTasks'[d] = relayTasks[d]
                              /\ xfannst'[d] = xfannst[d]
    /\ "DATA_START" \in actions[c] => "DATA_START" \in actions'[c]
    /\ phase'[c] \in BodyPhases => "DATA_START" \in actions'[c]
    /\ "DATA_START" \in actions[c] =>
          /\ phase'[c] \in Unread => phase[c] \in Unread
          /\ phase'[c] = "relay" => phase[c] \in Unread \cup {"relay"}
    /\ phase[c] = "file" \/ Grows(storageTasks[c], storageTasks'[c])
    /\ Grows(relayTasks[c], relayTasks'[c])
    /\ phase[c] # "file" => xfannst'[c] = xfannst[c]
    /\ \/ databaseQueue' = databaseQueue
       \/ /\ phase[c] = "store" /\ phase'[c] = "relay"
          /\ databaseQueue' = Append(databaseQueue, c)
    /\ \/ transmissionQueue' = transmissionQueue
       \/ /\ phase[c] = "relay" /\ phase'[c] = "command"
          /\ relayTasks[c] # <<>>
          /\ transmissionQueue' = Append(transmissionQueue, c)

LEMMA StepEffect ==
    ASSUME TypeOK, BodyStarted, NEW c \in Conns, Accept(c) \/ Serve(c)
    PROVE  Effect(c)
<1>1. /\ storageTasks[c] \in Seq(StorageTask) /\ relayTasks[c] \in Seq(Remotes)
      /\ Grows(storageTasks[c], storageTasks[c]) /\ Grows(relayTasks[c], relayTasks[c])
  <2>1. storageTasks[c] \in Seq(StorageTask) /\ relayTasks[c] \in Seq(Remotes)
    BY DEF TypeOK
  <2> QED
    BY <2>1, LenProperties DEF Grows
<1> USE DEF TypeOK, BodyStarted, Effect, Unread, BodyPhases, session, queues, Goto, SetFlag,
            SetAction, Close, Command, CloseAfter
<1>2. CASE Accept(c)
  BY <1>1, <1>2 DEF Accept
<1>3. CASE CommandLimit(c) \/ ConnectionLost(c) \/ EndOfFile(c) \/ TooLarge(c) \/ TrustSender(c)
  BY <1>1, <1>3 DEF CommandLimit, ConnectionLost, EndOfFile, TooLarge, TrustSender
<1>4. CASE Answer(c) \/ Quit(c) \/ AuthFail(c)
  BY <1>1, <1>4 DEF Answer, Quit, AuthFail
<1>5. CASE Helo(c) \/ StartTLS(c) \/ SuperUser(c)
  BY <1>1, <1>5 DEF Helo, StartTLS, SuperUser
<1>6. CASE Data(c)
  BY <1>1, <1>6 DEF Data
<1>7. CASE \E from \in Addresses : \/ MailFromForeign(c, from) \/ MailFromLocal(c, from)
                                  \/ MailFromNotAllowed(c, from)
  BY <1>1, <1>7 DEF MailFromForeign, MailFromLocal, MailFromNotAllowed, MailAccepted
<1>8. CASE \E to \in Addresses : RcptToLocal(c, to)
  <2>1. PICK to \in Addresses : RcptToLocal(c, to)
    BY <1>8
  <2>2. Sends(to, "Incomming") \in StorageTask
    BY <2>1 DEF RcptToLocal, Sends, StorageTask, Targets
  <2>3. Grows(storageTasks[c], storageTasks'[c])
    BY <1>1, <2>1, <2>2, AppendGrows DEF RcptToLocal
  <2> QED
    BY <1>1, <2>1, <2>3 DEF RcptToLocal
<1>9. CASE \E to \in Addresses : RcptToRelay(c, to)
  <2>1. PICK to \in Addresses : RcptToRelay(c, to)
    BY <1>9
  <2>2. Grows(relayTasks[c], relayTasks'[c])
    BY <1>1, <2>1, AppendGrows DEF RcptToRelay
  <2>3. Grows(storageTasks[c], storageTasks'[c])
    <3>1. ASSUME NEW e
          PROVE  Grows(storageTasks[c], Append(storageTasks[c], e))
      <4>1. storageTasks[c] \in Seq(StorageTask \cup {e})
        BY <1>1, SeqMonotonic
      <4> QED
        BY <4>1, AppendGrows
    <3> QED
      BY <1>1, <2>1, <3>1 DEF RcptToRelay
  <2> QED
    BY <2>1, <2>2, <2>3 DEF RcptToRelay
<1>10. CASE \E user \in Accounts : AuthSuccess(c, user) \/ AuthDatabaseFailure(c, user)
  BY <1>1, <1>10 DEF AuthSuccess, AuthDatabaseFailure
<1>11. CASE \E spf \in BOOLEAN, policy \in Policies : CheckSender(c, spf, policy)
  BY <1>1, <1>11 DEF CheckSender
<1>12. CASE \E headers \in FlagHeaders : File(c, headers)
  BY <1>1, <1>12 DEF File
<1>13. CASE Acknowledge(c) \/ PushStorage(c) \/ PushRelay(c)
  BY <1>1, <1>13 DEF Acknowledge, PushStorage, PushRelay
<1> QED
  BY <1>2, <1>3, <1>4, <1>5, <1>6, <1>7, <1>8, <1>9, <1>10, <1>11, <1>12, <1>13 DEF Serve
\* Nothing is queued twice, nor before its body was read and answered.
QueueInv ==
    /\ BodyStarted
    /\ Distinct(databaseQueue) /\ Distinct(transmissionQueue)
    /\ \A c \in Conns :
          /\ In(c, databaseQueue) => MayStore(c)
          /\ In(c, transmissionQueue) => MayRelay(c) /\ relayTasks[c] # <<>>

LEMMA QueuesKept ==
    ASSUME TypeOK, QueueInv, NEW c \in Conns, Accept(c) \/ Serve(c)
    PROVE  QueueInv'
<1>1. Effect(c)
  BY StepEffect DEF QueueInv
<1>2. BodyStarted'
  BY <1>1 DEF QueueInv, BodyStarted, Effect
<1>3. \A d \in Conns : /\ MayStore(d) => MayStore(d)'
                       /\ MayRelay(d) => MayRelay(d)'
                       /\ relayTasks[d] # <<>> => relayTasks'[d] # <<>>
  <2>1. MayStore(c) => MayStore(c)'
    BY <1>1 DEF Effect, MayStore, Unread
  <2>2. MayRelay(c) => MayRelay(c)'
    BY <1>1, <2>1 DEF Effect, MayRelay, MayStore, Unread
  <2>3. \A d \in Conns \ {c} : /\ MayStore(d) => MayStore(d)'
                               /\ MayRelay(d) => MayRelay(d)'
                               /\ relayTasks[d] # <<>> => relayTasks'[d] # <<>>
    BY <1>1 DEF Effect, MayRelay, MayStore
  <2>4. relayTasks[c] # <<>> => relayTasks'[c] # <<>>
    <3>1. relayTasks[c] \in Seq(Remotes) /\ Grows(relayTasks[c], relayTasks'[c])
      BY <1>1 DEF TypeOK, Effect
    <3>2. relayTasks[c] # <<>> => Len(relayTasks[c]) \in Nat \ {0}
      BY <3>1, EmptySeq
    <3> QED
      BY <3>1, <3>2 DEF Grows
  <2> QED
    BY <2>1, <2>2, <2>3, <2>4
<1>4. /\ Distinct(databaseQueue)'
      /\ \A d \in Conns : In(d, databaseQueue)' => MayStore(d)'
  <2>1. CASE databaseQueue' = databaseQueue
    <3>1. Distinct(databaseQueue)'
      BY <2>1 DEF QueueInv, Distinct
    <3>2. ASSUME NEW d \in Conns, In(d, databaseQueue)'
          PROVE  MayStore(d)'
      <4>1. MayStore(d)
        BY <2>1, <3>2 DEF QueueInv, In
      <4> QED
        BY <1>3, <4>1
    <3> QED
      BY <3>1, <3>2
  <2>2. CASE /\ phase[c] = "store" /\ phase'[c] = "relay"
             /\ databaseQueue' = Append(databaseQueue, c)
    <3>1. ~In(c, databaseQueue)
      BY <2>2 DEF QueueInv, MayStore, Unread
    <3>2. /\ Distinct(databaseQueue')
          /\ \A d : In(d, databaseQueue') => In(d, databaseQueue) \/ d = c
      BY <2>2, <3>1, PushNew DEF QueueInv, TypeOK
    <3>3. MayStore(c)'
      BY <1>1, <2>2 DEF Effect, MayStore, Unread, BodyPhases
    <3> QED
      <4>1. ASSUME NEW d \in Conns, In(d, databaseQueue)'
            PROVE  MayStore(d)'
        <5>1. In(d, databaseQueue) \/ d = c
          BY <3>2, <4>1 DEF In
        <5>2. In(d, databaseQueue) => MayStore(d)
          BY DEF QueueInv
        <5> QED
          BY <1>3, <3>3, <5>1, <5>2
      <4> QED
        BY <3>2, <4>1 DEF Distinct
  <2> QED
    BY <1>1, <2>1, <2>2 DEF Effect
<1>5. /\ Distinct(transmissionQueue)'
      /\ \A d \in Conns :
            In(d, transmissionQueue)' => MayRelay(d)' /\ relayTasks'[d] # <<>>
  <2>1. CASE transmissionQueue' = transmissionQueue
    <3>1. Distinct(transmissionQueue)'
      BY <2>1 DEF QueueInv, Distinct
    <3>2. ASSUME NEW d \in Conns, In(d, transmissionQueue)'
          PROVE  MayRelay(d)' /\ relayTasks'[d] # <<>>
      <4>1. MayRelay(d) /\ relayTasks[d] # <<>>
        BY <2>1, <3>2 DEF QueueInv, In
      <4> QED
        BY <1>3, <4>1
    <3> QED
      BY <3>1, <3>2
  <2>2. CASE /\ phase[c] = "relay" /\ phase'[c] = "command"
             /\ relayTasks[c] # <<>>
             /\ transmissionQueue' = Append(transmissionQueue, c)
    <3>1. ~In(c, transmissionQueue)
      BY <2>2 DEF QueueInv, MayRelay
    <3>2. /\ Distinct(transmissionQueue')
          /\ \A d : In(d, transmissionQueue') => In(d, transmissionQueue) \/ d = c
      BY <2>2, <3>1, PushNew DEF QueueInv, TypeOK
    <3>3. MayRelay(c)'
      BY <1>1, <2>2 DEF QueueInv, BodyStarted, Effect, MayRelay, MayStore, Unread, BodyPhases
    <3> QED
      <4>1. ASSUME NEW d \in Conns, In(d, transmissionQueue)'
            PROVE  MayRelay(d)' /\ relayTasks'[d] # <<>>
        <5>1. In(d, transmissionQueue) \/ d = c
          BY <3>2, <4>1 DEF In
        <5>2. In(d, transmissionQueue) => MayRelay(d) /\ relayTasks[d] # <<>>
          BY DEF QueueInv
        <5>3. relayTasks[d] # <<>> => relayTasks'[d] # <<>>
          BY <1>3
        <5>4. d = c => relayTasks[d] # <<>>
          BY <2>2
        <5> QED
          BY <1>3, <3>3, <5>1, <5>2, <5>3, <5>4
      <4> QED
        BY <3>2, <4>1 DEF Distinct
  <2> QED
    BY <1>1, <2>1, <2>2 DEF Effect
<1> QED
  BY <1>2, <1>4, <1>5 DEF QueueInv

LEMMA QueuedFollows == TypeOK /\ QueueInv => QueuedOnce
<1> SUFFICES ASSUME TypeOK, QueueInv, NEW c \in Conns
             PROVE  /\ Cardinality(Positions(c, databaseQueue)) <= 1
                    /\ Cardinality(Positions(c, transmissionQueue)) <= 1
                    /\ phase[c] \in {"body", "file", "reply", "store"} =>
                          Positions(c, databaseQueue) \cup Positions(c, transmissionQueue) = {}
  BY DEF QueuedOnce
<1>1. ASSUME NEW q \in Seq(Conns), Distinct(q)
      PROVE  /\ Cardinality(Positions(c, q)) <= 1
             /\ ~In(c, q) => Positions(c, q) = {}
  <2>1. DOMAIN q = 1 .. Len(q)
    BY LenProperties
  <2>2. CASE Positions(c, q) = {}
    BY <2>2, FS_EmptySet
  <2>3. CASE Positions(c, q) # {}
    <3>1. PICK i \in Positions(c, q) : TRUE
      BY <2>3
    <3>2. Positions(c, q) = {i}
      BY <1>1, <2>1, <3>1 DEF Positions, Distinct
    <3>3. Cardinality({i}) = 1
      BY FS_Singleton
    <3>4. In(c, q)
      BY <2>1, <3>1 DEF Positions, In
    <3>5. Cardinality(Positions(c, q)) = 1
      BY <3>2, <3>3
    <3> QED
      BY <3>4, <3>5
  <2> QED
    BY <2>2, <2>3
<1>2. phase[c] \in {"body", "file", "reply", "store"} =>
          ~In(c, databaseQueue) /\ ~In(c, transmissionQueue)
  BY DEF QueueInv, MayRelay, MayStore, Unread
<1> QED
  BY <1>1, <1>2 DEF QueueInv, TypeOK

\* A session is in a queue only after its client was told so, and once
\* (SMTPServer.src.cc 520-538, data.src.cc 303-306).
THEOREM SessionsQueuedOnce == Spec => []QueuedOnce
<1>1. Init => QueueInv
  <2> SUFFICES ASSUME Init
               PROVE  QueueInv
    OBVIOUS
  <2>1. Len(databaseQueue) = 0 /\ Len(transmissionQueue) = 0
    BY DEF Init
  <2> QED
    BY <2>1 DEF Init, QueueInv, BodyStarted, BodyPhases, Distinct, In
<1>2. TypeOK /\ QueueInv /\ [Next]_smtpVars => QueueInv'
  <2> SUFFICES ASSUME TypeOK, QueueInv, [Next]_smtpVars
               PROVE  QueueInv'
    OBVIOUS
  <2>1. CASE UNCHANGED smtpVars
    BY <2>1 DEF smtpVars, session, queues, QueueInv, BodyStarted, Distinct, In, MayStore, MayRelay
  <2>2. Idle => UNCHANGED smtpVars
    BY DEF Idle
  <2> QED
    BY <2>1, <2>2, QueuesKept DEF Next
<1> QED
  BY <1>1, <1>2, QueuedFollows, TypeCorrect, PTL DEF Spec
=============================================================================
