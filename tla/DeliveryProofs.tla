--------------------------- MODULE DeliveryProofs ---------------------------
(* Theorems about Delivery, for every set of connections and addresses and  *)
(* any number of commands, recipients and crashes: many sessions in both    *)
(* queues at once, where the runs have one.                                 *)
EXTENDS Delivery, SmtpServerProofs

-----------------------------------------------------------------------------
(* Types.  A thread that is not idle has a session in hand. *)

InHand ==
    /\ dbStep # "idle" => dbSession # NoConn
    /\ txStep # "idle" => txSession # NoConn

LEMMA ServerTypes ==
    ASSUME TypeOK, UNCHANGED smtpVars
    PROVE  TypeOK'
BY DEF TypeOK, smtpVars, session, queues

LEMMA DTypeStep ==
    DTypeOK /\ InHand /\ SenderInv /\ QueueInv /\ [DNext]_vars => DTypeOK' /\ InHand'
<1> SUFFICES ASSUME DTypeOK, InHand, SenderInv, QueueInv, [DNext]_vars
             PROVE  DTypeOK' /\ InHand'
  OBVIOUS
<1> USE DeliveryConstants DEF InHand
<1>1. CASE UNCHANGED vars
  BY <1>1, ServerTypes DEF DTypeOK, vars, dbVars, txVars
<1>2. ASSUME NEW c \in Conns, Connection(c)
      PROVE  DTypeOK' /\ InHand'
  <2>1. TypeOK'
    BY <1>2, TypeStep DEF DTypeOK, SenderInv, Connection, Next
  <2> QED
    BY <1>2, <2>1 DEF DTypeOK, Connection, dbVars, txVars
<1>3. CASE TakeStorage
  <2>1. Front(databaseQueue) \in Seq(Conns) /\ Last(databaseQueue) \in Conns
    BY <1>3, PopLast DEF TakeStorage, QueueInv, DTypeOK, TypeOK
  <2>2. TypeOK'
    BY <1>3, <2>1 DEF TakeStorage, DTypeOK, TypeOK, session
  <2> QED
    BY <1>3, <2>1, <2>2 DEF TakeStorage, DTypeOK, txVars
<1>4. CASE CopyTasks
  <2>1. dbTasks' \in Seq(StorageTask)
    BY <1>4 DEF CopyTasks, DTypeOK, TypeOK
  <2> QED
    BY <1>4, <2>1, ServerTypes DEF CopyTasks, DTypeOK, txVars
<1>5. ASSUME NEW stored \in BOOLEAN, StoreTask(stored)
      PROVE  DTypeOK' /\ InHand'
  <2>1. Head(dbTasks) \in StorageTask /\ Tail(dbTasks) \in Seq(StorageTask)
    BY <1>5, HeadTailProperties DEF StoreTask, DTypeOK
  <2>2. [task |-> Head(dbTasks), stored |-> stored] \in FiledTask
    BY <2>1 DEF FiledTask
  <2>3. filed' \in [Conns -> Seq(FiledTask)]
    <3>1. dbSession \in Conns /\ filed[dbSession] \in Seq(FiledTask)
      BY <1>5 DEF StoreTask, DTypeOK
    <3> QED
      BY <1>5, <2>2, <3>1, AppendProperties DEF StoreTask, DTypeOK, Append1
  <2> QED
    BY <1>5, <2>1, <2>3, ServerTypes DEF StoreTask, DTypeOK, txVars
<1>6. CASE StorageDone
  BY <1>6, ServerTypes DEF StorageDone, DTypeOK, txVars
<1>7. CASE TakeRelay
  <2>1. Front(transmissionQueue) \in Seq(Conns) /\ Last(transmissionQueue) \in Conns
    BY <1>7, PopLast DEF TakeRelay, QueueInv, DTypeOK, TypeOK
  <2>2. TypeOK'
    BY <1>7, <2>1 DEF TakeRelay, DTypeOK, TypeOK, session
  <2> QED
    BY <1>7, <2>1, <2>2 DEF TakeRelay, DTypeOK, dbVars
<1>8. CASE Prepare
  <2>1. /\ txSession \in Conns
        /\ relayTasks[txSession] \in Seq(Remotes) /\ tried[txSession] \in Seq(Remotes)
    BY <1>8 DEF Prepare, DTypeOK, TypeOK
  <2>2. tried[txSession] \o relayTasks[txSession] \in Seq(Remotes)
    BY <2>1, ConcatProperties
  <2>3. tried' \in [Conns -> Seq(Remotes)]
    BY <1>8, <2>1, <2>2 DEF Prepare, DTypeOK
  <2>4. Len(relayTasks[txSession]) \in Nat
    BY <2>1, LenProperties
  <2>5. /\ txTargets' \in Nat /\ txErrors' \in Nat
        /\ txStep' \in {"idle", "send"} /\ txSession' \in Conns \cup {NoConn}
        /\ txStep' = "send" => txSession' # NoConn
    BY <1>8, <2>1, <2>4 DEF Prepare, TxIdle
  <2> QED
    BY <1>8, <2>3, <2>5, ServerTypes DEF Prepare, DTypeOK, dbVars
<1>9. ASSUME NEW errors \in 0 .. 1, SendTo(errors)
      PROVE  DTypeOK' /\ InHand'
  BY <1>9, ServerTypes DEF SendTo, DTypeOK, dbVars
<1>10. CASE SendThrows \/ SendHangs \/ SendDone
  BY <1>10, ServerTypes DEF SendThrows, SendHangs, SendDone, TxIdle, DTypeOK, dbVars
<1>11. CASE Report
  BY <1>11, ServerTypes DEF Report, TxIdle, DTypeOK, dbVars
<1>12. CASE Crash
  <2>1. TypeOK'
    BY <1>12, SMTT(30) DEF Crash, DTypeOK, TypeOK, session, Phases
  <2> QED
    BY <1>12, <2>1 DEF Crash, TxIdle, DTypeOK
<1>13. AllDone => UNCHANGED vars
  BY DEF AllDone
<1> QED
  BY <1>1, <1>2, <1>3, <1>4, <1>5, <1>6, <1>7, <1>8, <1>9, <1>10, <1>11, <1>12, <1>13
  DEF DNext, StorageThread, TransmissionThread

-----------------------------------------------------------------------------
(* The server's invariants, which the workers do not break *)

LEMMA ServerInvStep ==
    DTypeOK /\ SenderInv /\ QueueInv /\ [DNext]_vars => SenderInv' /\ QueueInv'
<1> SUFFICES ASSUME DTypeOK, SenderInv, QueueInv, [DNext]_vars
             PROVE  SenderInv' /\ QueueInv'
  OBVIOUS
<1>1. ASSUME UNCHANGED session, \A c \in Conns : phase'[c] = "none" => phase[c] = "none"
      PROVE  SenderInv'
  BY <1>1 DEF session, SenderInv, SenderKnown, LocalSenderVouched
<1>2. ASSUME UNCHANGED smtpVars
      PROVE  SenderInv' /\ QueueInv'
  <2>1. SenderInv'
    BY <1>1, <1>2 DEF smtpVars
  <2>2. QueueInv'
    BY <1>2 DEF smtpVars, session, queues, QueueInv, BodyStarted, Distinct, In, MayStore, MayRelay
  <2> QED
    BY <2>1, <2>2
<1>3. ASSUME NEW c \in Conns, Connection(c)
      PROVE  SenderInv' /\ QueueInv'
  BY <1>3, SenderStep, QueuesKept DEF Connection, Next, DTypeOK
<1>4. CASE TakeStorage
  <2>1. /\ Distinct(Front(databaseQueue))
        /\ \A d : In(d, Front(databaseQueue)) => In(d, databaseQueue)
    BY <1>4, PopLast DEF TakeStorage, QueueInv, DTypeOK, TypeOK
  <2>2. SenderInv'
    BY <1>1, <1>4 DEF TakeStorage
  <2>3. QueueInv'
    BY <1>4, <2>1 DEF TakeStorage, session, QueueInv, BodyStarted, Distinct, In, MayStore, MayRelay
  <2> QED
    BY <2>2, <2>3
<1>5. CASE TakeRelay
  <2>1. /\ Distinct(Front(transmissionQueue))
        /\ \A d : In(d, Front(transmissionQueue)) => In(d, transmissionQueue)
    BY <1>5, PopLast DEF TakeRelay, QueueInv, DTypeOK, TypeOK
  <2>2. SenderInv'
    BY <1>1, <1>5 DEF TakeRelay
  <2>3. QueueInv'
    BY <1>5, <2>1 DEF TakeRelay, session, QueueInv, BodyStarted, Distinct, In, MayStore, MayRelay
  <2> QED
    BY <2>2, <2>3
<1>6. CASE Crash
  <2>1. Len(databaseQueue') = 0 /\ Len(transmissionQueue') = 0
    BY <1>6 DEF Crash
  <2>2. \A c \in Conns : phase'[c] \in {"none", "closed"} /\ (phase'[c] = "none" => phase[c] = "none")
    BY <1>6 DEF Crash
  <2>3. SenderInv'
    BY <1>1, <1>6, <2>2 DEF Crash
  <2>4. QueueInv'
    BY <2>1, <2>2 DEF QueueInv, BodyStarted, BodyPhases, Distinct, In
  <2> QED
    BY <2>3, <2>4
<1>7. ASSUME CopyTasks \/ StorageDone \/ \E stored \in BOOLEAN : StoreTask(stored)
      PROVE  UNCHANGED smtpVars
  BY <1>7 DEF CopyTasks, StorageDone, StoreTask
<1>8. ASSUME \/ Prepare \/ SendThrows \/ SendHangs \/ SendDone \/ Report
             \/ \E errors \in 0 .. 1 : SendTo(errors)
      PROVE  UNCHANGED smtpVars
  BY <1>8 DEF Prepare, SendThrows, SendHangs, SendDone, Report, SendTo
<1>9. UNCHANGED vars \/ AllDone => UNCHANGED smtpVars
  BY DEF vars, AllDone
<1> QED
  BY <1>2, <1>3, <1>4, <1>5, <1>6, <1>7, <1>8, <1>9
  DEF DNext, StorageThread, TransmissionThread
-----------------------------------------------------------------------------
(* Filing *)

\* What was filed of a session is the beginning of its tasks, and what the storage
\* thread has left of it the rest of those it copied.
FileInv(c) ==
    /\ In(c, databaseQueue) \/ dbSession = c \/ filed[c] # <<>> => MayStore(c)
    /\ In(c, databaseQueue) => dbSession # c /\ filed[c] = <<>>
    /\ Len(filed[c]) <= Len(storageTasks[c])
    /\ \A i \in 1 .. Len(filed[c]) : filed[c][i].task = storageTasks[c][i]
    /\ dbSession = c =>
          /\ dbStep = "copy" => filed[c] = <<>>
          /\ dbStep = "store" =>
                /\ Len(filed[c]) + Len(dbTasks) <= Len(storageTasks[c])
                /\ \A i \in 1 .. Len(dbTasks) :
                      dbTasks[i] = storageTasks[c][Len(filed[c]) + i]

\* A step that files nothing of a session, and takes it up in no new way, keeps this
\* as long as the tasks of one that may be filed only grow.
LEMMA FileStays ==
    ASSUME DTypeOK, DTypeOK', NEW d \in Conns, FileInv(d),
           MayStore(d) => MayStore(d)' /\ Grows(storageTasks[d], storageTasks'[d]),
           filed'[d] = filed[d],
           In(d, databaseQueue') => In(d, databaseQueue) \/ (~MayStore(d) /\ MayStore(d)'),
           dbSession' = d => dbSession = d /\ dbStep' = dbStep /\ dbTasks' = dbTasks
    PROVE  FileInv(d)'
<1>1. /\ Len(filed[d]) \in Nat /\ Len(storageTasks[d]) \in Nat /\ Len(storageTasks'[d]) \in Nat
      /\ Len(dbTasks) \in Nat
      /\ filed[d] \in Seq(FiledTask)
      /\ DOMAIN filed[d] = 1 .. Len(filed[d])
  <2>1. /\ filed[d] \in Seq(FiledTask) /\ storageTasks[d] \in Seq(StorageTask)
        /\ storageTasks'[d] \in Seq(StorageTask) /\ dbTasks \in Seq(StorageTask)
    BY DEF DTypeOK, TypeOK
  <2> QED
    BY <2>1, LenProperties
<1>2. In(d, databaseQueue)' = In(d, databaseQueue')
  BY DEF In
<1>3. CASE MayStore(d)
  <2>1. /\ MayStore(d)'
        /\ Len(storageTasks[d]) <= Len(storageTasks'[d])
        /\ \A i \in 1 .. Len(storageTasks[d]) : storageTasks'[d][i] = storageTasks[d][i]
    BY <1>3 DEF Grows
  <2>2. In(d, databaseQueue') => In(d, databaseQueue)
    BY <1>3
  <2>3. /\ Len(filed'[d]) <= Len(storageTasks'[d])
        /\ \A i \in 1 .. Len(filed'[d]) : filed'[d][i].task = storageTasks'[d][i]
    BY <1>1, <2>1 DEF FileInv
  <2>4. ASSUME dbSession' = d
        PROVE  /\ dbStep' = "copy" => filed'[d] = <<>>
               /\ dbStep' = "store" =>
                     /\ Len(filed'[d]) + Len(dbTasks') <= Len(storageTasks'[d])
                     /\ \A i \in 1 .. Len(dbTasks') :
                           dbTasks'[i] = storageTasks'[d][Len(filed'[d]) + i]
    <3>1. dbStep = "store" =>
             /\ Len(filed[d]) + Len(dbTasks) <= Len(storageTasks[d])
             /\ \A i \in 1 .. Len(dbTasks) :
                   /\ dbTasks[i] = storageTasks[d][Len(filed[d]) + i]
                   /\ Len(filed[d]) + i \in 1 .. Len(storageTasks[d])
      BY <1>1, <2>4 DEF FileInv
    <3> QED
      BY <1>1, <2>1, <2>4, <3>1, SMTT(30) DEF FileInv
  <2>5. dbSession' # d \/ dbSession = d
    OBVIOUS
  <2> QED
    BY <1>2, <2>1, <2>2, <2>3, <2>4, <2>5 DEF FileInv
<1>4. CASE ~MayStore(d)
  <2>1. ~In(d, databaseQueue) /\ dbSession # d /\ filed[d] = <<>>
    BY <1>4 DEF FileInv
  <2>2. dbSession' # d /\ filed'[d] = <<>> /\ Len(filed'[d]) = 0
    BY <2>1
  <2>3. In(d, databaseQueue') => MayStore(d)'
    BY <2>1
  <2> QED
    BY <1>1, <1>2, <2>2, <2>3 DEF FileInv
<1> QED
  BY <1>3, <1>4

LEMMA FileStep ==
    ASSUME DTypeOK, DTypeOK', InHand, QueueInv, \A c \in Conns : FileInv(c), [DNext]_vars,
           NEW d \in Conns
    PROVE  FileInv(d)'
<1> USE DeliveryConstants
<1>1. /\ FileInv(d)
      /\ filed[d] \in Seq(FiledTask) /\ storageTasks[d] \in Seq(StorageTask)
      /\ Grows(storageTasks[d], storageTasks[d])
      /\ Len(storageTasks[d]) \in Nat
  <2>1. filed[d] \in Seq(FiledTask) /\ storageTasks[d] \in Seq(StorageTask)
    BY DEF DTypeOK, TypeOK
  <2> QED
    BY <2>1, LenProperties DEF Grows
<1>2. ASSUME UNCHANGED <<phase, session, databaseQueue, dbVars>>
      PROVE  FileInv(d)'
  BY <1>1, <1>2, FileStays DEF session, dbVars, MayStore
<1>3. ASSUME NEW c \in Conns, Connection(c)
      PROVE  FileInv(d)'
  <2>1. Effect(c)
    BY <1>3, StepEffect DEF Connection, QueueInv, DTypeOK
  <2>2. MayStore(d) => MayStore(d)' /\ Grows(storageTasks[d], storageTasks'[d])
    BY <1>1, <2>1 DEF Effect, MayStore, Unread
  <2>3. In(d, databaseQueue') => In(d, databaseQueue) \/ (~MayStore(d) /\ MayStore(d)')
    <3>1. CASE databaseQueue' = databaseQueue
      BY <3>1
    <3>2. CASE /\ phase[c] = "store" /\ phase'[c] = "relay"
               /\ databaseQueue' = Append(databaseQueue, c)
      <4>1. ~MayStore(c) /\ ~In(c, databaseQueue)
        BY <3>2 DEF MayStore, Unread, QueueInv
      <4>2. MayStore(c)'
        BY <2>1, <3>2 DEF Effect, MayStore, Unread, BodyPhases
      <4>3. In(d, Append(databaseQueue, c)) => In(d, databaseQueue) \/ d = c
        BY <4>1, PushNew DEF QueueInv, DTypeOK, TypeOK
      <4> QED
        BY <3>2, <4>1, <4>2, <4>3
    <3> QED
      BY <2>1, <3>1, <3>2 DEF Effect
  <2> QED
    BY <1>1, <1>3, <2>2, <2>3, FileStays DEF Connection, dbVars
<1>4. CASE TakeStorage
  <2>1. /\ Last(databaseQueue) \in Conns
        /\ In(Last(databaseQueue), databaseQueue)
        /\ \A c : In(c, Front(databaseQueue)) =>
               In(c, databaseQueue) /\ c # Last(databaseQueue)
    BY <1>4, PopLast DEF TakeStorage, QueueInv, DTypeOK, TypeOK
  <2>2. CASE d = Last(databaseQueue)
    <3>1. /\ filed[d] = <<>> /\ MayStore(d)
          /\ ~In(d, Front(databaseQueue))
          /\ Len(filed[d]) = 0
      BY <1>1, <2>1, <2>2 DEF FileInv
    <3> QED
      BY <1>1, <1>4, <3>1 DEF TakeStorage, session, FileInv, MayStore, In
  <2>3. CASE d # Last(databaseQueue)
    BY <1>1, <1>4, <2>1, <2>3, FileStays DEF TakeStorage, session, MayStore
  <2> QED
    BY <2>2, <2>3
<1>5. CASE CopyTasks
  <2>1. CASE d = dbSession
    <3>1. /\ filed[d] = <<>> /\ MayStore(d) /\ ~In(d, databaseQueue)
          /\ Len(filed[d]) = 0
      BY <1>1, <1>5, <2>1 DEF CopyTasks, FileInv
    <3>2. \A i \in 1 .. Len(storageTasks[d]) : 0 + i = i
      OBVIOUS
    <3> QED
      BY <1>1, <1>5, <2>1, <3>1, <3>2
      DEF CopyTasks, smtpVars, session, queues, FileInv, MayStore, In
  <2>2. CASE d # dbSession
    BY <1>1, <1>5, <2>2, FileStays DEF CopyTasks, smtpVars, session, queues, MayStore
  <2> QED
    BY <2>1, <2>2
<1>6. ASSUME NEW stored \in BOOLEAN, StoreTask(stored)
      PROVE  FileInv(d)'
  <2>1. CASE d = dbSession
    <3> DEFINE entry == [task |-> Head(dbTasks), stored |-> stored]
               n == Len(filed[d])
    <3>1. /\ dbTasks \in Seq(StorageTask) /\ dbTasks # <<>>
          /\ Len(dbTasks) \in Nat \ {0}
          /\ Head(dbTasks) = dbTasks[1]
          /\ Tail(dbTasks) \in Seq(StorageTask)
          /\ Len(Tail(dbTasks)) = Len(dbTasks) - 1
          /\ \A i \in 1 .. Len(Tail(dbTasks)) : Tail(dbTasks)[i] = dbTasks[i + 1]
          /\ Head(dbTasks) \in StorageTask
      BY <1>6, EmptySeq, HeadTailProperties DEF StoreTask, DTypeOK
    <3>2. /\ n \in Nat
          /\ n + Len(dbTasks) <= Len(storageTasks[d])
          /\ \A i \in 1 .. Len(dbTasks) : dbTasks[i] = storageTasks[d][n + i]
          /\ \A i \in 1 .. n : filed[d][i].task = storageTasks[d][i]
          /\ MayStore(d) /\ ~In(d, databaseQueue)
      BY <1>1, <1>6, <2>1, LenProperties DEF StoreTask, FileInv
    <3>3. /\ filed'[d] = Append(filed[d], entry)
          /\ dbTasks' = Tail(dbTasks)
          /\ UNCHANGED <<storageTasks, databaseQueue, phase, actions, dbStep, dbSession>>
      BY <1>6, <2>1 DEF StoreTask, Append1, smtpVars, session, queues, DTypeOK
    <3>4. /\ Len(filed'[d]) = n + 1
          /\ \A i \in 1 .. n : filed'[d][i] = filed[d][i]
          /\ filed'[d][n + 1] = entry
      <4>1. entry \in FiledTask
        BY <3>1 DEF FiledTask
      <4> QED
        BY <1>1, <3>3, <4>1, AppendProperties
    <3> HIDE DEF n
    <3>5. \A i \in 1 .. n + 1 : filed'[d][i].task = storageTasks[d][i]
      <4>1. entry.task = storageTasks[d][n + 1]
        BY <3>1, <3>2
      <4>2. \A i \in 1 .. n + 1 : i \in 1 .. n \/ i = n + 1
        BY <3>2
      <4> HIDE DEF entry
      <4> QED
        BY <3>2, <3>4, <4>1, <4>2
    <3>6. n + 1 + Len(dbTasks') <= Len(storageTasks[d]) /\ n + 1 <= Len(storageTasks[d])
      BY <1>1, <3>1, <3>2, <3>3
    <3>7. \A i \in 1 .. Len(dbTasks') : dbTasks'[i] = storageTasks[d][n + 1 + i]
      <4>1. ASSUME NEW i \in 1 .. Len(dbTasks')
            PROVE  dbTasks'[i] = storageTasks[d][n + 1 + i]
        <5>1. i + 1 \in 1 .. Len(dbTasks) /\ n + (i + 1) = n + 1 + i
          BY <3>1, <3>2, <3>3, <4>1
        <5>2. dbTasks'[i] = dbTasks[i + 1]
          BY <3>1, <3>3, <4>1
        <5> QED
          BY <3>2, <5>1, <5>2
      <4> QED
        BY <4>1
    <3>8. MayStore(d)' /\ ~In(d, databaseQueue)'
      BY <3>2, <3>3 DEF MayStore, In
    <3>9. dbStep' = "store"
      BY <1>6, <3>3 DEF StoreTask
    <3> QED
      BY <3>3, <3>4, <3>5, <3>6, <3>7, <3>8, <3>9 DEF FileInv
  <2>2. CASE d # dbSession
    <3>1. filed'[d] = filed[d]
      BY <1>6, <2>2 DEF StoreTask, Append1, DTypeOK
    <3> QED
      BY <1>1, <1>6, <2>2, <3>1, FileStays
      DEF StoreTask, smtpVars, session, queues, MayStore
  <2> QED
    BY <2>1, <2>2
<1>7. CASE StorageDone
  BY <1>1, <1>7, FileStays DEF StorageDone, smtpVars, session, queues, MayStore
<1>8. CASE Crash
  <2>1. ~In(d, databaseQueue')
    <3>1. Len(databaseQueue') = 0
      BY <1>8 DEF Crash
    <3> QED
      BY <3>1 DEF In
  <2>2. MayStore(d) => MayStore(d)'
    BY <1>8 DEF Crash, session, MayStore, Unread
  <2>3. /\ storageTasks'[d] = storageTasks[d] /\ filed'[d] = filed[d]
        /\ dbSession' # d
    BY <1>8 DEF Crash, session
  <2> QED
    BY <1>1, <2>1, <2>2, <2>3, FileStays
<1>9. CASE TransmissionThread
  BY <1>2, <1>9 DEF TransmissionThread, TakeRelay, Prepare, SendTo, SendThrows, SendHangs,
                    SendDone, Report, smtpVars, session, queues
<1>10. UNCHANGED vars \/ AllDone => UNCHANGED <<phase, session, databaseQueue, dbVars>>
  BY DEF vars, AllDone, smtpVars, queues
<1> QED
  BY <1>2, <1>3, <1>4, <1>5, <1>6, <1>7, <1>8, <1>9, <1>10 DEF DNext, StorageThread

-----------------------------------------------------------------------------
(* Relaying *)

\* A session that was relayed, or is to be, has left the body handler with relay tasks;
\* what was tried are the first of them, and a report has been wanted.
RelayInv(c) ==
    /\ In(c, transmissionQueue) \/ txSession = c \/ tried[c] # <<>> \/ reports[c] > 0 =>
          MayRelay(c) /\ relayTasks[c] # <<>>
    /\ In(c, transmissionQueue) => txSession # c /\ tried[c] = <<>> /\ reports[c] = 0
    /\ txSession = c =>
          /\ txStep = "prepare" => tried[c] = <<>>
          /\ txStep \in {"prepare", "send", "report"} => reports[c] = 0
          /\ txStep = "report" => ~xfannst[c].nerror
    /\ Grows(tried[c], relayTasks[c])
    /\ reports[c] <= 1
    /\ reports[c] > 0 => ~xfannst[c].nerror

\* A step that tries and reports nothing for a session keeps this as long as the relay
\* tasks of one that may be relayed only grow and its X-Fannst-Flags stay.
LEMMA RelayStays ==
    ASSUME DTypeOK, DTypeOK', NEW d \in Conns, RelayInv(d),
           Grows(relayTasks[d], relayTasks'[d]),
           MayRelay(d) => MayRelay(d)' /\ xfannst'[d] = xfannst[d],
           tried'[d] = tried[d], reports'[d] = reports[d],
           In(d, transmissionQueue') =>
               \/ In(d, transmissionQueue)
               \/ ~MayRelay(d) /\ MayRelay(d)' /\ relayTasks'[d] # <<>>,
           txSession' = d =>
               /\ txSession = d
               /\ \/ txStep' = txStep \/ txStep' = "hang"
                  \/ txStep = "send" /\ txStep' = "report" /\ ~xfannst[d].nerror
    PROVE  RelayInv(d)'
<1>1. /\ relayTasks[d] \in Seq(Remotes) /\ relayTasks'[d] \in Seq(Remotes)
      /\ tried[d] \in Seq(Remotes)
      /\ Len(relayTasks[d]) \in Nat /\ Len(relayTasks'[d]) \in Nat /\ Len(tried[d]) \in Nat
      /\ reports[d] \in Nat
  <2>1. /\ relayTasks[d] \in Seq(Remotes) /\ relayTasks'[d] \in Seq(Remotes)
        /\ tried[d] \in Seq(Remotes) /\ reports[d] \in Nat
    BY DEF DTypeOK, TypeOK
  <2> QED
    BY <2>1, LenProperties
<1>2. relayTasks[d] # <<>> => relayTasks'[d] # <<>>
  <2>1. relayTasks[d] # <<>> => Len(relayTasks[d]) # 0
    BY <1>1, EmptySeq
  <2>2. relayTasks'[d] = <<>> => Len(relayTasks'[d]) = 0
    OBVIOUS
  <2> QED
    BY <1>1, <2>1, <2>2 DEF Grows
<1>3. Grows(tried[d], relayTasks'[d])
  BY <1>1 DEF RelayInv, Grows
<1>4. In(d, transmissionQueue)' = In(d, transmissionQueue')
  BY DEF In
<1>5. Grows(tried[d], relayTasks[d])' = Grows(tried'[d], relayTasks'[d])
  BY DEF Grows
<1>6. CASE MayRelay(d)
  <2>1. MayRelay(d)' /\ xfannst'[d] = xfannst[d]
    BY <1>6
  <2>2. In(d, transmissionQueue') => In(d, transmissionQueue)
    BY <1>6
  <2> QED
    BY <1>1, <1>2, <1>3, <1>4, <1>5, <2>1, <2>2 DEF RelayInv
<1>7. CASE ~MayRelay(d)
  <2>1. /\ ~In(d, transmissionQueue) /\ txSession # d
        /\ tried[d] = <<>> /\ reports[d] = 0
    BY <1>1, <1>7 DEF RelayInv
  <2>2. txSession' # d
    BY <2>1
  <2>3. In(d, transmissionQueue') => MayRelay(d)' /\ relayTasks'[d] # <<>>
    BY <2>1
  <2> QED
    BY <1>1, <1>3, <1>4, <1>5, <2>1, <2>2, <2>3 DEF RelayInv
<1> QED
  BY <1>6, <1>7

LEMMA RelayStep ==
    ASSUME DTypeOK, DTypeOK', InHand, QueueInv, \A c \in Conns : RelayInv(c), [DNext]_vars,
           NEW d \in Conns
    PROVE  RelayInv(d)'
<1> USE DeliveryConstants
<1>1. /\ RelayInv(d)
      /\ tried[d] \in Seq(Remotes) /\ relayTasks[d] \in Seq(Remotes)
      /\ Grows(relayTasks[d], relayTasks[d])
      /\ Len(relayTasks[d]) \in Nat
      /\ reports[d] \in Nat
      /\ txSession \in Conns \cup {NoConn}
  <2>1. /\ tried[d] \in Seq(Remotes) /\ relayTasks[d] \in Seq(Remotes) /\ reports[d] \in Nat
        /\ txSession \in Conns \cup {NoConn}
    BY DEF DTypeOK, TypeOK
  <2> QED
    BY <2>1, LenProperties DEF Grows
<1>2. ASSUME UNCHANGED <<phase, session, transmissionQueue, txVars>>
      PROVE  RelayInv(d)'
  <2>1. MayRelay(d)' = MayRelay(d)
    BY <1>2 DEF session, MayRelay, MayStore
  <2> QED
    BY <1>1, <1>2, <2>1, RelayStays DEF session, txVars
<1>3. ASSUME NEW c \in Conns, Connection(c)
      PROVE  RelayInv(d)'
  <2>1. Effect(c)
    BY <1>3, StepEffect DEF Connection, QueueInv, DTypeOK
  <2>2. MayRelay(d) => MayRelay(d)' /\ xfannst'[d] = xfannst[d]
    BY <2>1 DEF Effect, MayRelay, MayStore, Unread
  <2>3. Grows(relayTasks[d], relayTasks'[d])
    BY <1>1, <2>1 DEF Effect
  <2>4. In(d, transmissionQueue') =>
            \/ In(d, transmissionQueue)
            \/ ~MayRelay(d) /\ MayRelay(d)' /\ relayTasks'[d] # <<>>
    <3>1. CASE transmissionQueue' = transmissionQueue
      BY <3>1
    <3>2. CASE /\ phase[c] = "relay" /\ phase'[c] = "command"
               /\ relayTasks[c] # <<>>
               /\ transmissionQueue' = Append(transmissionQueue, c)
      <4>1. ~MayRelay(c) /\ ~In(c, transmissionQueue)
        BY <3>2 DEF MayRelay, QueueInv
      <4>2. MayRelay(c)'
        BY <2>1, <3>2 DEF QueueInv, BodyStarted, Effect, MayRelay, MayStore, Unread, BodyPhases
      <4>3. relayTasks'[c] # <<>>
        <5>1. relayTasks[c] \in Seq(Remotes) /\ Grows(relayTasks[c], relayTasks'[c])
          BY <2>1 DEF DTypeOK, TypeOK, Effect
        <5>2. Len(relayTasks[c]) \in Nat \ {0}
          BY <3>2, <5>1, EmptySeq, LenProperties
        <5> QED
          BY <5>1, <5>2 DEF Grows
      <4>4. In(d, Append(transmissionQueue, c)) => In(d, transmissionQueue) \/ d = c
        BY <4>1, PushNew DEF QueueInv, DTypeOK, TypeOK
      <4> QED
        BY <3>2, <4>1, <4>2, <4>3, <4>4
    <3> QED
      BY <2>1, <3>1, <3>2 DEF Effect
  <2> QED
    BY <1>1, <1>3, <2>2, <2>3, <2>4, RelayStays DEF Connection, txVars
<1>4. CASE TakeRelay
  <2>1. /\ Last(transmissionQueue) \in Conns
        /\ In(Last(transmissionQueue), transmissionQueue)
        /\ \A c : In(c, Front(transmissionQueue)) =>
               In(c, transmissionQueue) /\ c # Last(transmissionQueue)
    BY <1>4, PopLast DEF TakeRelay, QueueInv, DTypeOK, TypeOK
  <2>2. MayRelay(d)' = MayRelay(d)
    BY <1>4 DEF TakeRelay, session, MayRelay, MayStore
  <2>3. CASE d = Last(transmissionQueue)
    <3>1. /\ tried[d] = <<>> /\ reports[d] = 0 /\ MayRelay(d) /\ relayTasks[d] # <<>>
          /\ ~In(d, Front(transmissionQueue))
      BY <1>1, <2>1, <2>3 DEF RelayInv
    <3> QED
      BY <1>1, <1>4, <2>2, <3>1 DEF TakeRelay, session, RelayInv, In, Grows
  <2>4. CASE d # Last(transmissionQueue)
    BY <1>1, <1>4, <2>1, <2>2, <2>4, RelayStays DEF TakeRelay, session
  <2> QED
    BY <2>3, <2>4
<1>5. ASSUME Prepare \/ SendThrows \/ SendHangs \/ SendDone \/ Report
             \/ \E errors \in 0 .. 1 : SendTo(errors)
      PROVE  /\ MayRelay(d)' = MayRelay(d)
             /\ relayTasks' = relayTasks /\ xfannst' = xfannst
             /\ transmissionQueue' = transmissionQueue
             /\ txSession' \in {txSession, NoConn}
  <2>1. UNCHANGED smtpVars
    BY <1>5 DEF Prepare, SendThrows, SendHangs, SendDone, Report, SendTo
  <2>2. txSession' \in {txSession, NoConn}
    BY <1>5 DEF Prepare, SendThrows, SendHangs, SendDone, Report, SendTo, TxIdle
  <2> QED
    BY <2>1, <2>2 DEF smtpVars, session, queues, MayRelay, MayStore
<1>6. CASE Prepare
  <2>1. CASE d = txSession
    <3>1. /\ tried[d] = <<>> /\ reports[d] = 0 /\ MayRelay(d) /\ relayTasks[d] # <<>>
          /\ ~In(d, transmissionQueue)
      BY <1>1, <1>6, <2>1 DEF Prepare, RelayInv
    <3>2. tried'[d] = relayTasks[d]
      <4>1. tried'[d] = tried[d] \o relayTasks[d]
        BY <1>6, <2>1 DEF Prepare, DTypeOK
      <4> QED
        BY <1>1, <3>1, <4>1, ConcatEmptySeq
    <3>3. reports'[d] = reports[d]
      BY <1>6 DEF Prepare
    <3>4. txSession' = d => txStep' = "send"
      BY <1>6, <2>1 DEF Prepare, TxIdle
    <3> QED
      BY <1>1, <1>5, <1>6, <3>1, <3>2, <3>3, <3>4 DEF RelayInv, In, Grows
  <2>2. CASE d # txSession
    <3>1. tried'[d] = tried[d] /\ reports'[d] = reports[d]
      BY <1>6, <2>2 DEF Prepare, DTypeOK
    <3> QED
      BY <1>1, <1>5, <1>6, <2>2, <3>1, RelayStays
  <2> QED
    BY <2>1, <2>2
<1>7. CASE SendThrows \/ SendHangs \/ SendDone \/ \E errors \in 0 .. 1 : SendTo(errors)
  <2>1. tried' = tried /\ reports' = reports
    BY <1>7 DEF SendThrows, SendHangs, SendDone, SendTo
  <2>2. txSession' = d =>
           /\ txSession = d
           /\ \/ txStep' = txStep \/ txStep' = "hang"
              \/ txStep = "send" /\ txStep' = "report" /\ ~xfannst[d].nerror
    BY <1>7 DEF SendThrows, SendHangs, SendDone, SendTo, TxIdle
  <2> QED
    BY <1>1, <1>5, <1>7, <2>1, <2>2, RelayStays
<1>8. CASE Report
  <2>1. CASE d = txSession
    <3>1. /\ reports[d] = 0 /\ MayRelay(d) /\ relayTasks[d] # <<>>
          /\ ~In(d, transmissionQueue) /\ ~xfannst[d].nerror
      BY <1>1, <1>8, <2>1 DEF Report, RelayInv
    <3>2. reports'[d] = 1 /\ tried'[d] = tried[d]
      BY <1>8, <2>1, <3>1 DEF Report, DTypeOK
    <3>3. txSession' = d => txStep' = "hang"
      BY <1>8, <2>1 DEF Report, TxIdle
    <3> QED
      BY <1>1, <1>5, <1>8, <3>1, <3>2, <3>3 DEF RelayInv, In, Grows
  <2>2. CASE d # txSession
    <3>1. tried'[d] = tried[d] /\ reports'[d] = reports[d]
      BY <1>8, <2>2 DEF Report, DTypeOK
    <3> QED
      BY <1>1, <1>5, <1>8, <2>2, <3>1, RelayStays
  <2> QED
    BY <2>1, <2>2
<1>9. CASE Crash
  <2>1. ~In(d, transmissionQueue')
    <3>1. Len(transmissionQueue') = 0
      BY <1>9 DEF Crash
    <3> QED
      BY <3>1 DEF In
  <2>2. MayRelay(d) => MayRelay(d)'
    BY <1>9 DEF Crash, session, MayRelay, MayStore, Unread
  <2>3. /\ relayTasks' = relayTasks /\ xfannst' = xfannst /\ tried' = tried
        /\ reports' = reports /\ txSession' # d
    BY <1>9 DEF Crash, session, TxIdle
  <2> QED
    BY <1>1, <2>1, <2>2, <2>3, RelayStays
<1>10. StorageThread => UNCHANGED <<phase, session, transmissionQueue, txVars>>
  BY DEF StorageThread, TakeStorage, CopyTasks, StoreTask, StorageDone, smtpVars, queues
<1>11. UNCHANGED vars \/ AllDone => UNCHANGED <<phase, session, transmissionQueue, txVars>>
  BY DEF vars, AllDone, smtpVars, queues
<1> QED
  BY <1>2, <1>3, <1>4, <1>6, <1>7, <1>8, <1>9, <1>10, <1>11 DEF DNext, TransmissionThread

-----------------------------------------------------------------------------
(* The invariant and what follows from it *)

DeliveryInv ==
    /\ DTypeOK /\ InHand
    /\ SenderInv /\ QueueInv
    /\ \A c \in Conns : FileInv(c) /\ RelayInv(c)

LEMMA DeliveryStart == DInit => DeliveryInv
<1> SUFFICES ASSUME DInit
             PROVE  DeliveryInv
  OBVIOUS
<1> USE DeliveryConstants
<1>1. DTypeOK /\ InHand
  BY AddressKinds, Bounds
  DEF DInit, Init, DTypeOK, TypeOK, InHand, Phases, BodyPhases, XFannstFlags
<1>2. SenderInv
  BY AddressKinds DEF DInit, Init, SenderInv, SenderKnown, LocalSenderVouched
<1>3. Len(databaseQueue) = 0 /\ Len(transmissionQueue) = 0
  BY DEF DInit, Init
<1>4. QueueInv
  BY <1>3 DEF DInit, Init, QueueInv, BodyStarted, BodyPhases, Distinct, In
<1>5. ASSUME NEW c \in Conns
      PROVE  FileInv(c) /\ RelayInv(c)
  <2>1. /\ filed[c] = <<>> /\ storageTasks[c] = <<>> /\ tried[c] = <<>> /\ relayTasks[c] = <<>>
        /\ reports[c] = 0 /\ dbSession = NoConn /\ txSession = NoConn
        /\ Len(filed[c]) = 0 /\ Len(storageTasks[c]) = 0
        /\ Len(tried[c]) = 0 /\ Len(relayTasks[c]) = 0
    BY DEF DInit, Init
  <2>2. dbSession # c /\ txSession # c
    BY <2>1
  <2> QED
    BY <1>3, <2>1, <2>2 DEF FileInv, RelayInv, In, Grows
<1> QED
  BY <1>1, <1>2, <1>4, <1>5 DEF DeliveryInv

LEMMA DeliveryStep == DeliveryInv /\ [DNext]_vars => DeliveryInv'
<1> SUFFICES ASSUME DeliveryInv, [DNext]_vars
             PROVE  DeliveryInv'
  OBVIOUS
<1>1. DTypeOK' /\ InHand'
  BY DTypeStep DEF DeliveryInv
<1>2. SenderInv' /\ QueueInv'
  BY ServerInvStep DEF DeliveryInv
<1>3. \A c \in Conns : FileInv(c)' /\ RelayInv(c)'
  BY <1>1, FileStep, RelayStep DEF DeliveryInv
<1> QED
  BY <1>1, <1>2, <1>3 DEF DeliveryInv

LEMMA DeliveryInvariant == DSpec => []DeliveryInv
BY DeliveryStart, DeliveryStep, PTL DEF DSpec

-----------------------------------------------------------------------------
(* What the server promises by itself it keeps with the workers behind it *)

\* A step that is no connection's changes no session, and no phase but by ending it.
LEMMA OthersStandBy ==
    [DNext]_vars =>
        \/ [Next]_smtpVars
        \/ UNCHANGED session /\ \A c \in Conns : phase'[c] \in {phase[c], "none", "closed"}
<1> SUFFICES ASSUME [DNext]_vars,
                    ~(UNCHANGED session /\ \A c \in Conns : phase'[c] \in {phase[c], "none", "closed"})
             PROVE  [Next]_smtpVars
  OBVIOUS
<1>1. ASSUME NEW c \in Conns, Connection(c)
      PROVE  Next
  BY <1>1 DEF Connection, Next
<1>2. ~(UNCHANGED session /\ UNCHANGED phase)
  OBVIOUS
<1>3. ~StorageThread /\ ~AllDone /\ ~UNCHANGED vars
  BY <1>2 DEF StorageThread, TakeStorage, CopyTasks, StoreTask, StorageDone, smtpVars, AllDone, vars
<1>4. ~TransmissionThread
  BY <1>2 DEF TransmissionThread, TakeRelay, Prepare, SendThrows, SendHangs, SendDone, Report,
              SendTo, smtpVars
<1>5. ~Crash
  BY DEF Crash
<1> QED
  BY <1>1, <1>3, <1>4, <1>5 DEF DNext

LEMMA ServedInv == DSpec => [](DeliveryInv /\ SentInv /\ SuspectNotForInbox)
<1>1. DInit => SentInv /\ SuspectNotForInbox
  BY DEF DInit, Init, SentInv, SentOf, OneSent, SuspectNotForInbox
<1>2. ASSUME DeliveryInv, SentInv, SuspectNotForInbox, [DNext]_vars
      PROVE  SentInv' /\ SuspectNotForInbox'
  <2>1. CASE [Next]_smtpVars
    BY <1>2, <2>1, SentStep, SuspectStep DEF DeliveryInv, DTypeOK
  <2>2. CASE UNCHANGED session /\ \A c \in Conns : phase'[c] \in {phase[c], "none", "closed"}
    <3>1. SentInv'
      BY <1>2, <2>2, SentStays DEF SentInv, session
    <3>2. SuspectNotForInbox'
      BY <1>2, <2>2 DEF SuspectNotForInbox, session
    <3> QED
      BY <3>1, <3>2
  <2> QED
    BY <1>2, <2>1, <2>2, OthersStandBy
<1> QED
  BY <1>1, <1>2, DeliveryInvariant, PTL DEF DSpec

\* Authorised senders and relaying, the one Sent copy, no inbox for a suspect message and
\* no session twice in a queue: the workers and the crashes, which SmtpServer alone does
\* not know, take none of it away.
THEOREM ServerKeepsPromises ==
    DSpec => [](/\ LocalSenderVouched /\ RelayAuthorised
                /\ SentCopy /\ SuspectNotForInbox /\ QueuedOnce)
<1>1. DeliveryInv /\ SentInv => LocalSenderVouched /\ RelayAuthorised /\ SentCopy /\ QueuedOnce
  BY SentFollows, QueuedFollows
  DEF DeliveryInv, DTypeOK, SenderInv, SenderKnown, RelayAuthorised
<1> QED
  BY <1>1, ServedInv, PTL

\* Nor does any step of theirs change a settled sender or take a recipient away from a
\* session that they share with its connection's thread.
THEOREM SessionsStayTrue == DSpec => SenderSettled /\ RecipientsKept
<1> DEFINE Keeps == \A c \in Conns : /\ IsPrefix(Recipients(c), Recipients(c)')
                                     /\ IsPrefix(relayTasks[c], relayTasks'[c])
<1>1. DeliveryInv /\ [DNext]_vars => [Settled]_smtpVars /\ [Keeps]_smtpVars
  <2> SUFFICES ASSUME DeliveryInv, [DNext]_vars
               PROVE  Settled /\ Keeps
    OBVIOUS
  <2>1. CASE [Next]_smtpVars
    BY <2>1, SettledStep, RecipientsStep DEF DeliveryInv, DTypeOK
  <2>2. CASE UNCHANGED session
    <3>1. Settled
      BY <2>2 DEF Settled, session
    <3>2. ASSUME NEW c \in Conns
          PROVE  /\ IsPrefix(Recipients(c), Recipients(c)')
                 /\ IsPrefix(relayTasks[c], relayTasks'[c])
      <4>1. /\ storageTasks'[c] = storageTasks[c] /\ relayTasks'[c] = relayTasks[c]
            /\ storageTasks[c] \in Seq(StorageTask) /\ relayTasks[c] \in Seq(Remotes)
        BY <2>2 DEF session, DeliveryInv, DTypeOK, TypeOK
      <4> QED
        BY <4>1, PrefixSame, RecipientsStay, RecipientsAre
    <3> QED
      BY <3>1, <3>2
  <2> QED
    BY <2>1, <2>2, OthersStandBy
<1> QED
  BY <1>1, DeliveryInvariant, PTL DEF DSpec, SenderSettled, Settled, RecipientsKept

-----------------------------------------------------------------------------
(* What the workers promise *)

\* Every variable keeps its type: the numbers of recipients left and of errors are never
\* negative, and a thread that works has a session in hand.
THEOREM DTypeCorrect == DSpec => []DTypeOK
<1>1. DeliveryInv => DTypeOK
  BY DEF DeliveryInv
<1> QED
  BY <1>1, DeliveryInvariant, PTL

\* The storage thread works off a session's tasks in their order, each once, whatever
\* commands, crashes and other sessions come between (DatabaseWorker.src.cc 55-80).
THEOREM TasksFiledInOrder == DSpec => []FiledInOrder
<1>1. DeliveryInv => FiledInOrder
  <2> SUFFICES ASSUME DeliveryInv, NEW c \in Conns
               PROVE  /\ Len(filed[c]) <= Len(storageTasks[c])
                      /\ \A i \in DOMAIN filed[c] : filed[c][i].task = storageTasks[c][i]
    BY DEF FiledInOrder
  <2>1. DOMAIN filed[c] = 1 .. Len(filed[c])
    <3>1. filed[c] \in Seq(FiledTask)
      BY DEF DeliveryInv, DTypeOK
    <3> QED
      BY <3>1, LenProperties
  <2> QED
    BY <2>1 DEF DeliveryInv, FileInv
<1> QED
  BY <1>1, DeliveryInvariant, PTL

\* No remote recipient is tried more often than the client named him, after a failure, a
\* crash or a RCPT TO that arrives when the session is queued
\* (TransmissionWorker.src.cc 78-124).
THEOREM RelayedOnce == DSpec => []RelayedAtMostOnce
<1>1. DeliveryInv => RelayedAtMostOnce
  <2> SUFFICES ASSUME DeliveryInv, NEW c \in Conns, NEW r \in Remotes
               PROVE  Occurs(r, tried[c]) <= Occurs(r, relayTasks[c])
    BY DEF RelayedAtMostOnce
  <2> DEFINE attempts == {i \in DOMAIN tried[c] : tried[c][i] = r}
             wanted == {i \in DOMAIN relayTasks[c] : relayTasks[c][i] = r}
  <2>1. /\ DOMAIN tried[c] = 1 .. Len(tried[c]) /\ Len(tried[c]) \in Nat
        /\ DOMAIN relayTasks[c] = 1 .. Len(relayTasks[c]) /\ Len(relayTasks[c]) \in Nat
    <3>1. tried[c] \in Seq(Remotes) /\ relayTasks[c] \in Seq(Remotes)
      BY DEF DeliveryInv, DTypeOK, TypeOK
    <3> QED
      BY <3>1, LenProperties
  <2>2. attempts \in SUBSET wanted
    BY <2>1 DEF DeliveryInv, RelayInv, Grows
  <2>3. IsFiniteSet(wanted)
    <3>1. IsFiniteSet(1 .. Len(relayTasks[c]))
      BY <2>1, FS_Interval
    <3>2. wanted \in SUBSET (1 .. Len(relayTasks[c]))
      BY <2>1
    <3> HIDE DEF wanted
    <3> QED
      BY <3>1, <3>2, FS_Subset
  <2>4. Cardinality(attempts) <= Cardinality(wanted)
    <3> HIDE DEF attempts, wanted
    <3> QED
      BY <2>2, <2>3, FS_Subset
  <2> QED
    BY <2>4 DEF Occurs
<1> QED
  BY <1>1, DeliveryInvariant, PTL

\* Nothing of a session is seen outside the server before its client was told that the
\* message is queued (data.src.cc 303-306).
THEOREM NothingLeavesEarly == DSpec => []NothingBeforeReply
<1>1. DeliveryInv => NothingBeforeReply
  <2> SUFFICES ASSUME DeliveryInv, NEW c \in Conns,
                      filed[c] # <<>> \/ tried[c] # <<>> \/ reports[c] > 0
               PROVE  /\ "DATA_START" \in actions[c]
                      /\ phase[c] \notin {"body", "file", "reply"}
    BY DEF NothingBeforeReply
  <2>1. FileInv(c) /\ RelayInv(c)
    BY DEF DeliveryInv
  <2>2. MayStore(c)
    BY <2>1 DEF FileInv, RelayInv, MayRelay
  <2> QED
    BY <2>2 DEF MayStore, Unread
<1> QED
  BY <1>1, DeliveryInvariant, PTL

\* A report goes once, to a sender who proved his password, and not against nerror
\* (TransmissionWorker.src.cc 43-67, 128-134).
THEOREM ReportsAreOwed == DSpec => []NoBackscatter
<1>1. DeliveryInv => NoBackscatter
  <2> SUFFICES ASSUME DeliveryInv, NEW c \in Conns, reports[c] > 0
               PROVE  /\ reports[c] = 1
                      /\ transportFrom[c] \in verified[c]
                      /\ ~xfannst[c].nerror
    BY DEF NoBackscatter
  <2>1. RelayInv(c) /\ reports[c] \in Nat
    BY DEF DeliveryInv, DTypeOK
  <2>2. relayTasks[c] # <<>>
    BY <2>1 DEF RelayInv
  <2>3. transportFrom[c] \in verified[c]
    BY <2>2 DEF DeliveryInv, SenderInv, SenderKnown
  <2> QED
    BY <2>1, <2>3 DEF RelayInv
<1> QED
  BY <1>1, DeliveryInvariant, PTL
=============================================================================
