---------------------------- MODULE StoreProofs -----------------------------
(* Theorems about MailStore and the sessions of Pop3 on it, for every set  *)
(* of clients, accounts and mailboxes and any number of messages and       *)
(* faults.  A session's step is one of MailStore's or none, so what is     *)
(* proved first of the store holds with any number of sessions at work.    *)
EXTENDS Pop3, FiniteSetTheorems, SequenceTheorems, TLAPS

-----------------------------------------------------------------------------
(* Types *)

\* There are finitely many shortcuts to count, and the message in hand has
\* been numbered.
StoreShape ==
    /\ IsFiniteSet(shortcuts)
    /\ step # "idle" => id # 0

\* One step keeps the types.
LEMMA StoreTypeStep == StoreTypeOK /\ StoreShape /\ [StoreNext]_storeVars => StoreTypeOK'
<1> SUFFICES ASSUME StoreTypeOK, StoreShape, [StoreNext]_storeVars
             PROVE  StoreTypeOK'
  OBVIOUS
<1> USE StoreConstants
    DEF StoreTypeOK, cassandra, redis, task, Steps, Key, Ids
<1>1. CASE UNCHANGED storeVars
  BY <1>1 DEF storeVars
<1>2. ASSUME NEW a \in Accounts, NEW m \in Mailboxes, NewTask(a, m)
      PROVE  StoreTypeOK'
  BY <1>2 DEF NewTask
<1>3. CASE GetUID
  BY <1>3 DEF GetUID
<1>4. CASE RestoreUID
  <2>1. \A s \in Of(account) : s.uid \in Nat
    BY DEF Of, Shortcut
  <2>2. uid' \in Nat
    BY <1>4, <2>1 DEF RestoreUID
  <2> QED
    BY <1>4, <2>2 DEF RestoreUID
<1>5. CASE SetUID
  BY <1>5 DEF SetUID
<1>6. CASE GetStatus
  BY <1>6 DEF GetStatus
<1>7. CASE ClearRecent
  BY <1>7 DEF ClearRecent, Written
<1>8. CASE RestoreStatus
  <2>1. Cardinality(In(account, mailbox)) \in Nat
    BY FS_Subset, FS_CardinalityType DEF StoreShape, In
  <2>2. old' \in Counters
    BY <1>8, <2>1 DEF RestoreStatus, Counters, MessageCount
  <2> QED
    BY <1>8, <2>2 DEF RestoreStatus
<1>9. CASE SaveStatus
  BY <1>9 DEF SaveStatus
<1>10. CASE AddOne
  BY <1>10 DEF AddOne, Written, Counters
<1>11. step # "idle" => NewShortcut \in Shortcut
  BY DEF NewShortcut, Shortcut, StoreShape
<1>12. CASE SaveShortcut
  BY <1>11, <1>12 DEF SaveShortcut
<1>13. CASE SaveRaw
  BY <1>13 DEF SaveRaw, StoreShape
<1>14. CASE PartialStatus
  BY <1>14 DEF PartialStatus, GiveUp, StoreShape
<1>15. CASE TaskFails
  BY <1>15 DEF TaskFails, Fault, GiveUp, StoreShape
<1>16. CASE LateInsert
  BY <1>11, <1>16 DEF LateInsert, Fault, GiveUp, StoreShape
<1>17. ASSUME NEW a \in Accounts, EvictUID(a)
       PROVE  StoreTypeOK'
  BY <1>17 DEF EvictUID, Fault
<1>18. ASSUME NEW k \in Accounts \X Mailboxes, EvictStatus(k)
       PROVE  StoreTypeOK'
  <2>1. Zero \in Counters
    BY DEF Zero, Counters
  <2> QED
    BY <1>18, <2>1 DEF EvictStatus, Fault
<1>19. CASE Expunge
  BY <1>19 DEF Expunge, DeleteShortcut
<1>20. CASE ExpungeRaw
  BY <1>20 DEF ExpungeRaw, DeleteRaw
<1> QED
  BY <1>1, <1>2, <1>3, <1>4, <1>5, <1>6, <1>7, <1>8, <1>9, <1>10, <1>12,
     <1>13, <1>14, <1>15, <1>16, <1>17, <1>18, <1>19, <1>20
  DEF StoreNext, StorageStep, Environment, Sleep

\* The shortcuts change by the one being saved or by one POP3 deletes.
LEMMA ShortcutChange ==
    ASSUME [StoreNext]_storeVars
    PROVE  \/ shortcuts' = shortcuts
           \/ (SaveShortcut \/ LateInsert) /\ shortcuts' = shortcuts \cup {NewShortcut}
           \/ Expunge /\ shortcuts' \subseteq shortcuts
BY DEF StoreNext, StorageStep, Environment, storeVars, cassandra, Sleep, NewTask,
       GetUID, RestoreUID, SetUID, GetStatus, ClearRecent, RestoreStatus,
       SaveStatus, AddOne, SaveShortcut, SaveRaw, PartialStatus, GiveUp,
       TaskFails, LateInsert, EvictUID, EvictStatus, Expunge, DeleteShortcut,
       ExpungeRaw, DeleteRaw

\* One step keeps the shape of the store: a saved message's id is one already
\* given out (DatabaseWorker.src.cc 131-165).
LEMMA StoreShapeStep == StoreTypeOK /\ StoreShape /\ [StoreNext]_storeVars => StoreShape'
<1> SUFFICES ASSUME StoreTypeOK, StoreShape, [StoreNext]_storeVars
             PROVE  StoreShape'
  OBVIOUS
<1>1. IsFiniteSet(shortcuts')
  BY ShortcutChange, FS_AddElement, FS_Subset DEF StoreShape
<1>2. step' # "idle" => id' # 0
  BY DEF StoreTypeOK, StoreShape, StoreNext, StorageStep, Environment, storeVars,
         task, Sleep, NewTask, GetUID, RestoreUID, SetUID, GetStatus, ClearRecent,
         RestoreStatus, SaveStatus, AddOne, SaveShortcut, SaveRaw,
         PartialStatus, GiveUp, TaskFails, LateInsert, EvictUID, EvictStatus,
         Expunge, DeleteShortcut, ExpungeRaw, DeleteRaw
<1> QED
  BY <1>1, <1>2 DEF StoreShape

\* Types and shape hold throughout.
LEMMA StoreShapeCorrect == StoreSpec => [](StoreTypeOK /\ StoreShape)
<1>1. StoreInit => StoreTypeOK /\ StoreShape
  BY StoreConstants, FS_EmptySet
  DEF StoreInit, StoreTypeOK, StoreShape, Steps, Counters, Zero, Ids
<1> QED
  BY <1>1, StoreTypeStep, StoreShapeStep, PTL DEF StoreSpec

\* Both databases and the task in hand keep their types.
THEOREM StoreTypeCorrect == StoreSpec => []StoreTypeOK
BY StoreShapeCorrect, PTL

-----------------------------------------------------------------------------
(* Unique UIDs.  The cached highest UID and the one in hand may each be    *)
(* behind the account's shortcuts for a while, never both at the moment a  *)
(* shortcut is saved.                                                      *)

Numbered == {"get_status", "clear_recent", "save_status", "add_one", "save_shortcut"}

UIDBounds ==
    /\ \A s \in shortcuts : uidHolder[s.account] # 0 => s.uid <= uidHolder[s.account]
    /\ step = "set_uid" => \A s \in Of(account) : s.uid <= uid
    /\ step \in Numbered =>
          /\ \A s \in Of(account) : s.uid < uid
          /\ uidHolder[account] # 0 => uid <= uidHolder[account]

\* One step keeps the UIDs in bounds and unique.
LEMMA UIDStep ==
    StoreTypeOK /\ StoreShape /\ UIDBounds /\ UIDsUnique /\ [StoreNext]_storeVars
        => (UIDBounds /\ UIDsUnique)'
<1> SUFFICES ASSUME StoreTypeOK, StoreShape, UIDBounds, UIDsUnique, [StoreNext]_storeVars
             PROVE  (UIDBounds /\ UIDsUnique)'
  OBVIOUS
<1> USE DEF UIDBounds, UIDsUnique, Numbered, Of
<1>1. \A s \in shortcuts : s.uid \in Nat /\ s.account \in Accounts
  BY DEF StoreTypeOK, Shortcut
<1>2. /\ uid \in Nat /\ account \in Accounts
      /\ uidHolder \in [Accounts -> Nat]
  BY DEF StoreTypeOK
<1>3. ASSUME shortcuts' \subseteq shortcuts,
             UNCHANGED <<uidHolder, step, account, uid>>
      PROVE  (UIDBounds /\ UIDsUnique)'
  BY <1>3
<1>4. ASSUME shortcuts' = shortcuts, UNCHANGED <<uidHolder, account, uid>>,
             step' \in Numbered => step \in Numbered, step' # "set_uid"
      PROVE  (UIDBounds /\ UIDsUnique)'
  BY <1>4
<1>5. CASE UNCHANGED storeVars
  BY <1>3, <1>5 DEF storeVars, cassandra, redis, task
<1>6. ASSUME NEW a \in Accounts, NEW m \in Mailboxes, NewTask(a, m)
      PROVE  (UIDBounds /\ UIDsUnique)'
  BY <1>6 DEF NewTask, cassandra, redis
<1>7. CASE GetUID
  BY <1>1, <1>2, <1>7 DEF GetUID, cassandra, redis, task
<1>8. CASE RestoreUID
  BY <1>1, <1>2, <1>8 DEF RestoreUID, cassandra, redis, task
<1>9. CASE SetUID
  <2>1. /\ step = "set_uid" /\ step' = "get_status" /\ uid' = uid + 1
        /\ UNCHANGED <<shortcuts, account>>
        /\ uidHolder' = [uidHolder EXCEPT ![account] = uid + 1]
    BY <1>9 DEF SetUID, cassandra, task
  <2>2. \A s \in shortcuts : s.account = account => s.uid <= uid
    BY <2>1
  <2>3. \A s \in shortcuts : s.account = account => s.uid < uid + 1 /\ s.uid <= uid + 1
    BY <1>1, <1>2, <2>2
  <2>4. uidHolder'[account] = uid'
    BY <1>2, <2>1
  <2> QED
    BY <1>1, <1>2, <2>1, <2>3, <2>4
<1>10. CASE GetStatus \/ ClearRecent \/ RestoreStatus \/ SaveStatus \/ AddOne
  BY <1>4, <1>10 DEF GetStatus, ClearRecent, RestoreStatus, SaveStatus, AddOne,
                     cassandra, redis, task
<1>11. CASE SaveRaw \/ PartialStatus \/ TaskFails
  BY <1>4, <1>11 DEF SaveRaw, PartialStatus, TaskFails, GiveUp, redis, task
<1>12. ASSUME step = "save_shortcut", step' \notin Numbered, step' # "set_uid",
              shortcuts' = shortcuts \cup {NewShortcut}, UNCHANGED uidHolder
       PROVE  (UIDBounds /\ UIDsUnique)'
  <2>1. NewShortcut.account = account /\ NewShortcut.uid = uid
    BY DEF NewShortcut
  <2>2. \A s \in shortcuts : s.account = NewShortcut.account => s.uid # NewShortcut.uid
    BY <1>1, <1>2, <1>12, <2>1
  <2>3. UIDsUnique'
    BY <1>12, <2>2
  <2> QED
    BY <1>12, <2>1, <2>3
<1>13. CASE SaveShortcut \/ LateInsert
  BY <1>12, <1>13 DEF SaveShortcut, LateInsert, GiveUp, redis
<1>14. ASSUME NEW a \in Accounts, EvictUID(a)
       PROVE  (UIDBounds /\ UIDsUnique)'
  BY <1>1, <1>2, <1>14 DEF EvictUID, cassandra, task
<1>15. ASSUME NEW k \in Accounts \X Mailboxes, EvictStatus(k)
       PROVE  (UIDBounds /\ UIDsUnique)'
  BY <1>3, <1>15 DEF EvictStatus, cassandra, task
<1>16. CASE Expunge \/ ExpungeRaw
  BY <1>3, <1>16 DEF Expunge, ExpungeRaw, DeleteShortcut, DeleteRaw, redis, task
<1> QED
  BY <1>5, <1>6, <1>7, <1>8, <1>9, <1>10, <1>11, <1>13, <1>14, <1>15, <1>16
  DEF StoreNext, StorageStep, Environment, Sleep

\* No two messages of an account share a UID, whatever is evicted, fails or is
\* deleted (DatabaseWorker.src.cc 99-103, UIDHolder.src.cc 15-32).
THEOREM UIDsAreUnique == StoreSpec => []UIDsUnique
<1>1. StoreInit => UIDBounds /\ UIDsUnique
  BY DEF StoreInit, UIDBounds, UIDsUnique, Numbered
<1> QED
  BY <1>1, UIDStep, StoreShapeCorrect, PTL DEF StoreSpec

-----------------------------------------------------------------------------
(* The unseen counter.  Between reading the counters and saving the        *)
(* shortcut the thread works from its own copy: the copy covers the        *)
(* mailbox until it is written back, and then there is room for one more.  *)

Count(k) == Cardinality(In(k[1], k[2]))

CoverInv ==
    /\ \A k \in Accounts \X Mailboxes : hash[k] = "full" => Count(k) <= counters[k].unseen
    /\ step \in {"clear_recent", "save_status", "add_one"} => Count(Key) <= old.unseen
    /\ step = "save_shortcut" /\ hash[Key] = "full" => Count(Key) + 1 <= counters[Key].unseen

\* How the shortcuts of a mailbox are counted: saving one adds at most one, to
\* its own mailbox; deleting adds none.
LEMMA Counted ==
    ASSUME StoreTypeOK, StoreShape, NEW k \in Accounts \X Mailboxes
    PROVE  /\ Count(k) \in Nat
           /\ shortcuts' \subseteq shortcuts => Count(k)' \in Nat /\ Count(k)' <= Count(k)
           /\ shortcuts' = shortcuts \cup {NewShortcut} =>
                 /\ Count(k)' \in Nat
                 /\ Count(k)' <= Count(k) + 1
                 /\ k # Key => Count(k)' = Count(k)
<1> DEFINE here == In(k[1], k[2])
<1>1. IsFiniteSet(here) /\ Cardinality(here) \in Nat
  BY FS_Subset, FS_CardinalityType DEF StoreShape, In
<1>2. ASSUME shortcuts' \subseteq shortcuts
      PROVE  Count(k)' \in Nat /\ Count(k)' <= Count(k)
  <2>1. here' \subseteq here
    BY <1>2 DEF In
  <2> HIDE DEF here
  <2>2. Cardinality(here') \in Nat /\ Cardinality(here') <= Cardinality(here)
    BY <1>1, <2>1, FS_Subset, FS_CardinalityType
  <2> QED
    BY <2>2 DEF Count, here
<1>3. ASSUME shortcuts' = shortcuts \cup {NewShortcut}
      PROVE  /\ Count(k)' \in Nat
             /\ Count(k)' <= Count(k) + 1
             /\ k # Key => Count(k)' = Count(k)
  <2>1. CASE k = Key
    <3>1. here' = here \cup {NewShortcut}
      BY <1>3, <2>1 DEF In, Key, NewShortcut
    <3> HIDE DEF here
    <3>2. /\ Cardinality(here') \in Nat
          /\ Cardinality(here') <= Cardinality(here) + 1
      <4>1. Cardinality(here') = Cardinality(here) \/ Cardinality(here') = Cardinality(here) + 1
        BY <1>1, <3>1, FS_AddElement
      <4> QED
        BY <1>1, <4>1
    <3> QED
      BY <2>1, <3>2 DEF Count, here
  <2>2. CASE k # Key
    <3>1. here' = here
      BY <1>3, <2>2 DEF In, Key, NewShortcut
    <3>2. Count(k)' = Count(k)
      BY <3>1 DEF Count
    <3> QED
      BY <1>1, <3>2 DEF Count
  <2> QED
    BY <2>1, <2>2
<1> QED
  BY <1>1, <1>2, <1>3 DEF Count

\* One step keeps the counters ahead of the messages.
LEMMA CoverStep ==
    StoreTypeOK /\ StoreShape /\ CoverInv /\ [StoreNext]_storeVars => CoverInv'
<1> SUFFICES ASSUME StoreTypeOK, StoreShape, CoverInv, [StoreNext]_storeVars
             PROVE  CoverInv'
  OBVIOUS
<1> DEFINE K == Accounts \X Mailboxes
<1>1. /\ hash \in [K -> {"none", "full", "partial"}]
      /\ counters \in [K -> Counters]
      /\ Key \in K /\ old \in Counters
  BY DEF StoreTypeOK, Key
<1>2. /\ \A k \in K : Count(k) \in Nat
      /\ \A k \in K : counters[k].unseen \in Nat
      /\ old.unseen \in Nat
  BY <1>1, Counted DEF Counters
<1> USE DEF CoverInv
<1>3. UNCHANGED task => Key' = Key
  BY DEF task, Key
<1>4. shortcuts' = shortcuts => \A k \in K : Count(k)' = Count(k)
  BY DEF Count, In
<1>5. shortcuts' = shortcuts /\ UNCHANGED task => Count(Key)' = Count(Key)
  BY DEF Count, In, Key, task
<1>6. CASE UNCHANGED storeVars
  BY <1>3, <1>4, <1>5, <1>6 DEF storeVars, cassandra, redis
<1>7. ASSUME NEW a \in Accounts, NEW m \in Mailboxes, NewTask(a, m)
      PROVE  CoverInv'
  BY <1>4, <1>7 DEF NewTask, cassandra, redis
<1>8. CASE GetUID \/ RestoreUID \/ SetUID
  BY <1>4, <1>8 DEF GetUID, RestoreUID, SetUID, cassandra, redis
<1>9. CASE GetStatus
  BY <1>1, <1>4, <1>5, <1>9 DEF GetStatus, cassandra, redis
<1>10. CASE ClearRecent
  <2>1. \A k \in K : hash'[k] = "full" => hash[k] = "full"
    BY <1>1, <1>10 DEF ClearRecent, Written
  <2> QED
    BY <1>4, <1>5, <1>10, <2>1 DEF ClearRecent, cassandra
<1>11. CASE RestoreStatus
  <2>1. old'.unseen = Count(Key)
    BY <1>11 DEF RestoreStatus, Count, Key
  <2> QED
    BY <1>1, <1>2, <1>4, <1>5, <1>11, <2>1 DEF RestoreStatus, cassandra, redis
<1>12. CASE SaveStatus
  BY <1>1, <1>4, <1>5, <1>12 DEF SaveStatus, cassandra
<1>13. CASE AddOne
  <2>1. /\ \A k \in K : hash'[k] = "full" => hash[k] = "full"
        /\ \A k \in K \ {Key} : counters'[k] = counters[k]
        /\ counters'[Key].unseen = old.unseen + 1
        /\ Key' = Key /\ step' = "save_shortcut" /\ shortcuts' = shortcuts
        /\ Count(Key) <= old.unseen
    BY <1>1, <1>3, <1>13 DEF AddOne, Written, cassandra
  <2>2. Count(Key) + 1 <= old.unseen + 1 /\ Count(Key) <= old.unseen + 1
    BY <1>1, <1>2, <2>1
  <2>3. Count(Key)' = Count(Key) /\ \A k \in K : Count(k)' = Count(k)
    BY <1>4, <1>5, <1>13, <2>1 DEF AddOne
  <2>4. \A k \in K : hash'[k] = "full" => Count(k)' <= counters'[k].unseen
    BY <2>1, <2>2, <2>3
  <2> QED
    BY <2>1, <2>2, <2>3, <2>4
<1>14. ASSUME step = "save_shortcut", step' \in {"save_raw", "idle"},
              shortcuts' = shortcuts \cup {NewShortcut}, UNCHANGED <<hash, counters>>
       PROVE  CoverInv'
  <2>1. \A k \in K : /\ Count(k)' \in Nat
                     /\ Count(k)' <= Count(k) + 1
                     /\ k # Key => Count(k)' = Count(k)
    BY <1>14, Counted
  <2>2. ASSUME NEW k \in K, hash[k] = "full"
        PROVE  Count(k)' <= counters[k].unseen
    <3>1. CASE k = Key
      BY <1>1, <1>2, <1>14, <2>1, <2>2, <3>1
    <3>2. CASE k # Key
      BY <2>1, <2>2, <3>2
    <3> QED
      BY <3>1, <3>2
  <2> QED
    BY <1>14, <2>2
<1>15. CASE SaveShortcut \/ LateInsert
  BY <1>14, <1>15 DEF SaveShortcut, LateInsert, GiveUp, redis
<1>16. CASE SaveRaw \/ PartialStatus \/ TaskFails
  BY <1>4, <1>16 DEF SaveRaw, PartialStatus, TaskFails, GiveUp, redis
<1>17. ASSUME NEW a \in Accounts, EvictUID(a)
       PROVE  CoverInv'
  BY <1>3, <1>4, <1>5, <1>17 DEF EvictUID, cassandra
<1>18. ASSUME NEW k \in K, EvictStatus(k)
       PROVE  CoverInv'
  BY <1>1, <1>3, <1>4, <1>5, <1>18 DEF EvictStatus, cassandra
<1>19. CASE Expunge \/ ExpungeRaw
  <2>1. /\ UNCHANGED <<hash, counters, step, old>> /\ Key' = Key
        /\ shortcuts' \subseteq shortcuts
    BY <1>3, <1>19 DEF Expunge, ExpungeRaw, DeleteShortcut, DeleteRaw, redis
  <2>2. \A k \in K : Count(k)' \in Nat /\ Count(k)' <= Count(k)
    BY <2>1, Counted
  <2>3. Count(Key)' \in Nat /\ Count(Key)' <= Count(Key)
    BY <1>1, <2>1, <2>2 DEF Count, In
  <2> QED
    BY <1>1, <1>2, <2>1, <2>2, <2>3
<1> QED
  BY <1>6, <1>7, <1>8, <1>9, <1>10, <1>11, <1>12, <1>13, <1>15, <1>16, <1>17, <1>18, <1>19
  DEF StoreNext, StorageStep, Environment, Sleep

\* The unseen counter never falls short of the messages: counted before they
\* are saved, recounted after a loss (MailboxStatus.src.cc 168-287).
THEOREM UnseenCoversMessages == StoreSpec => []UnseenCovers
<1>1. StoreInit => CoverInv
  BY DEF StoreInit, CoverInv
<1>2. CoverInv => UnseenCovers
  BY DEF CoverInv, UnseenCovers, Count
<1> QED
  BY <1>1, <1>2, CoverStep, StoreShapeCorrect, PTL DEF StoreSpec

-----------------------------------------------------------------------------
(* Listed messages *)

\* One step keeps every listed message readable.
LEMMA ListedStep ==
    StoreTypeOK /\ ListedIsReadable /\ [StoreNext]_storeVars => ListedIsReadable'
<1> SUFFICES ASSUME StoreTypeOK, ListedIsReadable, [StoreNext]_storeVars
             PROVE  ListedIsReadable'
  OBVIOUS
<1> USE DEF ListedIsReadable, cassandra, redis, task
<1>1. ASSUME shortcuts' \subseteq shortcuts, UNCHANGED <<raws, id, broken>>,
             step' = "save_raw" <=> step = "save_raw"
      PROVE  ListedIsReadable'
  BY <1>1
<1>2. CASE UNCHANGED storeVars
  BY <1>1, <1>2 DEF storeVars
<1>3. ASSUME NEW a \in Accounts, NEW m \in Mailboxes, NewTask(a, m)
      PROVE  ListedIsReadable'
  BY <1>3 DEF NewTask
<1>4. CASE GetUID \/ RestoreUID \/ SetUID
  BY <1>1, <1>4 DEF GetUID, RestoreUID, SetUID
<1>5. CASE GetStatus \/ ClearRecent \/ RestoreStatus \/ SaveStatus \/ AddOne
  BY <1>1, <1>5 DEF GetStatus, ClearRecent, RestoreStatus, SaveStatus, AddOne
<1>6. CASE SaveShortcut
  BY <1>6 DEF SaveShortcut, NewShortcut
<1>7. CASE SaveRaw
  BY <1>7 DEF SaveRaw
<1>8. CASE PartialStatus \/ TaskFails
  BY <1>8 DEF PartialStatus, TaskFails, GiveUp
<1>9. CASE LateInsert
  BY <1>9 DEF LateInsert, GiveUp, NewShortcut
<1>10. ASSUME NEW a \in Accounts, EvictUID(a)
       PROVE  ListedIsReadable'
  BY <1>1, <1>10 DEF EvictUID
<1>11. ASSUME NEW k \in Accounts \X Mailboxes, EvictStatus(k)
       PROVE  ListedIsReadable'
  BY <1>1, <1>11 DEF EvictStatus
<1>12. CASE Expunge
  BY <1>1, <1>12 DEF Expunge, DeleteShortcut
<1>13. CASE ExpungeRaw
  BY <1>13 DEF ExpungeRaw, DeleteRaw
<1> QED
  BY <1>2, <1>3, <1>4, <1>5, <1>6, <1>7, <1>8, <1>9, <1>10, <1>11, <1>12, <1>13
  DEF StoreNext, StorageStep, Environment, Sleep

\* A message that can be listed can be read, unless its saving was cut short
\* (DatabaseWorker.src.cc 156-165, P3Server.src.cc 153-190).
THEOREM ListedAreReadable == StoreSpec => []ListedIsReadable
<1>1. StoreInit => ListedIsReadable
  BY DEF StoreInit, ListedIsReadable
<1> QED
  BY <1>1, ListedStep, StoreTypeCorrect, PTL DEF StoreSpec

-----------------------------------------------------------------------------
(* Messages keep their identity.  An id is used once its message can have  *)
(* been saved; no message is saved under a used id.                        *)

Saving == Steps \ {"idle", "save_raw"}
Used(n) == n < id \/ (n = id /\ step \notin Saving)

IdsOnce ==
    /\ \A s \in shortcuts : Used(s.id)
    /\ \A s, t \in shortcuts : s.id = t.id => s = t

\* A used id stays used.
LEMMA UsedStays ==
    ASSUME StoreTypeOK, [StoreNext]_storeVars, NEW n \in Nat, Used(n)
    PROVE  Used(n)'
<1>1. id \in Nat
  BY StoreConstants DEF StoreTypeOK
<1>2. CASE \E a \in Accounts, m \in Mailboxes : NewTask(a, m)
  BY <1>1, <1>2 DEF NewTask, Used
<1>3. CASE ~ \E a \in Accounts, m \in Mailboxes : NewTask(a, m)
  <2>1. id' = id /\ (step \notin Saving => step' \notin Saving)
    BY <1>3 DEF StoreNext, StorageStep, Environment, storeVars, task, Sleep, GetUID,
           RestoreUID, SetUID, GetStatus, ClearRecent, RestoreStatus, SaveStatus, AddOne,
           SaveShortcut, SaveRaw, PartialStatus, GiveUp, TaskFails, LateInsert, EvictUID,
           EvictStatus, Expunge, DeleteShortcut, ExpungeRaw, DeleteRaw, Saving, Steps
  <2> QED
    BY <2>1 DEF Used
<1> QED
  BY <1>2, <1>3

\* What the store's step does to the listed messages: one goes that is an
\* inbox's, or one comes under an id that was not used.
LEMMA FreshId ==
    ASSUME StoreTypeOK, [StoreNext]_storeVars,
           NEW s \in shortcuts', s \notin shortcuts
    PROVE  /\ ~Used(s.id) /\ Used(s.id)'
           /\ shortcuts' = shortcuts \cup {s}
<1>1. id \in Nat
  BY StoreConstants DEF StoreTypeOK
<1>2. /\ SaveShortcut \/ LateInsert
      /\ shortcuts' = shortcuts \cup {NewShortcut}
  BY ShortcutChange
<1>3. s.id = id /\ s = NewShortcut
  BY <1>2 DEF NewShortcut
<1>4. step = "save_shortcut" /\ step' \notin Saving /\ id' = id
  BY <1>2 DEF SaveShortcut, LateInsert, GiveUp, task, Saving
<1> QED
  BY <1>1, <1>2, <1>3, <1>4 DEF Used, Saving, Steps

\* No two messages share an id.
LEMMA IdsOnceStep ==
    ASSUME StoreTypeOK, IdsOnce, [StoreNext]_storeVars
    PROVE  IdsOnce'
<1>1. \A s \in shortcuts : s.id \in Nat
  BY StoreConstants DEF StoreTypeOK, Shortcut, Ids
<1>2. \A s \in shortcuts' : Used(s.id)'
  BY <1>1, UsedStays, FreshId DEF IdsOnce
<1>3. ASSUME NEW s \in shortcuts', NEW t \in shortcuts', s.id = t.id
      PROVE  s = t
  <2>1. CASE s \in shortcuts /\ t \in shortcuts
    BY <1>3, <2>1 DEF IdsOnce
  <2>2. CASE s \notin shortcuts
    <3>1. ~Used(s.id) /\ shortcuts' = shortcuts \cup {s}
      BY <2>2, FreshId
    <3> QED
      BY <1>3, <3>1 DEF IdsOnce
  <2>3. CASE t \notin shortcuts
    <3>1. ~Used(t.id) /\ shortcuts' = shortcuts \cup {t}
      BY <2>3, FreshId
    <3> QED
      BY <1>3, <3>1 DEF IdsOnce
  <2> QED
    BY <2>1, <2>2, <2>3
<1> QED
  BY <1>2, <1>3 DEF IdsOnce

-----------------------------------------------------------------------------
(* A session's references                                                  *)

\* Only who proved his password holds references; they name messages of his
\* inbox, as long as these exist; the raw message that is to go next is listed
\* no more.
Holds(p) ==
    /\ ~Authenticated(p) => references[p] = <<>> /\ graveyard[p] = <<>>
    /\ \A i \in DOMAIN references[p] :
          /\ Used(references[p][i])
          /\ \A s \in shortcuts : s.id = references[p][i] =>
                s.mailbox = Inbox /\ s.account = proved[p]
    /\ phase[p] = "bury_raw" =>
          /\ graveyard[p] # <<>>
          /\ \A s \in shortcuts : s.id # references[p][Head(graveyard[p])]

Pop3Inv == StoreShape /\ IdsOnce /\ \A p \in Clients : Holds(p)

\* The types of one session; what it buries next is one of its references.
LEMMA SessionTypes ==
    ASSUME TypeOK, NEW p \in Clients
    PROVE  /\ phase[p] \in Phases
           /\ references[p] \in Seq(Ids) /\ graveyard[p] \in Seq(Nat)
           /\ \A i \in DOMAIN references[p] : references[p][i] \in Nat
           /\ graveyard[p] # <<>> =>
                 /\ Head(graveyard[p]) \in DOMAIN references[p]
                 /\ references[p][Head(graveyard[p])] \in Marked(p)
<1>1. /\ phase[p] \in Phases
      /\ references[p] \in Seq(Ids) /\ graveyard[p] \in Seq(Nat)
      /\ \A j \in DOMAIN graveyard[p] : graveyard[p][j] \in DOMAIN references[p]
  BY DEF TypeOK
<1>2. \A i \in DOMAIN references[p] : references[p][i] \in Nat
  BY <1>1, StoreConstants, LenProperties DEF Ids
<1>3. ASSUME graveyard[p] # <<>>
      PROVE  /\ Head(graveyard[p]) \in DOMAIN references[p]
             /\ references[p][Head(graveyard[p])] \in Marked(p)
  <2>1. Head(graveyard[p]) = graveyard[p][1] /\ 1 \in DOMAIN graveyard[p]
    BY <1>1, <1>3, EmptySeq, LenProperties
  <2> QED
    BY <1>1, <2>1 DEF Marked
<1> QED
  BY <1>1, <1>2, <1>3

-----------------------------------------------------------------------------
(* The store sees nothing but its own steps                                *)

\* When a thread dies with the others, the storage thread's task is cut short
\* or there was none.
LEMMA Dies ==
    ASSUME IF step = "idle" THEN UNCHANGED storeVars ELSE TaskFails
    PROVE  [StoreNext]_storeVars
BY DEF StoreNext, Environment

\* Every step of a session, and of the storage thread, is the store's or none.
LEMMA StoreStep ==
    ASSUME TypeOK, Pop3Inv, [Next]_vars
    PROVE  [StoreNext]_storeVars
<1>1. CASE UNCHANGED vars
  BY <1>1 DEF vars
<1>2. CASE Storage
  BY <1>2 DEF Storage, StoreNext
<1>3. ASSUME NEW p \in Clients, Session(p)
      PROVE  [StoreNext]_storeVars
  <2>1. CASE \/ Connect(p) \/ Answer(p) \/ Pass(p) \/ Rset(p) \/ LeaveLoop(p) \/ RetrGone(p)
             \/ \E a \in Accounts : User(p, a)
             \/ \E i \in 1 .. MaxMessages : Dele(p, i)
             \/ BuryFails(p) \/ Disconnected(p)
    BY <2>1 DEF Connect, Answer, Pass, Rset, LeaveLoop, RetrGone, User, Dele, BuryFails,
                Disconnected, Command
  <2>2. CASE GreetingFails(p) \/ ErrorReplyFails(p) \/ ReadPastEnd(p)
    BY <2>2, Dies DEF GreetingFails, ErrorReplyFails, ReadPastEnd, Terminate
  <2>3. CASE BuryShortcut(p)
    <3> DEFINE n == references[p][Head(graveyard[p])]
    <3>1. DeleteShortcut(n)
      BY <2>3 DEF BuryShortcut
    <3> HIDE DEF n
    <3>2. CASE \E s \in shortcuts : s.id = n /\ s.mailbox = Inbox
      BY <3>1, <3>2 DEF StoreNext, Expunge
    <3>3. CASE \A s \in shortcuts : ~(s.id = n /\ s.mailbox = Inbox)
      BY <3>1, <3>3 DEF DeleteShortcut, storeVars, cassandra
    <3> QED
      BY <3>2, <3>3
  <2>4. CASE BuryRaw(p)
    <3> DEFINE n == references[p][Head(graveyard[p])]
    <3>1. DeleteRaw(n) /\ \A s \in shortcuts : s.id # n
      BY <2>4 DEF BuryRaw, Pop3Inv, Holds
    <3> HIDE DEF n
    <3>2. CASE n \in raws
      BY <3>1, <3>2 DEF StoreNext, ExpungeRaw
    <3>3. CASE n \notin raws
      BY <3>1, <3>3 DEF DeleteRaw, storeVars, cassandra
    <3> QED
      BY <3>2, <3>3
  <2> QED
    BY <1>3, <2>1, <2>2, <2>3, <2>4 DEF Session
<1> QED
  BY <1>1, <1>2, <1>3 DEF Next

-----------------------------------------------------------------------------
(* One step keeps what a session holds                                     *)

\* A session that stays where it is keeps its references, whatever the store
\* does meanwhile: new mail comes under another id, mail only goes.
LEMMA HoldsStill ==
    ASSUME TypeOK, Pop3Inv, [StoreNext]_storeVars, NEW p \in Clients,
           references'[p] = references[p], graveyard'[p] = graveyard[p],
           proved'[p] = proved[p], phase'[p] = "bury_raw" => phase[p] = "bury_raw"
    PROVE  Holds(p)'
<1>1. StoreTypeOK /\ Holds(p)
  BY DEF TypeOK, Pop3Inv
<1>2. ASSUME NEW i \in DOMAIN references[p]
      PROVE  /\ Used(references[p][i])'
             /\ \A s \in shortcuts' : s.id = references[p][i] =>
                   s \in shortcuts /\ s.mailbox = Inbox /\ s.account = proved[p]
  <2>1. Used(references[p][i]) /\ references[p][i] \in Nat
    BY <1>1, SessionTypes DEF Holds
  <2>2. \A s \in shortcuts' : s.id = references[p][i] => s \in shortcuts
    BY <1>1, <2>1, FreshId
  <2> QED
    BY <1>1, <2>1, <2>2, UsedStays DEF Holds
<1>3. ASSUME phase[p] = "bury_raw"
      PROVE  /\ graveyard[p] # <<>>
             /\ \A s \in shortcuts' : s.id # references[p][Head(graveyard[p])]
  <2>1. /\ graveyard[p] # <<>>
        /\ \A s \in shortcuts : s.id # references[p][Head(graveyard[p])]
    BY <1>1, <1>3 DEF Holds
  <2>2. Head(graveyard[p]) \in DOMAIN references[p]
    BY <2>1, SessionTypes
  <2> QED
    BY <1>2, <2>1, <2>2
<1>4. ~Authenticated(p)' => references'[p] = <<>> /\ graveyard'[p] = <<>>
  BY <1>1 DEF Holds, Authenticated
<1> QED
  BY <1>2, <1>3, <1>4 DEF Holds

\* PASS takes in the inbox of the account whose password was given.
LEMMA HoldsPass ==
    ASSUME TypeOK, Pop3Inv, NEW p \in Clients, Pass(p)
    PROVE  Holds(p)' /\ references'[p] \in Seq(Ids)
<1>1. PICK s \in [1 .. Cardinality(In(user[p], Inbox)) -> Ids] :
        /\ IsListing(s, user[p])
        /\ references' = [references EXCEPT ![p] = s]
  BY DEF Pass
<1>2. Cardinality(In(user[p], Inbox)) \in Nat
  BY FS_Subset, FS_CardinalityType DEF Pop3Inv, StoreShape, In
<1>3. s \in Seq(Ids)
  BY <1>2, SeqDef
<1>4. /\ references'[p] = s
      /\ proved'[p] = user[p] /\ user[p] # NoAccount
      /\ phase' = phase /\ phase[p] = "command" /\ graveyard' = graveyard
      /\ UNCHANGED storeVars
      /\ ~Authenticated(p)
  BY <1>1 DEF Pass, Command, TypeOK
<1>5. Authenticated(p)'
  BY <1>4 DEF Authenticated
<1>6. UNCHANGED <<shortcuts, id, step>>
  BY <1>4 DEF storeVars, cassandra, task
<1>7. ASSUME NEW i \in DOMAIN s
      PROVE  /\ Used(s[i])'
             /\ \A t \in shortcuts : t.id = s[i] => t.mailbox = Inbox /\ t.account = user[p]
  <2>1. PICK t \in In(user[p], Inbox) : t.id = s[i]
    BY <1>1 DEF IsListing
  <2>2. Used(s[i])
    BY <2>1 DEF Pop3Inv, IdsOnce, In
  <2>3. \A u \in shortcuts : u.id = s[i] => u = t
    BY <2>1 DEF Pop3Inv, IdsOnce, In
  <2> QED
    BY <1>6, <2>1, <2>2, <2>3 DEF Used, In
<1> QED
  BY <1>3, <1>4, <1>5, <1>6, <1>7 DEF Holds

\* A mark names a message of the listing, like those before it.
LEMMA HoldsDele ==
    ASSUME TypeOK, Pop3Inv, NEW p \in Clients, NEW i \in 1 .. MaxMessages, Dele(p, i)
    PROVE  /\ Holds(p)'
           /\ graveyard'[p] \in Seq(Nat)
           /\ \A j \in DOMAIN graveyard'[p] : graveyard'[p][j] \in DOMAIN references[p]
<1> DEFINE longer == Append(graveyard[p], i)
<1>1. /\ graveyard[p] \in Seq(Nat) /\ i \in Nat /\ i \in DOMAIN references[p]
      /\ \A j \in DOMAIN graveyard[p] : graveyard[p][j] \in DOMAIN references[p]
  BY StoreConstants DEF Dele, TypeOK
<1>2. graveyard'[p] = longer
  BY DEF Dele, TypeOK
<1>3. /\ longer \in Seq(Nat) /\ longer # <<>>
      /\ Len(longer) = Len(graveyard[p]) + 1
      /\ \A j \in 1 .. Len(graveyard[p]) : longer[j] = graveyard[p][j]
      /\ longer[Len(graveyard[p]) + 1] = i
  BY <1>1, AppendProperties
<1>4. /\ Len(graveyard[p]) \in Nat
      /\ DOMAIN graveyard[p] = 1 .. Len(graveyard[p])
      /\ DOMAIN longer = 1 .. Len(graveyard[p]) + 1
  BY <1>1, <1>3, LenProperties
<1> HIDE DEF longer
<1>5. \A j \in DOMAIN longer : longer[j] \in DOMAIN references[p]
  <2>1. \A j \in 1 .. Len(graveyard[p]) + 1 :
            j \in 1 .. Len(graveyard[p]) \/ j = Len(graveyard[p]) + 1
    BY <1>4
  <2> QED
    BY <1>1, <1>3, <1>4, <2>1
<1>6. Holds(p)'
  BY DEF Dele, Command, storeVars, cassandra, task, Pop3Inv, Holds, Used, Authenticated
<1> QED
  BY <1>2, <1>3, <1>5, <1>6

\* The shortcut of the marked message goes, so it is listed no more.
LEMMA HoldsBuryShortcut ==
    ASSUME TypeOK, Pop3Inv, NEW p \in Clients, BuryShortcut(p)
    PROVE  Holds(p)'
<1> DEFINE n == references[p][Head(graveyard[p])]
<1>1. /\ graveyard[p] # <<>> /\ phase'[p] = "bury_raw"
      /\ shortcuts' = {s \in shortcuts : ~(s.id = n /\ s.mailbox = Inbox)}
      /\ UNCHANGED <<id, step, proved, references, graveyard>>
  BY DEF BuryShortcut, DeleteShortcut, task, Goto, TypeOK
<1>2. \A s \in shortcuts : s.id = n => s.mailbox = Inbox
  BY <1>1, SessionTypes DEF Pop3Inv, Holds
<1>3. \A s \in shortcuts' : s.id # n
  BY <1>1, <1>2
<1> QED
  BY <1>1, <1>3 DEF Pop3Inv, Holds, Used, Authenticated

\* The raw message goes, and its mark with it.
LEMMA HoldsBuryRaw ==
    ASSUME TypeOK, Pop3Inv, NEW p \in Clients, BuryRaw(p)
    PROVE  /\ Holds(p)'
           /\ graveyard'[p] \in Seq(Nat)
           /\ \A j \in DOMAIN graveyard'[p] : graveyard'[p][j] \in DOMAIN references[p]
<1>1. /\ graveyard[p] \in Seq(Nat) /\ graveyard[p] # <<>>
      /\ \A j \in DOMAIN graveyard[p] : graveyard[p][j] \in DOMAIN references[p]
      /\ Holds(p)
  BY DEF BuryRaw, TypeOK, Pop3Inv, Holds
<1>2. /\ graveyard'[p] = Tail(graveyard[p]) /\ phase'[p] = "bury"
      /\ UNCHANGED <<shortcuts, id, step, proved, references>>
  BY DEF BuryRaw, DeleteRaw, task, Goto, TypeOK
<1>3. /\ Tail(graveyard[p]) \in Seq(Nat)
      /\ Len(Tail(graveyard[p])) = Len(graveyard[p]) - 1
      /\ \A j \in 1 .. Len(graveyard[p]) - 1 : Tail(graveyard[p])[j] = graveyard[p][j + 1]
  BY <1>1, HeadTailProperties
<1>4. /\ Len(graveyard[p]) \in Nat
      /\ DOMAIN graveyard[p] = 1 .. Len(graveyard[p])
      /\ DOMAIN Tail(graveyard[p]) = 1 .. Len(graveyard[p]) - 1
  BY <1>1, <1>3, LenProperties
<1>5. \A j \in 1 .. Len(graveyard[p]) - 1 : j + 1 \in 1 .. Len(graveyard[p])
  BY <1>4
<1>6. Authenticated(p)
  BY <1>1 DEF Holds
<1> QED
  BY <1>1, <1>2, <1>3, <1>4, <1>5, <1>6 DEF Holds, Used, Authenticated

\* Every step keeps the types and the invariant: what one session does to its
\* own references is one of the cases above, and all others stay as they are.
LEMMA Pop3Step == TypeOK /\ Pop3Inv /\ [Next]_vars => (TypeOK /\ Pop3Inv)'
<1> SUFFICES ASSUME TypeOK, Pop3Inv, [Next]_vars
             PROVE  (TypeOK /\ Pop3Inv)'
  OBVIOUS
<1> DEFINE Marks(q) ==
      /\ references[q] \in Seq(Ids) /\ graveyard[q] \in Seq(Nat)
      /\ \A j \in DOMAIN graveyard[q] : graveyard[q][j] \in DOMAIN references[q]
<1> DEFINE Still(q) ==
      /\ references'[q] = references[q] /\ graveyard'[q] = graveyard[q]
      /\ proved'[q] = proved[q]
      /\ phase'[q] = "bury_raw" => phase[q] = "bury_raw"
<1>1. [StoreNext]_storeVars
  BY StoreStep
<1>2. StoreTypeOK' /\ StoreShape' /\ IdsOnce'
  BY <1>1, StoreTypeStep, StoreShapeStep, IdsOnceStep DEF TypeOK, Pop3Inv
<1>3. /\ phase' \in [Clients -> Phases]
      /\ user' \in [Clients -> Accounts \cup {NoAccount}]
      /\ proved' \in [Clients -> Accounts \cup {NoAccount}]
      /\ references' = [q \in Clients |-> references'[q]]
      /\ graveyard' = [q \in Clients |-> graveyard'[q]]
  <2> USE DEF Next, Storage, Session, vars, sessionVars, Connect, GreetingFails, Answer, Command,
              Pass, Rset, LeaveLoop, RetrGone, User, Dele, ErrorReplyFails, ReadPastEnd,
              Terminate, BuryShortcut, BuryRaw, BuryFails, Disconnected
  <2>1. phase' \in [Clients -> Phases]
    <3>1. \/ phase' = phase
          \/ \E q \in Clients, x \in Phases : phase' = [phase EXCEPT ![q] = x]
          \/ /\ phase' = [q \in Clients |-> phase'[q]]
             /\ \A q \in Clients : phase'[q] \in {"none", "closed"}
      BY SMTT(30) DEF Phases, Goto
    <3> QED
      BY <3>1 DEF TypeOK, Phases
  <2>2. /\ user' \in [Clients -> Accounts \cup {NoAccount}]
        /\ proved' \in [Clients -> Accounts \cup {NoAccount}]
    <3>1. \/ user' = user
          \/ \E q \in Clients, a \in Accounts : user' = [user EXCEPT ![q] = a]
      BY SMTT(30)
    <3>2. \/ proved' = proved
          \/ \E q \in Clients : proved' = [proved EXCEPT ![q] = user[q]]
      BY SMTT(30)
    <3>3. /\ user \in [Clients -> Accounts \cup {NoAccount}]
          /\ proved \in [Clients -> Accounts \cup {NoAccount}]
          /\ \A q \in Clients : user[q] \in Accounts \cup {NoAccount}
      BY DEF TypeOK
    <3> QED
      BY <3>1, <3>2, <3>3
  <2>3. /\ references' = [q \in Clients |-> references'[q]]
        /\ graveyard' = [q \in Clients |-> graveyard'[q]]
    BY SMTT(30) DEF TypeOK
  <2> QED
    BY <2>1, <2>2, <2>3
<1>4. ASSUME NEW q \in Clients, Still(q)
      PROVE  (Marks(q) /\ Holds(q))'
  BY <1>1, <1>4, HoldsStill DEF TypeOK
<1>5. CASE UNCHANGED vars \/ Storage
  <2>1. \A q \in Clients : Still(q)
    BY <1>5 DEF vars, sessionVars, Storage
  <2> QED
    BY <1>2, <1>3, <1>4, <2>1 DEF TypeOK, Pop3Inv
<1>6. ASSUME NEW p \in Clients, Session(p)
      PROVE  \A q \in Clients : (Marks(q) /\ Holds(q))'
  <2>1. \A q \in Clients \ {p} : Still(q)
    BY <1>6 DEF TypeOK, Session, sessionVars, Connect, GreetingFails, Answer, Command, Pass,
                Rset, LeaveLoop, RetrGone, User, Dele, ErrorReplyFails, ReadPastEnd,
                Terminate, BuryShortcut, BuryRaw, BuryFails, Disconnected, Goto
  <2>2. CASE \/ Connect(p) \/ GreetingFails(p) \/ Answer(p) \/ LeaveLoop(p) \/ RetrGone(p)
             \/ \E a \in Accounts : User(p, a)
             \/ ErrorReplyFails(p) \/ ReadPastEnd(p) \/ BuryFails(p) \/ Disconnected(p)
    <3>1. Still(p)
      BY <2>2 DEF TypeOK, sessionVars, Connect, GreetingFails, Answer, Command, LeaveLoop,
                  RetrGone, User, ErrorReplyFails, ReadPastEnd, Terminate, BuryFails,
                  Disconnected, Goto
    <3> QED
      BY <1>4, <2>1, <3>1
  <2>3. CASE Pass(p)
    <3>1. graveyard'[p] = <<>>
      BY <2>3 DEF Pass, Pop3Inv, Holds
    <3>2. (Marks(p) /\ Holds(p))'
      BY <2>3, <3>1, HoldsPass
    <3> QED
      BY <1>4, <2>1, <3>2
  <2>4. CASE Rset(p)
    <3>1. /\ graveyard'[p] = <<>> /\ phase'[p] = "command"
          /\ UNCHANGED <<storeVars, references, proved>>
      BY <2>4 DEF Rset, Command, TypeOK
    <3>2. UNCHANGED <<shortcuts, id, step>>
      BY <3>1 DEF storeVars, cassandra, task
    <3>3. Marks(p)'
      BY <3>1 DEF TypeOK
    <3>4. Holds(p)'
      BY <3>1, <3>2 DEF Pop3Inv, Holds, Used, Authenticated
    <3> QED
      BY <1>4, <2>1, <3>3, <3>4
  <2>5. ASSUME NEW i \in 1 .. MaxMessages, Dele(p, i)
        PROVE  (Marks(p) /\ Holds(p))'
    BY <2>5, HoldsDele DEF Dele, TypeOK
  <2>6. CASE BuryShortcut(p)
    <3>1. (Marks(p) /\ Holds(p))'
      BY <2>6, HoldsBuryShortcut DEF BuryShortcut, TypeOK
    <3> QED
      BY <1>4, <2>1, <3>1
  <2>7. CASE BuryRaw(p)
    <3>1. (Marks(p) /\ Holds(p))'
      BY <2>7, HoldsBuryRaw DEF BuryRaw, TypeOK
    <3> QED
      BY <1>4, <2>1, <3>1
  <2>8. CASE \E i \in 1 .. MaxMessages : Dele(p, i)
    BY <1>4, <2>1, <2>5, <2>8
  <2> QED
    BY <1>6, <2>2, <2>3, <2>4, <2>6, <2>7, <2>8 DEF Session
<1>7. CASE \E p \in Clients : Session(p)
  <2>1. \A q \in Clients : (Marks(q) /\ Holds(q))'
    BY <1>6, <1>7
  <2> QED
    BY <1>2, <1>3, <2>1 DEF TypeOK, Pop3Inv
<1> QED
  BY <1>5, <1>7 DEF Next

LEMMA Pop3Correct == Spec => [](TypeOK /\ Pop3Inv)
<1>1. Init => TypeOK /\ Pop3Inv
  <2> SUFFICES ASSUME Init
               PROVE  TypeOK /\ Pop3Inv
    OBVIOUS
  <2>1. StoreTypeOK /\ StoreShape
    BY StoreConstants, FS_EmptySet
    DEF Init, StoreInit, StoreTypeOK, StoreShape, Steps, Counters, Zero, Ids
  <2>2. TypeOK
    BY <2>1, EmptySeq DEF Init, TypeOK, Phases
  <2>3. IdsOnce /\ \A p \in Clients : Holds(p)
    BY DEF Init, StoreInit, IdsOnce, Holds, Authenticated
  <2> QED
    BY <2>1, <2>2, <2>3 DEF Pop3Inv
<1> QED
  BY <1>1, Pop3Step, PTL DEF Spec

\* The types of the sessions: above all, a mark is always an index into the
\* references, for the end of the session reads s_References[i] of each mark
\* without a check (P3Server.src.cc 160).
THEOREM Pop3TypeCorrect == Spec => []TypeOK
BY Pop3Correct, PTL

-----------------------------------------------------------------------------
(* What the sessions do to the store, and to the mail of their accounts    *)

\* Any number of POP3 sessions, ended in any way, behave to the store like
\* MailStore's deletions: the shortcut first, the raw message only once it is
\* listed no more.
THEOREM Pop3KeepsStore == Spec => StoreBehaviour
<1>1. Init => StoreInit
  BY DEF Init
<1> QED
  BY <1>1, StoreStep, Pop3Correct, PTL DEF Spec, StoreBehaviour

\* So the store's promises hold whatever the POP3 sessions do.
COROLLARY Pop3KeepsPromises == Spec => [](UIDsUnique /\ UnseenCovers /\ ListedIsReadable)
BY Pop3KeepsStore, UIDsAreUnique, UnseenCoversMessages, ListedAreReadable, PTL
DEF StoreBehaviour, StoreSpec

\* The step behind OnlyMarkedGo: of the actions only BuryShortcut takes a
\* message away, and what it takes is marked, in the inbox of the account
\* whose password the session gave.
LEMMA MarkedGo ==
    ASSUME TypeOK, Pop3Inv, [Next]_vars, NEW s \in shortcuts, s \notin shortcuts'
    PROVE  \E p \in Clients : /\ phase[p] = "bury"
                              /\ proved[p] = s.account
                              /\ s.id \in Marked(p)
<1>1. PICK p \in Clients : BuryShortcut(p)
  BY DEF Next, Storage, StorageStep, Environment, Sleep, NewTask, GetUID, RestoreUID, SetUID,
         GetStatus, ClearRecent, RestoreStatus, SaveStatus, AddOne, SaveShortcut, SaveRaw,
         PartialStatus, GiveUp, TaskFails, LateInsert, EvictUID, EvictStatus, Session, vars,
         storeVars, cassandra, Connect, GreetingFails, Answer, Command, Pass, Rset, LeaveLoop,
         RetrGone, User, Dele, ErrorReplyFails, ReadPastEnd, Terminate, BuryRaw, DeleteRaw,
         BuryFails, Disconnected
<1>2. /\ phase[p] = "bury" /\ graveyard[p] # <<>>
      /\ s.id = references[p][Head(graveyard[p])]
  BY <1>1 DEF BuryShortcut, DeleteShortcut
<1>3. Head(graveyard[p]) \in DOMAIN references[p] /\ s.id \in Marked(p)
  BY <1>2, SessionTypes
<1> QED
  BY <1>2, <1>3 DEF Pop3Inv, Holds

\* A message goes only through a session that gave its owner's password, took
\* it in with PASS and has it marked.
THEOREM OnlyTheMarkedGo == Spec => OnlyMarkedGo
<1>1. TypeOK /\ Pop3Inv /\ [Next]_vars =>
        [\A s \in shortcuts : s \notin shortcuts' =>
            \E p \in Clients : /\ phase[p] = "bury"
                               /\ proved[p] = s.account
                               /\ s.id \in Marked(p)]_vars
  BY MarkedGo
<1> QED
  BY <1>1, Pop3Correct, PTL DEF Spec, OnlyMarkedGo

\* The numbers a client was shown stay those of the same messages until his
\* session is over: once authenticated, neither USER nor PASS is taken again.
THEOREM NumbersAreStable == Spec => NumbersStable
<1>1. TypeOK /\ [Next]_vars =>
        [\A p \in Clients : Authenticated(p) =>
            references'[p] = references[p] /\ proved'[p] = proved[p] /\ user'[p] = user[p]]_vars
  BY DEF TypeOK, Next, Storage, Session, vars, sessionVars, Connect, GreetingFails, Answer,
         Command, Pass, Rset, LeaveLoop, RetrGone, User, Dele, ErrorReplyFails, ReadPastEnd,
         Terminate, BuryShortcut, BuryRaw, BuryFails, Disconnected, Authenticated
<1> QED
  BY <1>1, Pop3TypeCorrect, PTL DEF Spec, NumbersStable
=============================================================================
