----------------------------- MODULE MailStore ------------------------------
(***************************************************************************)
(* What storing one message does to the databases: the body of the loop of *)
(* lib/workers/DatabaseWorker.src.cc 80-172 with the models it calls.      *)
(* Cassandra holds the shortcuts and the raw messages; Redis caches the    *)
(* highest UID of every account (UIDHolder) and the counters of every      *)
(* mailbox (MailboxStatus).  Each call to a database is one step.          *)
(*                                                                         *)
(* Between two steps a key may be evicted from Redis (both models restore  *)
(* a missing key from Cassandra), POP3 may delete a message (Pop3 has the  *)
(* sessions that do), and the process may die.                             *)
(***************************************************************************)
EXTENDS Naturals, FiniteSets

CONSTANTS Accounts, Mailboxes,
          Inbox,         \* the mailbox POP3 reads and deletes from
          MaxMessages,   \* bound on the messages stored
          MaxFaults      \* bound on evictions, failures and crashes together

ASSUME StoreConstants ==
    /\ Inbox \in Mailboxes
    /\ MaxMessages \in Nat
    /\ MaxFaults \in Nat

Steps == {"idle", "get_uid", "set_uid", "get_status", "clear_recent",
          "save_status", "add_one", "save_shortcut", "save_raw"}
Ids == 1 .. MaxMessages
Shortcut == [id : Ids, account : Accounts, mailbox : Mailboxes, uid : Nat]
Counters == [unseen : Nat, total : Nat, recent : Nat]
Zero == [unseen |-> 0, total |-> 0, recent |-> 0]

VARIABLES shortcuts, raws,   \* Cassandra
          uidHolder,         \* Redis: highest UID of an account, 0 = no key
          hash,              \* Redis: "none", "full", or "partial" when only the
                             \*   fields of one HMSET are there
          counters,          \* Redis: the fields v2 (unseen), v3 (total), v5 (recent)
          step, account, mailbox, id, uid, old,  \* the task in hand
          broken,            \* history: messages whose saving was cut short
          faults

cassandra == <<shortcuts, raws>>
redis == <<uidHolder, hash, counters>>
task == <<account, mailbox, id>>
storeVars == <<cassandra, redis, step, task, uid, old, broken, faults>>

StoreTypeOK ==
    /\ shortcuts \in SUBSET Shortcut
    /\ raws \in SUBSET Ids
    /\ uidHolder \in [Accounts -> Nat]
    /\ hash \in [Accounts \X Mailboxes -> {"none", "full", "partial"}]
    /\ counters \in [Accounts \X Mailboxes -> Counters]
    /\ step \in Steps
    /\ account \in Accounts
    /\ mailbox \in Mailboxes
    /\ id \in 0 .. MaxMessages
    /\ uid \in Nat
    /\ old \in Counters
    /\ broken \in SUBSET Ids
    /\ faults \in 0 .. MaxFaults

StoreInit ==
    /\ shortcuts = {} /\ raws = {}
    /\ uidHolder = [a \in Accounts |-> 0]
    /\ hash = [k \in Accounts \X Mailboxes |-> "none"]
    /\ counters = [k \in Accounts \X Mailboxes |-> Zero]
    /\ step = "idle"
    /\ account \in Accounts /\ mailbox = Inbox
    /\ id = 0 /\ uid = 0 /\ old = Zero
    /\ broken = {}
    /\ faults = 0

Of(a) == {s \in shortcuts : s.account = a}
In(a, m) == {s \in shortcuts : s.account = a /\ s.mailbox = m}
Key == <<account, mailbox>>

-----------------------------------------------------------------------------
(* The storage thread *)

\* The next task; the target has been turned into a mailbox name, the message
\* will get a fresh time UUID.
NewTask(a, m) ==
    /\ step = "idle"
    /\ id < MaxMessages
    /\ id' = id + 1
    /\ account' = a
    /\ mailbox' = m
    /\ step' = "get_uid"
    /\ UNCHANGED <<cassandra, redis, uid, old, broken, faults>>

\* UIDHolder::getRedis.
GetUID ==
    /\ step = "get_uid"
    /\ uidHolder[account] # 0
    /\ uid' = uidHolder[account]
    /\ step' = "set_uid"
    /\ UNCHANGED <<cassandra, redis, task, old, broken, faults>>

\* Wrong on purpose: any row's UID, not the highest.
RestoreUIDAny ==
    /\ step = "get_uid"
    /\ uidHolder[account] = 0
    /\ uid' \in {0} \cup {s.uid : s \in Of(account)}
    /\ step' = "set_uid"
    /\ UNCHANGED <<cassandra, redis, task, old, broken, faults>>

\* UIDHolder::restoreFromCassandra: the highest UID among the account's
\* shortcuts, or 0.
RestoreUID ==
    /\ step = "get_uid"
    /\ uidHolder[account] = 0
    /\ \E u \in {0} \cup {s.uid : s \in Of(account)} :
          /\ \A s \in Of(account) : s.uid <= u
          /\ uid' = u
    /\ step' = "set_uid"
    /\ UNCHANGED <<cassandra, redis, task, old, broken, faults>>

\* UIDHolder::saveRedis of the incremented value.
SetUID ==
    /\ step = "set_uid"
    /\ uid' = uid + 1
    /\ uidHolder' = [uidHolder EXCEPT ![account] = uid + 1]
    /\ step' = "get_status"
    /\ UNCHANGED <<cassandra, hash, counters, task, old, broken, faults>>

\* MailboxStatus::get finds the hash.
GetStatus ==
    /\ step = "get_status"
    /\ hash[Key] = "full"
    /\ old' = counters[Key]
    /\ step' = "clear_recent"
    /\ UNCHANGED <<cassandra, redis, task, uid, broken, faults>>

\* HMSET creates the key when it is gone, with the fields it names only.
Written(h) == IF h = "none" THEN "partial" ELSE h

\* MailboxStatus::clearRecent writes the field v6, which nothing reads; the
\* recent counter is v5.
ClearRecent ==
    /\ step = "clear_recent"
    /\ hash' = [hash EXCEPT ![Key] = Written(@)]
    /\ step' = "add_one"
    /\ UNCHANGED <<cassandra, uidHolder, counters, task, uid, old,
                   broken, faults>>

\* Wrong on purpose: a restored status starts from nothing.
RestoreStatusEmpty ==
    /\ step = "get_status"
    /\ hash[Key] = "none"
    /\ old' = Zero
    /\ step' = "save_status"
    /\ UNCHANGED <<cassandra, redis, task, uid, broken, faults>>

\* Mailbox::get: the message count of the mailbox's row, which no code updates
\* after the mailbox is created with 0.  Without a row it throws, like a query
\* that fails.
MessageCount == 0

\* MailboxStatus::restoreFromCassandra: the unseen messages are counted, the
\* total is the mailbox's message count.
RestoreStatus ==
    /\ step = "get_status"
    /\ hash[Key] = "none"
    /\ old' = [unseen |-> Cardinality(In(account, mailbox)), total |-> MessageCount,
                recent |-> 0]
    /\ step' = "save_status"
    /\ UNCHANGED <<cassandra, redis, task, uid, broken, faults>>

\* MailboxStatus::save writes every field.
SaveStatus ==
    /\ step = "save_status"
    /\ counters' = [counters EXCEPT ![Key] = old]
    /\ hash' = [hash EXCEPT ![Key] = "full"]
    /\ step' = "add_one"
    /\ UNCHANGED <<cassandra, uidHolder, task, uid, old, broken, faults>>

\* MailboxStatus::addOneMessage writes v2, v3 and v5.
AddOne ==
    /\ step = "add_one"
    /\ counters' = [counters EXCEPT ![Key] =
                      [unseen |-> old.unseen + 1, total |-> old.total + 1,
                       recent |-> old.recent + 1]]
    /\ hash' = [hash EXCEPT ![Key] = Written(@)]
    /\ step' = "save_shortcut"
    /\ UNCHANGED <<cassandra, uidHolder, task, uid, old, broken, faults>>

NewShortcut == [id |-> id, account |-> account, mailbox |-> mailbox, uid |-> uid]

SaveShortcut ==
    /\ step = "save_shortcut"
    /\ shortcuts' = shortcuts \cup {NewShortcut}
    /\ step' = "save_raw"
    /\ UNCHANGED <<raws, redis, task, uid, old, broken, faults>>

SaveRaw ==
    /\ step = "save_raw"
    /\ raws' = raws \cup {id}
    /\ step' = "idle"
    /\ UNCHANGED <<shortcuts, redis, task, uid, old, broken, faults>>

-----------------------------------------------------------------------------
(* What can go wrong *)

Fault ==
    /\ faults < MaxFaults
    /\ faults' = faults + 1

\* A call throws, or the process dies and starts again: the task is not tried
\* again and nothing it has done is undone.
GiveUp ==
    /\ step # "idle"
    /\ step' = "idle"
    /\ broken' = broken \cup {id}
    /\ UNCHANGED <<raws, redis, task, uid, old>>

TaskFails == Fault /\ GiveUp /\ UNCHANGED shortcuts

\* The insert times out after Cassandra has applied it.
LateInsert ==
    /\ step = "save_shortcut"
    /\ Fault
    /\ GiveUp
    /\ shortcuts' = shortcuts \cup {NewShortcut}

\* HGETALL of a hash that lacks fields: get reads elements the reply does not
\* have.  Whatever that does (most likely the process dies) the task ends here.
PartialStatus ==
    /\ step = "get_status"
    /\ hash[Key] = "partial"
    /\ GiveUp
    /\ UNCHANGED <<shortcuts, faults>>

EvictUID(a) ==
    /\ Fault
    /\ uidHolder[a] # 0
    /\ uidHolder' = [uidHolder EXCEPT ![a] = 0]
    /\ UNCHANGED <<cassandra, hash, counters, step, task, uid, old, broken>>

EvictStatus(k) ==
    /\ Fault
    /\ hash[k] # "none"
    /\ hash' = [hash EXCEPT ![k] = "none"]
    /\ counters' = [counters EXCEPT ![k] = Zero]
    /\ UNCHANGED <<cassandra, uidHolder, step, task, uid, old, broken>>

-----------------------------------------------------------------------------
(* POP3 deletes a message: first the shortcut, later the raw message *)

DeleteShortcut(n) ==
    /\ shortcuts' = {s \in shortcuts : ~(s.id = n /\ s.mailbox = Inbox)}
    /\ UNCHANGED <<raws, redis, step, task, uid, old, broken, faults>>

DeleteRaw(n) ==
    /\ raws' = raws \ {n}
    /\ UNCHANGED <<shortcuts, redis, step, task, uid, old, broken, faults>>

Expunge == \E s \in shortcuts : s.mailbox = Inbox /\ DeleteShortcut(s.id)

ExpungeRaw == \E n \in raws : (\A s \in shortcuts : s.id # n) /\ DeleteRaw(n)

-----------------------------------------------------------------------------
\* The queue is empty: the worker sleeps.
Sleep == step = "idle" /\ UNCHANGED storeVars

StorageStep ==
    \/ Sleep
    \/ \E a \in Accounts, m \in Mailboxes : NewTask(a, m)
    \/ GetUID \/ RestoreUID \/ SetUID
    \/ GetStatus \/ ClearRecent \/ RestoreStatus \/ SaveStatus \/ AddOne
    \/ SaveShortcut \/ SaveRaw
    \/ PartialStatus

Environment ==
    \/ TaskFails \/ LateInsert
    \/ \E a \in Accounts : EvictUID(a)
    \/ \E k \in Accounts \X Mailboxes : EvictStatus(k)

StoreNext == StorageStep \/ Environment \/ Expunge \/ ExpungeRaw

StoreSpec == StoreInit /\ [][StoreNext]_storeVars
-----------------------------------------------------------------------------
(* Properties *)

\* No two messages of an account share a UID, whatever is evicted, fails or is
\* deleted between reading the highest UID and saving the shortcut
\* (DatabaseWorker.src.cc 99-103, UIDHolder.src.cc 15-32).
UIDsUnique == \A s, t \in shortcuts :
    s.account = t.account /\ s.uid = t.uid => s.id = t.id

\* The unseen counter of a mailbox never falls short of its messages: the
\* message is counted before it is saved and recounted after a loss
\* (MailboxStatus.src.cc 168-287).
UnseenCovers == \A k \in Accounts \X Mailboxes : hash[k] = "full" =>
    Cardinality(In(k[1], k[2])) <= counters[k].unseen

\* A message that can be listed can be read, unless its own saving or a
\* deletion was cut short: the shortcut is saved first and deleted first.
ListedIsReadable == \A s \in shortcuts :
    s.id \in raws \/ s.id \in broken \/ (step = "save_raw" /\ id = s.id)
=============================================================================
