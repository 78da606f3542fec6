----------------------------- MODULE Directory ------------------------------
(***************************************************************************)
(* Domains, accounts and their look-ups: lib/models/LocalDomain.src.cc,    *)
(* lib/models/Account.src.cc, and the administrator's console in           *)
(* lib/args/arg-actions.src.cc.  Cassandra holds the domains, the accounts *)
(* and one shortcut per name; Redis caches domains and shortcuts, and may  *)
(* evict a key at any time.                                                *)
(*                                                                         *)
(* A look-up asks Redis, on a miss Cassandra, and copies what it finds     *)
(* back to Redis.  SMTP looks up senders, recipients and users (AUTH),     *)
(* POP3 looks up users, the console looks before it adds.                  *)
(*                                                                         *)
(* redisCommand appends a command to the buffer of a hiredis context and   *)
(* takes the next reply that arrives on it: these are two steps.  Conn     *)
(* says which processes share a context.                                   *)
(***************************************************************************)
EXTENDS Naturals, Sequences

CONSTANTS Threads,      \* connection threads of the SMTP and POP3 servers
          Consoles,     \* administrators at a console
          Conns, Conn,  \* the hiredis contexts, and the one each process uses
          Domains, Users,
          Boxes,        \* the default mailboxes, in the order they are made
          MaxAccounts,  \* bound on the accounts made
          MaxFaults     \* bound on failed queries and crashes

ASSUME DirectoryConstants ==
    /\ Threads \cap Consoles = {}
    /\ Conn \in [Threads \cup Consoles -> Conns]
    \* A console is a process by itself and opens a connection of its own.
    /\ \A p \in Consoles, q \in Threads \cup Consoles : Conn[p] = Conn[q] => p = q
    /\ MaxAccounts \in Nat
    /\ MaxFaults \in Nat

Procs == Threads \cup Consoles
Ids == 1 .. MaxAccounts
NoAccount == 0
Names == Users \X Domains
Jobs == {"mail", "rcpt", "auth", "user", "add_domain", "add_user"}
Places == {"idle",
           "get_domain", "domain_reply", "domain_row", "cache_domain", "domain_cached",
           "get_short", "short_reply", "short_row", "cache_short", "short_cached",
           "get_pass",
           "announce_domain", "domain_announced", "insert_domain",
           "insert_account", "announce_short", "short_announced", "insert_short",
           "insert_boxes"}
\* Where a process waits for a reply; where a console is adding an account, from its
\* question to the row of the name.
Waiting == {"domain_reply", "domain_cached", "domain_announced",
            "short_reply", "short_cached", "short_announced"}
Adding == {"insert_account", "announce_short", "short_announced", "insert_short"}
AskedOrAdding == {"short_reply", "short_row"} \cup Adding
Replies == [type : {"nil", "string", "array", "status"}, id : {NoAccount} \cup Ids]

VARIABLES domains, accounts, shortcuts, mailboxes,  \* Cassandra
          rDomains, rShorts,                        \* Redis
          wire,                                     \* replies on their way, per context
          pc, job, name,                            \* what a process is doing, for whom
          known,                                    \* LocalDomain::get returned the domain
          found,                                    \* the account the look-up returned
          made,                                     \* accounts made so far
          added,                                    \* history: domains somebody set out to add
          crossed,                                  \* history: who waited on a busy context
          raced,                                    \* history: names two consoles added at once
          faults

cassandra == <<domains, accounts, shortcuts, mailboxes>>
redis == <<rDomains, rShorts>>
net == <<wire, crossed>>
local == <<pc, job, name, known, found>>
past == <<added, raced>>
dirVars == <<cassandra, redis, net, local, made, past, faults>>

\* The processes' values are of their types.
DirTypeOK ==
    /\ domains \in SUBSET Domains
    /\ accounts \in SUBSET (Ids \X Names)
    /\ shortcuts \in [Names -> {NoAccount} \cup Ids]
    /\ mailboxes \in [Ids -> SUBSET {Boxes[i] : i \in 1 .. Len(Boxes)}]
    /\ rDomains \in SUBSET Domains
    /\ rShorts \in [Names -> {NoAccount} \cup Ids]
    /\ wire \in [Conns -> Seq(Replies)]
    /\ pc \in [Procs -> Places]
    /\ job \in [Procs -> Jobs]
    /\ name \in [Procs -> Names]
    /\ known \in [Procs -> BOOLEAN]
    /\ found \in [Procs -> {NoAccount} \cup Ids]
    /\ made \in 0 .. MaxAccounts
    /\ added \in SUBSET Domains
    /\ crossed \in SUBSET Procs
    /\ raced \in SUBSET Names
    /\ faults \in 0 .. MaxFaults

DirInit ==
    /\ domains = {} /\ accounts = {}
    /\ shortcuts = [n \in Names |-> NoAccount]
    /\ mailboxes = [a \in Ids |-> {}]
    /\ rDomains = {} /\ rShorts = [n \in Names |-> NoAccount]
    /\ wire = [c \in Conns |-> <<>>]
    /\ pc = [p \in Procs |-> "idle"]
    /\ job = [p \in Procs |-> "mail"]
    /\ name \in [Procs -> Names]
    /\ known = [p \in Procs |-> FALSE]
    /\ found = [p \in Procs |-> NoAccount]
    /\ made = 0 /\ faults = 0
    /\ added = {} /\ crossed = {} /\ raced = {}

-----------------------------------------------------------------------------
(* Helpers *)

DomainOf(p) == name[p][2]
At(p, place) == pc[p] = place
GoTo(p, place) == pc' = [pc EXCEPT ![p] = place]

\* The other processes that wait for a reply on p's context.
Others(p) == {q \in Procs \ {p} : Conn[q] = Conn[p] /\ pc[q] \in Waiting}

\* redisCommand: the command goes out on p's context and is answered in order.  On a
\* context that is busy nobody knows any more whose reply comes first.
Send(p, reply) ==
    /\ wire' = [wire EXCEPT ![Conn[p]] = Append(@, reply)]
    /\ crossed' = IF wire[Conn[p]] = <<>> /\ Others(p) = {} THEN crossed
                  ELSE crossed \cup Others(p) \cup {p}
\* The next reply on p's context, whoever's command it answers.
Receive(p, reply) ==
    /\ wire[Conn[p]] # <<>>
    /\ reply = Head(wire[Conn[p]])
    /\ wire' = [wire EXCEPT ![Conn[p]] = Tail(@)]
    /\ UNCHANGED crossed

Status == [type |-> "status", id |-> NoAccount]
DomainReply(d) == [type |-> IF d \in rDomains THEN "string" ELSE "nil", id |-> NoAccount]
ShortReply(n) == [type |-> "array", id |-> rShorts[n]]

\* Where a process goes once the domain is known, or known not to be here: MAIL
\* only wants the domain, AUTH gives up without it, POP3's USER and the console
\* go on all the same, RCPT TO unless it relays.
AfterDomain(p, here) ==
    /\ known' = [known EXCEPT ![p] = here]
    /\ \/ job[p] # "mail" /\ (here \/ job[p] # "auth") /\ GoTo(p, "get_short")
       \/ (job[p] = "mail" \/ (~here /\ job[p] \in {"auth", "rcpt"})) /\ GoTo(p, "idle")

\* What a look-up that found a makes of it: the console stops, AUTH reads the
\* password of the account.
AfterFound(p, a) ==
    /\ found' = [found EXCEPT ![p] = a]
    /\ GoTo(p, IF job[p] = "auth" THEN "get_pass" ELSE "idle")

-----------------------------------------------------------------------------
(* LocalDomain::get *)

Begin(p) ==
    /\ At(p, "idle")
    /\ \E n \in Names : name' = [name EXCEPT ![p] = n]
    /\ known' = [known EXCEPT ![p] = FALSE]
    /\ found' = [found EXCEPT ![p] = NoAccount]
    /\ \E j \in Jobs :
           /\ j \in {"add_domain", "add_user"} <=> p \in Consoles
           /\ job' = [job EXCEPT ![p] = j]
           /\ added' = IF j = "add_domain" THEN added \cup {name'[p][2]} ELSE added
           /\ GoTo(p, IF j = "add_domain" THEN "announce_domain" ELSE "get_domain")
    /\ crossed' = crossed \ {p}
    /\ UNCHANGED <<cassandra, redis, wire, made, raced, faults>>

GetDomain(p) ==
    /\ At(p, "get_domain")
    /\ Send(p, DomainReply(DomainOf(p)))
    /\ GoTo(p, "domain_reply")
    /\ UNCHANGED <<cassandra, redis, job, name, known, found, made, past, faults>>

\* No reply, a string, or one of another type, which throws.
DomainReplyArrives(p) ==
    /\ At(p, "domain_reply")
    /\ \E r \in Replies :
           /\ Receive(p, r)
           /\ \/ r.type = "nil" /\ GoTo(p, "domain_row") /\ UNCHANGED known
              \/ r.type = "string" /\ AfterDomain(p, TRUE)
              \/ r.type \in {"array", "status"} /\ GoTo(p, "idle") /\ UNCHANGED known
    /\ UNCHANGED <<cassandra, redis, job, name, found, made, past, faults>>

ReadDomain(p) ==
    /\ At(p, "domain_row")
    /\ IF DomainOf(p) \in domains
       THEN GoTo(p, "cache_domain") /\ UNCHANGED known
       ELSE AfterDomain(p, FALSE)
    /\ UNCHANGED <<cassandra, redis, net, job, name, found, made, past, faults>>

\* SET, by a look-up or by the console that adds the domain.
CacheDomain(p) ==
    /\ pc[p] \in {"cache_domain", "announce_domain"}
    /\ rDomains' = rDomains \cup {DomainOf(p)}
    /\ Send(p, Status)
    /\ GoTo(p, IF At(p, "cache_domain") THEN "domain_cached" ELSE "domain_announced")
    /\ UNCHANGED <<cassandra, rShorts, job, name, known, found, made, past, faults>>

DomainCached(p) ==
    /\ pc[p] \in {"domain_cached", "domain_announced"}
    /\ \E r \in Replies : Receive(p, r)
    /\ IF At(p, "domain_cached")
       THEN AfterDomain(p, TRUE)
       ELSE GoTo(p, "insert_domain") /\ UNCHANGED known
    /\ UNCHANGED <<cassandra, redis, job, name, found, made, past, faults>>

-----------------------------------------------------------------------------
(* AccountShortcut::find, findRedis alone for POP3's USER *)

\* The other consoles that are at p's name when p is a console.
Rivals(p) == {q \in Consoles \ {p} : p \in Consoles /\ name[q] = name[p]}

GetShort(p) ==
    /\ At(p, "get_short")
    /\ Send(p, ShortReply(name[p]))
    /\ GoTo(p, "short_reply")
    /\ raced' = IF \E q \in Rivals(p) : pc[q] \in AskedOrAdding
                THEN raced \cup {name[p]} ELSE raced
    /\ UNCHANGED <<cassandra, redis, job, name, known, found, made, added, faults>>

\* A reply without elements, of whatever type, counts as a miss.
ShortReplyArrives(p) ==
    /\ At(p, "short_reply")
    /\ \E r \in Replies :
           /\ Receive(p, r)
           /\ \/ r.id # NoAccount /\ AfterFound(p, r.id)
              \/ /\ r.id = NoAccount
                 /\ GoTo(p, IF job[p] = "user" THEN "idle" ELSE "short_row")
                 /\ UNCHANGED found
    /\ UNCHANGED <<cassandra, redis, job, name, known, made, past, faults>>

\* Wrong on purpose: the console adds without looking whether the name is taken.
ReadShortUnchecked(p) ==
    /\ At(p, "short_row")
    /\ GoTo(p, IF job[p] = "add_user" /\ made < MaxAccounts THEN "insert_account"
               ELSE IF shortcuts[name[p]] # NoAccount THEN "cache_short"
               ELSE "idle")
    /\ found' = [found EXCEPT ![p] = shortcuts[name[p]]]
    /\ UNCHANGED <<cassandra, redis, net, job, name, known, made, past, faults>>

ReadShort(p) ==
    /\ At(p, "short_row")
    /\ GoTo(p, IF shortcuts[name[p]] # NoAccount THEN "cache_short"
               ELSE IF job[p] = "add_user" /\ made < MaxAccounts THEN "insert_account"
               ELSE "idle")
    /\ found' = [found EXCEPT ![p] = shortcuts[name[p]]]
    /\ UNCHANGED <<cassandra, redis, net, job, name, known, made, past, faults>>

\* HMSET, by a look-up or by the console that adds the account.
CacheShort(p) ==
    /\ pc[p] \in {"cache_short", "announce_short"}
    /\ rShorts' = [rShorts EXCEPT ![name[p]] = found[p]]
    /\ Send(p, Status)
    /\ GoTo(p, IF At(p, "cache_short") THEN "short_cached" ELSE "short_announced")
    /\ UNCHANGED <<cassandra, rDomains, job, name, known, found, made, past, faults>>

ShortCached(p) ==
    /\ pc[p] \in {"short_cached", "short_announced"}
    /\ \E r \in Replies : Receive(p, r)
    /\ IF At(p, "short_cached")
       THEN AfterFound(p, found[p])
       ELSE GoTo(p, "insert_short") /\ UNCHANGED found
    /\ UNCHANGED <<cassandra, redis, job, name, known, made, past, faults>>

\* authVerify: the account's row must be there; the password is compared by the
\* caller (SmtpServer).
GetPass(p) ==
    /\ At(p, "get_pass")
    /\ GoTo(p, "idle")
    /\ UNCHANGED <<cassandra, redis, net, job, name, known, found, made, past, faults>>

-----------------------------------------------------------------------------
(* The console: addDomain and addUser *)

InsertDomain(p) ==
    /\ At(p, "insert_domain")
    /\ domains' = domains \cup {DomainOf(p)}
    /\ GoTo(p, "idle")
    /\ UNCHANGED <<accounts, shortcuts, mailboxes, redis, net, job, name, known, found,
                   made, past, faults>>

\* Wrong on purpose: an INSERT that failed goes unnoticed.
InsertAccountUnchecked(p) ==
    /\ At(p, "insert_account")
    /\ made < MaxAccounts
    /\ made' = made + 1
    /\ accounts' \in {accounts, accounts \cup {<<made', name[p]>>}}
    /\ found' = [found EXCEPT ![p] = made']
    /\ GoTo(p, "announce_short")
    /\ UNCHANGED <<domains, shortcuts, mailboxes, redis, net, job, name, known, past, faults>>

\* Account::save of a new account, with a time UUID of its own.
InsertAccount(p) ==
    /\ At(p, "insert_account")
    /\ made < MaxAccounts
    /\ made' = made + 1
    /\ accounts' = accounts \cup {<<made', name[p]>>}
    /\ found' = [found EXCEPT ![p] = made']
    /\ GoTo(p, "announce_short")
    /\ UNCHANGED <<domains, shortcuts, mailboxes, redis, net, job, name, known, past, faults>>

\* AccountShortcut::save: the INSERT replaces a row of the same name.
InsertShort(p) ==
    /\ At(p, "insert_short")
    /\ shortcuts' = [shortcuts EXCEPT ![name[p]] = found[p]]
    /\ GoTo(p, "insert_boxes")
    /\ UNCHANGED <<domains, accounts, mailboxes, redis, net, job, name, known, found,
                   made, past, faults>>

\* The default mailboxes; one that cannot be saved is logged and left out.
InsertBoxes(p) ==
    /\ At(p, "insert_boxes")
    /\ \E saved \in SUBSET {Boxes[i] : i \in 1 .. Len(Boxes)} :
           mailboxes' = [mailboxes EXCEPT ![found[p]] = saved]
    /\ GoTo(p, "idle")
    /\ UNCHANGED <<domains, accounts, shortcuts, redis, net, job, name, known, found,
                   made, past, faults>>

-----------------------------------------------------------------------------
(* Failures *)

\* A query that fails throws DatabaseException: the thread drops the command, the
\* console ends.
QueryFails(p) ==
    /\ pc[p] \in {"domain_row", "short_row", "get_pass", "insert_domain",
                  "insert_account", "insert_short"}
    /\ faults < MaxFaults /\ faults' = faults + 1
    /\ found' = [found EXCEPT ![p] = NoAccount]
    /\ GoTo(p, "idle")
    /\ UNCHANGED <<cassandra, redis, net, job, name, known, made, past>>

\* A process dies, by a signal or because a lost Redis connection gives redisCommand
\* no reply, which is read unchecked; its context goes with it.
Dies(c) ==
    /\ faults < MaxFaults /\ faults' = faults + 1
    /\ pc' = [p \in Procs |-> IF Conn[p] = c THEN "idle" ELSE pc[p]]
    /\ known' = [p \in Procs |-> IF Conn[p] = c THEN FALSE ELSE known[p]]
    /\ found' = [p \in Procs |-> IF Conn[p] = c THEN NoAccount ELSE found[p]]
    /\ wire' = [wire EXCEPT ![c] = <<>>]
    /\ crossed' = {p \in crossed : Conn[p] # c}
    /\ UNCHANGED <<cassandra, redis, job, name, made, past>>

\* Redis drops a key.
Evict ==
    /\ \/ \E d \in rDomains : rDomains' = rDomains \ {d} /\ UNCHANGED rShorts
       \/ \E n \in Names : /\ rShorts[n] # NoAccount
                           /\ rShorts' = [rShorts EXCEPT ![n] = NoAccount]
                           /\ UNCHANGED rDomains
    /\ UNCHANGED <<cassandra, net, local, made, past, faults>>

ProcStep(p) ==
    \/ Begin(p) \/ GetDomain(p) \/ DomainReplyArrives(p) \/ ReadDomain(p)
    \/ CacheDomain(p) \/ DomainCached(p)
    \/ GetShort(p) \/ ShortReplyArrives(p) \/ ReadShort(p)
    \/ CacheShort(p) \/ ShortCached(p) \/ GetPass(p)
    \/ InsertDomain(p) \/ InsertAccount(p) \/ InsertShort(p) \/ InsertBoxes(p)
    \/ QueryFails(p)

DirNext == (\E p \in Procs : ProcStep(p)) \/ (\E c \in Conns : Dies(c)) \/ Evict
DirSpec == DirInit /\ [][DirNext]_dirVars

-----------------------------------------------------------------------------
(* Properties *)

\* Whoever a look-up returns has an account row of that name, unless its process and
\* another of the same server waited for replies at one time: a shortcut is never to
\* be seen before its account, in neither store, whatever was cut short (addUser saves
\* the account first; find copies only what Cassandra holds), and an answer taken by
\* the wrong thread is never written anywhere.
FoundHasAccount ==
    \A p \in Threads \ crossed : found[p] # NoAccount => <<found[p], name[p]>> \in accounts

\* Redis never names another account for a name than Cassandra does, although the
\* console writes to Redis first, threads refill it late and take each other's
\* replies, and keys vanish: mail would be filed under one account and read under the
\* other.  Only two consoles that add one name at one time bring it about.
CacheAgrees ==
    \A n \in Names \ raced : rShorts[n] # NoAccount /\ shortcuts[n] # NoAccount
                                  => rShorts[n] = shortcuts[n]

\* LocalDomain::get finds a domain only if it is in one of the stores, so only if
\* somebody added it (the comment at lib/models/LocalDomain.src.cc 208-210).
OnlyAddedDomains ==
    \A p \in Procs : known[p] => DomainOf(p) \in added
=============================================================================
