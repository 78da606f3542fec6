-------------------------- MODULE DirectoryProofs ---------------------------
(* Theorems about Directory, for every set of threads, consoles, domains   *)
(* and users, any number of accounts and faults, and whichever threads     *)
(* share a hiredis context.                                                *)
EXTENDS Directory, SequenceTheorems, TLAPS

-----------------------------------------------------------------------------
(* Types *)

\* The replies Redis gives are replies.
LEMMA ReplyTypes ==
    ASSUME DirTypeOK
    PROVE  /\ Status \in Replies
           /\ \A d \in Domains : DomainReply(d) \in Replies
           /\ \A n \in Names : ShortReply(n) \in Replies
BY DEF DirTypeOK, Status, DomainReply, ShortReply, Replies

\* A command sent, or a reply taken, leaves sequences of replies.
LEMMA WireTypes ==
    ASSUME DirTypeOK, NEW p \in Procs, NEW r \in Replies,
           Send(p, r) \/ Receive(p, r)
    PROVE  wire' \in [Conns -> Seq(Replies)] /\ crossed' \in SUBSET Procs
<1>0. crossed' \in SUBSET Procs
  BY DEF Send, Receive, Others, DirTypeOK
<1>1. Conn[p] \in Conns /\ wire[Conn[p]] \in Seq(Replies)
  BY DirectoryConstants DEF DirTypeOK, Procs
<1>2. CASE Send(p, r)
  <2>1. Append(wire[Conn[p]], r) \in Seq(Replies)
    BY <1>1, AppendProperties
  <2> QED
    BY <1>0, <1>2, <2>1 DEF Send, DirTypeOK
<1>3. CASE Receive(p, r)
  <2>1. Tail(wire[Conn[p]]) \in Seq(Replies)
    BY <1>1, <1>3, HeadTailProperties DEF Receive
  <2> QED
    BY <1>0, <1>3, <2>1 DEF Receive, DirTypeOK
<1> QED
  BY <1>0, <1>2, <1>3

\* One step keeps the types.
LEMMA DirTypeStep == DirTypeOK /\ [DirNext]_dirVars => DirTypeOK'
<1> SUFFICES ASSUME DirTypeOK, [DirNext]_dirVars
             PROVE  DirTypeOK'
  OBVIOUS
<1> USE DirectoryConstants DEF DirTypeOK
<1>1. CASE UNCHANGED dirVars
  BY <1>1 DEF dirVars, cassandra, redis, net, local, past
<1>2. ASSUME NEW p \in Procs, ProcStep(p)
      PROVE  DirTypeOK'
  <2> USE DEF cassandra, redis, net, local, past, GoTo, At, Places
  <2>1. DomainOf(p) \in Domains /\ name[p] \in Names
    BY DEF DomainOf, Names
  <2>2. CASE Begin(p)
    <3>1. PICK n \in Names : name' = [name EXCEPT ![p] = n]
      BY <2>2 DEF Begin
    <3>2. name'[p][2] \in Domains
      BY <3>1 DEF Names
    <3> QED
      BY <2>2, <3>1, <3>2 DEF Begin, Jobs
  <2>3. CASE GetDomain(p)
    <3>1. wire' \in [Conns -> Seq(Replies)] /\ crossed' \in SUBSET Procs
      BY <2>1, <2>3, ReplyTypes, WireTypes DEF GetDomain
    <3> QED
      BY <2>3, <3>1 DEF GetDomain
  <2>4. CASE DomainReplyArrives(p)
    <3>1. PICK r \in Replies :
            /\ Receive(p, r)
            /\ \/ r.type = "nil" /\ GoTo(p, "domain_row") /\ UNCHANGED known
               \/ r.type = "string" /\ AfterDomain(p, TRUE)
               \/ r.type \in {"array", "status"} /\ GoTo(p, "idle") /\ UNCHANGED known
      BY <2>4 DEF DomainReplyArrives
    <3>2. wire' \in [Conns -> Seq(Replies)] /\ crossed' \in SUBSET Procs
      BY <3>1, WireTypes
    <3>3. pc' \in [Procs -> Places] /\ known' \in [Procs -> BOOLEAN]
      BY <3>1 DEF AfterDomain
    <3> QED
      BY <2>4, <3>2, <3>3 DEF DomainReplyArrives
  <2>5. CASE ReadDomain(p)
    BY <2>5 DEF ReadDomain, AfterDomain
  <2>6. CASE CacheDomain(p)
    <3>1. wire' \in [Conns -> Seq(Replies)] /\ crossed' \in SUBSET Procs
      BY <2>6, ReplyTypes, WireTypes DEF CacheDomain
    <3> QED
      BY <2>1, <2>6, <3>1 DEF CacheDomain
  <2>7. CASE DomainCached(p)
    <3>1. wire' \in [Conns -> Seq(Replies)] /\ crossed' \in SUBSET Procs
      BY <2>7, WireTypes DEF DomainCached
    <3> QED
      BY <2>7, <3>1 DEF DomainCached, AfterDomain
  <2>8. CASE GetShort(p)
    <3>1. wire' \in [Conns -> Seq(Replies)] /\ crossed' \in SUBSET Procs
      BY <2>1, <2>8, ReplyTypes, WireTypes DEF GetShort
    <3> QED
      BY <2>8, <3>1 DEF GetShort
  <2>9. CASE ShortReplyArrives(p)
    <3>1. PICK r \in Replies :
            /\ Receive(p, r)
            /\ \/ r.id # NoAccount /\ AfterFound(p, r.id)
               \/ /\ r.id = NoAccount
                  /\ GoTo(p, IF job[p] = "user" THEN "idle" ELSE "short_row")
                  /\ UNCHANGED found
      BY <2>9 DEF ShortReplyArrives
    <3>2. wire' \in [Conns -> Seq(Replies)] /\ crossed' \in SUBSET Procs
      BY <3>1, WireTypes
    <3>3. pc' \in [Procs -> Places] /\ found' \in [Procs -> {NoAccount} \cup Ids]
      BY <3>1 DEF AfterFound, Replies
    <3> QED
      BY <2>9, <3>2, <3>3 DEF ShortReplyArrives
  <2>10. CASE ReadShort(p)
    BY <2>1, <2>10 DEF ReadShort
  <2>11. CASE CacheShort(p)
    <3>1. wire' \in [Conns -> Seq(Replies)] /\ crossed' \in SUBSET Procs
      BY <2>11, ReplyTypes, WireTypes DEF CacheShort
    <3> QED
      BY <2>1, <2>11, <3>1 DEF CacheShort
  <2>12. CASE ShortCached(p)
    <3>1. wire' \in [Conns -> Seq(Replies)] /\ crossed' \in SUBSET Procs
      BY <2>12, WireTypes DEF ShortCached
    <3> QED
      BY <2>12, <3>1 DEF ShortCached, AfterFound
  <2>13. CASE GetPass(p)
    BY <2>13 DEF GetPass
  <2>14. CASE InsertDomain(p)
    BY <2>1, <2>14 DEF InsertDomain
  <2>15. CASE InsertAccount(p)
    <3>1. made' \in 1 .. MaxAccounts
      BY <2>15 DEF InsertAccount
    <3>2. accounts' \in SUBSET (Ids \X Names) /\ found' \in [Procs -> {NoAccount} \cup Ids]
      BY <2>1, <2>15, <3>1 DEF InsertAccount, Ids
    <3>3. made' \in 0 .. MaxAccounts
      BY <3>1
    <3> QED
      BY <2>15, <3>2, <3>3 DEF InsertAccount
  <2>16. CASE InsertShort(p)
    BY <2>1, <2>16 DEF InsertShort
  <2>17. CASE InsertBoxes(p)
    <3> DEFINE All == {Boxes[i] : i \in 1 .. Len(Boxes)}
    <3>1. PICK saved \in SUBSET All : mailboxes' = [mailboxes EXCEPT ![found[p]] = saved]
      BY <2>17 DEF InsertBoxes
    <3>2. mailboxes \in [Ids -> SUBSET All]
      OBVIOUS
    <3> HIDE DEF All
    <3>3. mailboxes' \in [Ids -> SUBSET All]
      BY <3>1, <3>2
    <3>4. mailboxes' \in [Ids -> SUBSET {Boxes[i] : i \in 1 .. Len(Boxes)}]
      BY <3>3 DEF All
    <3>5. pc' \in [Procs -> Places]
      BY <2>17 DEF InsertBoxes
    <3>6. UNCHANGED <<domains, accounts, shortcuts, rDomains, rShorts, wire, crossed, job,
                      name, known, found, made, added, raced, faults>>
      BY <2>17 DEF InsertBoxes
    <3> QED
      BY <3>4, <3>5, <3>6
  <2>18. CASE QueryFails(p)
    BY <2>18 DEF QueryFails
  <2> QED
    BY <1>2, <2>2, <2>3, <2>4, <2>5, <2>6, <2>7, <2>8, <2>9, <2>10, <2>11, <2>12, <2>13,
       <2>14, <2>15, <2>16, <2>17, <2>18 DEF ProcStep
<1>3. ASSUME NEW c \in Conns, Dies(c)
      PROVE  DirTypeOK'
  <2>1. wire' \in [Conns -> Seq(Replies)]
    BY <1>3 DEF Dies
  <2>2. /\ pc' \in [Procs -> Places]
        /\ known' \in [Procs -> BOOLEAN]
        /\ found' \in [Procs -> {NoAccount} \cup Ids]
        /\ crossed' \in SUBSET Procs
    BY <1>3 DEF Dies, Places
  <2>3. faults' \in 0 .. MaxFaults
    BY <1>3 DEF Dies
  <2>4. UNCHANGED <<domains, accounts, shortcuts, mailboxes, rDomains, rShorts, job, name,
                    made, added, raced>>
    BY <1>3 DEF Dies, cassandra, redis, past
  <2> QED
    BY <2>1, <2>2, <2>3, <2>4
<1>4. CASE Evict
  BY <1>4 DEF Evict, cassandra, net, local, past
<1> QED
  BY <1>1, <1>2, <1>3, <1>4 DEF DirNext

\* The processes, the wires and both stores keep their types.
THEOREM DirTypeCorrect == DirSpec => []DirTypeOK
<1>1. DirInit => DirTypeOK
  BY DirectoryConstants DEF DirInit, DirTypeOK, Places, Jobs, Ids
<1> QED
  BY <1>1, DirTypeStep, PTL DEF DirSpec

-----------------------------------------------------------------------------
(* What is found has an account *)

\* If a is an account at all, it is one of name n.
Named(a, n) == a # NoAccount => <<a, n>> \in accounts

\* Where what a process found is about to be written, by a look-up to the cache or by
\* a console to both stores: it comes from Cassandra, never from a reply.
Writing == {"cache_short", "announce_short", "short_announced", "insert_short"}

\* A process that waits alone on its context has one reply there, about its name.
ProcNamed(p) ==
    /\ p \notin crossed \/ pc[p] \in Writing => Named(found[p], name[p])
    /\ p \notin crossed /\ pc[p] \in Waiting =>
           /\ Others(p) = {}
           /\ \E r \in Replies : wire[Conn[p]] = <<r>> /\ Named(r.id, name[p])

StoresNamed == \A n \in Names : Named(rShorts[n], n) /\ Named(shortcuts[n], n)

FoundInv == StoresNamed /\ \A p \in Procs : ProcNamed(p)

\* A process that a step does not touch keeps its part of the invariant, if nobody
\* else comes to wait on its context or takes its reply.
LEMMA Untouched ==
    ASSUME NEW q \in Procs, ProcNamed(q), accounts \subseteq accounts',
           pc'[q] = pc[q], name'[q] = name[q], found'[q] = found[q],
           q \in crossed => q \in crossed',
           pc[q] \in Waiting /\ q \notin crossed' =>
               wire'[Conn[q]] = wire[Conn[q]] /\ Others(q)' \subseteq Others(q)
    PROVE  ProcNamed(q)'
BY DEF ProcNamed, Named

\* Who waits besides q, when p alone moves and does not come to wait.
LEMMA NoMoreOthers ==
    ASSUME DirTypeOK, NEW p \in Procs, NEW q \in Procs, NEW place \in Places, GoTo(p, place),
           place \notin Waiting \/ Conn[p] # Conn[q]
    PROVE  Others(q)' \subseteq Others(q)
BY DEF Others, GoTo, DirTypeOK

\* A reply that names no account, or the account of the name asked for, is named.
LEMMA RepliesNamed ==
    ASSUME StoresNamed
    PROVE  /\ \A n \in Names : Named(Status.id, n)
           /\ \A d \in Domains, n \in Names : Named(DomainReply(d).id, n)
           /\ \A n \in Names : Named(ShortReply(n).id, n)
BY DEF StoresNamed, Named, Status, DomainReply, ShortReply

\* A process that sends a command, and changes nothing else but its place.
LEMMA SendingKeeps ==
    ASSUME DirTypeOK, FoundInv, NEW p \in Procs, NEW r \in Replies,
           Named(r.id, name[p]), Send(p, r), pc[p] \notin Waiting,
           NEW place \in Waiting, GoTo(p, place), UNCHANGED <<name, found, accounts>>,
           place \in Writing => pc[p] \in Writing
    PROVE  \A q \in Procs : ProcNamed(q)'
<1>1. pc'[p] = place /\ \A q \in Procs \ {p} : pc'[q] = pc[q]
  BY DEF GoTo, DirTypeOK
<1>2. \A q \in Procs : Conn[q] \in Conns
  BY DirectoryConstants DEF Procs
<1>3. ProcNamed(p)'
  <2>1. CASE p \in crossed'
    BY <1>1, <2>1 DEF FoundInv, ProcNamed, Named
  <2>2. CASE p \notin crossed'
    <3>1. wire[Conn[p]] = <<>> /\ Others(p) = {} /\ p \notin crossed
      BY <2>2 DEF Send
    <3>2. wire'[Conn[p]] = <<r>>
      <4>1. Append(<<>>, r) = <<r>>
        OBVIOUS
      <4> QED
        BY <1>2, <3>1, <4>1 DEF DirTypeOK, Send
    <3>3. Others(p)' = {}
      BY <1>1, <3>1 DEF Others
    <3> QED
      BY <1>1, <3>1, <3>2, <3>3 DEF FoundInv, ProcNamed, Named
  <2> QED
    BY <2>1, <2>2
<1>4. ASSUME NEW q \in Procs \ {p}
      PROVE  ProcNamed(q)'
  <2>1. q \in crossed => q \in crossed'
    BY DEF Send
  <2>2. ASSUME pc[q] \in Waiting, q \notin crossed'
        PROVE  wire'[Conn[q]] = wire[Conn[q]] /\ Others(q)' \subseteq Others(q)
    <3>1. Conn[q] # Conn[p]
      BY <2>2 DEF Send, Others
    <3>2. place \in Places
      BY DEF Places, Waiting
    <3> QED
      BY <1>2, <3>1, <3>2, NoMoreOthers DEF Send, DirTypeOK
  <2> QED
    BY <1>1, <2>1, <2>2, Untouched DEF FoundInv
<1> QED
  BY <1>3, <1>4

\* A process that takes a reply and finds nothing else than what it says.
LEMMA ReceivingKeeps ==
    ASSUME DirTypeOK, FoundInv, NEW p \in Procs, NEW r \in Replies,
           Receive(p, r), pc[p] \in Waiting, NEW place \in Places \ Waiting, GoTo(p, place),
           NEW a, found' = [found EXCEPT ![p] = a], a \in {r.id, found[p], NoAccount},
           place \in Writing => pc[p] \in Writing /\ a = found[p],
           UNCHANGED <<name, accounts>>
    PROVE  \A q \in Procs : ProcNamed(q)'
<1>1. /\ pc'[p] = place /\ found'[p] = a /\ crossed' = crossed
      /\ \A q \in Procs \ {p} : pc'[q] = pc[q] /\ found'[q] = found[q]
  BY DEF GoTo, DirTypeOK, Receive
<1>2. \A q \in Procs : Conn[q] \in Conns
  BY DirectoryConstants DEF Procs
<1>3. ProcNamed(p)'
  <2>1. ASSUME p \notin crossed
        PROVE  Named(r.id, name[p])
    <3>1. PICK s \in Replies : wire[Conn[p]] = <<s>> /\ Named(s.id, name[p])
      BY <2>1 DEF FoundInv, ProcNamed
    <3>2. Head(<<s>>) = s
      OBVIOUS
    <3> QED
      BY <3>1, <3>2 DEF Receive
  <2> QED
    BY <1>1, <2>1 DEF FoundInv, ProcNamed, Named
<1>4. ASSUME NEW q \in Procs \ {p}
      PROVE  ProcNamed(q)'
  <2>1. ASSUME pc[q] \in Waiting, q \notin crossed'
        PROVE  wire'[Conn[q]] = wire[Conn[q]] /\ Others(q)' \subseteq Others(q)
    <3>1. p \notin Others(q)
      BY <1>1, <2>1 DEF FoundInv, ProcNamed
    <3>2. Conn[q] # Conn[p]
      BY <3>1 DEF Others
    <3> QED
      BY <1>2, <3>2, NoMoreOthers DEF Receive, DirTypeOK
  <2> QED
    BY <1>1, <2>1, Untouched DEF FoundInv
<1> QED
  BY <1>3, <1>4

\* A process that leaves its context alone and finds an account that is there.
LEMMA LocalKeeps ==
    ASSUME DirTypeOK, FoundInv, NEW p \in Procs, pc[p] \notin Waiting,
           NEW place \in Places \ Waiting, GoTo(p, place), UNCHANGED wire,
           crossed' \in {crossed, crossed \ {p}},
           NEW a, found' = [found EXCEPT ![p] = a],
           NEW n, name' = [name EXCEPT ![p] = n],
           p \notin crossed' \/ place \in Writing => (a # NoAccount => <<a, n>> \in accounts'),
           accounts \subseteq accounts'
    PROVE  \A q \in Procs : ProcNamed(q)'
<1>1. /\ pc'[p] = place /\ found'[p] = a /\ name'[p] = n
      /\ \A q \in Procs \ {p} : pc'[q] = pc[q] /\ found'[q] = found[q] /\ name'[q] = name[q]
  BY DEF GoTo, DirTypeOK
<1>2. ProcNamed(p)'
  BY <1>1 DEF FoundInv, ProcNamed, Named
<1>3. ASSUME NEW q \in Procs \ {p}
      PROVE  ProcNamed(q)'
  BY <1>1, NoMoreOthers, Untouched DEF FoundInv
<1> QED
  BY <1>2, <1>3

\* The stores name what they named when nothing is written but accounts.
LEMMA StoresKept ==
    ASSUME StoresNamed, UNCHANGED <<rShorts, shortcuts>>, accounts \subseteq accounts'
    PROVE  StoresNamed'
BY DEF StoresNamed, Named

\* One step of a process keeps the invariant.
LEMMA FoundStep ==
    ASSUME DirTypeOK, FoundInv, NEW p \in Procs, ProcStep(p)
    PROVE  FoundInv'
<1> USE DEF cassandra, redis, net, local, past, At, Waiting, Writing, Places
<1>0. /\ name[p] \in Names /\ DomainOf(p) \in Domains
      /\ found = [found EXCEPT ![p] = found[p]] /\ name = [name EXCEPT ![p] = name[p]]
      /\ p \notin crossed \/ pc[p] \in Writing => Named(found[p], name[p])
  BY DEF DirTypeOK, DomainOf, Names, FoundInv, ProcNamed
<1>1. CASE Begin(p)
  <2>1. PICK n \in Names, place \in {"announce_domain", "get_domain"} :
            name' = [name EXCEPT ![p] = n] /\ GoTo(p, place)
    BY <1>1 DEF Begin
  <2>2. \A q \in Procs : ProcNamed(q)'
    BY <1>1, <2>1, LocalKeeps DEF Begin
  <2> QED
    BY <1>1, <2>2, StoresKept DEF Begin, FoundInv
<1>2. CASE GetDomain(p)
  <2>1. \A q \in Procs : ProcNamed(q)'
    BY <1>0, <1>2, ReplyTypes, RepliesNamed, SendingKeeps DEF GetDomain, FoundInv
  <2> QED
    BY <1>2, <2>1, StoresKept DEF GetDomain, FoundInv
<1>3. CASE DomainReplyArrives(p)
  <2>1. PICK r \in Replies, place \in {"domain_row", "get_short", "idle"} :
            Receive(p, r) /\ GoTo(p, place)
    BY <1>3 DEF DomainReplyArrives, AfterDomain
  <2>2. \A q \in Procs : ProcNamed(q)'
    BY <1>0, <1>3, <2>1, ReceivingKeeps DEF DomainReplyArrives
  <2> QED
    BY <1>3, <2>2, StoresKept DEF DomainReplyArrives, FoundInv
<1>4. CASE ReadDomain(p)
  <2>1. PICK place \in {"cache_domain", "get_short", "idle"} : GoTo(p, place)
    BY <1>4 DEF ReadDomain, AfterDomain
  <2>2. \A q \in Procs : ProcNamed(q)'
    BY <1>0, <1>4, <2>1, LocalKeeps DEF ReadDomain, Named
  <2> QED
    BY <1>4, <2>2, StoresKept DEF ReadDomain, FoundInv
<1>5. CASE CacheDomain(p)
  <2>1. PICK place \in {"domain_cached", "domain_announced"} : GoTo(p, place)
    BY <1>5 DEF CacheDomain
  <2>2. \A q \in Procs : ProcNamed(q)'
    BY <1>0, <1>5, <2>1, ReplyTypes, RepliesNamed, SendingKeeps DEF CacheDomain, FoundInv
  <2> QED
    BY <1>5, <2>2, StoresKept DEF CacheDomain, FoundInv
<1>6. CASE DomainCached(p)
  <2>1. PICK r \in Replies, place \in {"insert_domain", "get_short", "idle"} :
            Receive(p, r) /\ GoTo(p, place)
    BY <1>6 DEF DomainCached, AfterDomain
  <2>2. \A q \in Procs : ProcNamed(q)'
    BY <1>0, <1>6, <2>1, ReceivingKeeps DEF DomainCached
  <2> QED
    BY <1>6, <2>2, StoresKept DEF DomainCached, FoundInv
<1>7. CASE GetShort(p)
  <2>1. \A q \in Procs : ProcNamed(q)'
    BY <1>0, <1>7, ReplyTypes, RepliesNamed, SendingKeeps DEF GetShort, FoundInv
  <2> QED
    BY <1>7, <2>1, StoresKept DEF GetShort, FoundInv
<1>8. CASE ShortReplyArrives(p)
  <2>1. PICK r \in Replies, place \in {"get_pass", "short_row", "idle"} :
            /\ Receive(p, r) /\ GoTo(p, place)
            /\ \E a \in {r.id, found[p]} : found' = [found EXCEPT ![p] = a]
    BY <1>0, <1>8 DEF ShortReplyArrives, AfterFound
  <2>2. \A q \in Procs : ProcNamed(q)'
    BY <1>8, <2>1, ReceivingKeeps DEF ShortReplyArrives
  <2> QED
    BY <1>8, <2>2, StoresKept DEF ShortReplyArrives, FoundInv
<1>9. CASE ReadShort(p)
  <2>1. PICK place \in {"cache_short", "insert_account", "idle"} : GoTo(p, place)
    BY <1>9 DEF ReadShort
  <2>2. \A q \in Procs : ProcNamed(q)'
    BY <1>0, <1>9, <2>1, LocalKeeps DEF ReadShort, FoundInv, StoresNamed, Named
  <2> QED
    BY <1>9, <2>2, StoresKept DEF ReadShort, FoundInv
<1>10. CASE CacheShort(p)
  <2>1. PICK place \in {"short_cached", "short_announced"} : GoTo(p, place)
    BY <1>10 DEF CacheShort
  <2>2. \A q \in Procs : ProcNamed(q)'
    BY <1>0, <1>10, <2>1, ReplyTypes, RepliesNamed, SendingKeeps DEF CacheShort, FoundInv
  <2>3. StoresNamed'
    BY <1>0, <1>10 DEF CacheShort, FoundInv, StoresNamed, Named, DirTypeOK
  <2> QED
    BY <2>2, <2>3 DEF FoundInv
<1>11. CASE ShortCached(p)
  <2>1. PICK r \in Replies, place \in {"insert_short", "get_pass", "idle"} :
            Receive(p, r) /\ GoTo(p, place) /\ (place \in Writing => pc[p] \in Writing)
    BY <1>11 DEF ShortCached, AfterFound
  <2>2. found' = [found EXCEPT ![p] = found[p]]
    BY <1>0, <1>11 DEF ShortCached, AfterFound
  <2>3. \A q \in Procs : ProcNamed(q)'
    BY <1>11, <2>1, <2>2, ReceivingKeeps DEF ShortCached
  <2> QED
    BY <1>11, <2>3, StoresKept DEF ShortCached, FoundInv
<1>12. CASE GetPass(p)
  <2>1. \A q \in Procs : ProcNamed(q)'
    BY <1>0, <1>12, LocalKeeps DEF GetPass, Named
  <2> QED
    BY <1>12, <2>1, StoresKept DEF GetPass, FoundInv
<1>13. CASE InsertDomain(p)
  <2>1. \A q \in Procs : ProcNamed(q)'
    BY <1>0, <1>13, LocalKeeps DEF InsertDomain, Named
  <2> QED
    BY <1>13, <2>1, StoresKept DEF InsertDomain, FoundInv
<1>14. CASE InsertAccount(p)
  <2>1. <<made', name[p]>> \in accounts' /\ accounts \subseteq accounts'
    BY <1>14 DEF InsertAccount
  <2>2. \A q \in Procs : ProcNamed(q)'
    BY <1>0, <1>14, <2>1, LocalKeeps DEF InsertAccount
  <2> QED
    BY <1>14, <2>1, <2>2, StoresKept DEF InsertAccount, FoundInv
<1>15. CASE InsertShort(p)
  <2>1. \A q \in Procs : ProcNamed(q)'
    BY <1>0, <1>15, LocalKeeps DEF InsertShort, Named
  <2>2. StoresNamed'
    BY <1>0, <1>15 DEF InsertShort, FoundInv, StoresNamed, Named, DirTypeOK
  <2> QED
    BY <2>1, <2>2 DEF FoundInv
<1>16. CASE InsertBoxes(p)
  <2>1. \A q \in Procs : ProcNamed(q)'
    BY <1>0, <1>16, LocalKeeps DEF InsertBoxes, Named
  <2> QED
    BY <1>16, <2>1, StoresKept DEF InsertBoxes, FoundInv
<1>17. CASE QueryFails(p)
  <2>1. \A q \in Procs : ProcNamed(q)'
    BY <1>0, <1>17, LocalKeeps DEF QueryFails
  <2> QED
    BY <1>17, <2>1, StoresKept DEF QueryFails, FoundInv
<1> QED
  BY <1>1, <1>2, <1>3, <1>4, <1>5, <1>6, <1>7, <1>8, <1>9, <1>10, <1>11, <1>12, <1>13, <1>14,
     <1>15, <1>16, <1>17 DEF ProcStep

\* Whatever happens keeps the invariant.
LEMMA FoundInvStep ==
    DirTypeOK /\ FoundInv /\ [DirNext]_dirVars => FoundInv'
<1> SUFFICES ASSUME DirTypeOK, FoundInv, [DirNext]_dirVars
             PROVE  FoundInv'
  OBVIOUS
<1>1. CASE UNCHANGED dirVars
  BY <1>1 DEF dirVars, cassandra, redis, net, local, FoundInv, StoresNamed, ProcNamed, Named,
                Others
<1>2. ASSUME NEW p \in Procs, ProcStep(p)
      PROVE  FoundInv'
  BY <1>2, FoundStep
<1>3. ASSUME NEW c \in Conns, Dies(c)
      PROVE  FoundInv'
  <2>1. StoresNamed'
    BY <1>3, StoresKept DEF Dies, cassandra, redis, FoundInv
  <2>2. ASSUME NEW q \in Procs, Conn[q] = c
        PROVE  ProcNamed(q)'
    BY <1>3, <2>2 DEF Dies, DirTypeOK, ProcNamed, Named, Waiting, Writing
  <2>3. ASSUME NEW q \in Procs, Conn[q] # c
        PROVE  ProcNamed(q)'
    <3>1. Conn[q] \in Conns
      BY DirectoryConstants DEF Procs
    <3>2. Others(q)' \subseteq Others(q)
      BY <1>3, <2>3 DEF Dies, DirTypeOK, Others
    <3> QED
      BY <1>3, <2>3, <3>1, <3>2, Untouched DEF Dies, DirTypeOK, FoundInv, cassandra
  <2> QED
    BY <2>1, <2>2, <2>3 DEF FoundInv
<1>4. CASE Evict
  <2>1. \A q \in Procs : ProcNamed(q)'
    BY <1>4, Untouched DEF Evict, cassandra, net, local, FoundInv, Others
  <2>2. StoresNamed'
    BY <1>4, ZenonT(60) DEF Evict, cassandra, FoundInv, StoresNamed, Named, DirTypeOK
  <2> QED
    BY <2>1, <2>2 DEF FoundInv
<1> QED
  BY <1>1, <1>2, <1>3, <1>4 DEF DirNext

\* Whoever a look-up returns has an account row of that name, unless another process
\* of the same context waited for a reply meanwhile: neither store names an account
\* before it is saved, and what a process takes from the wrong question it forgets
\* (lib/models/Account.src.cc 263-277, lib/args/arg-actions.src.cc 156-162).
THEOREM FoundHaveAccounts == DirSpec => []FoundHasAccount
<1>1. DirInit => FoundInv
  BY DirectoryConstants
     DEF DirInit, FoundInv, StoresNamed, ProcNamed, Named, Waiting, Procs
<1>2. DirTypeOK /\ FoundInv /\ [DirNext]_dirVars => FoundInv'
  BY FoundInvStep
<1>3. FoundInv => FoundHasAccount
  BY DEF FoundInv, ProcNamed, Named, FoundHasAccount, Procs
<1> QED
  BY <1>1, <1>2, <1>3, DirTypeCorrect, PTL DEF DirSpec

-----------------------------------------------------------------------------
(* Cache and database name the same account *)

\* A miss in Redis means that the name is still free there, or taken by now.
Missed(n) == rShorts[n] = NoAccount \/ shortcuts[n] # NoAccount

\* What is about to be cached is what Cassandra holds; a console waits alone on its
\* context, and once past its look-up it has the name to itself unless there was a race.
Careful(p) ==
    /\ pc[p] = "cache_short" =>
          found[p] # NoAccount /\ (name[p] \in raced \/ found[p] = shortcuts[name[p]])
    /\ job[p] = "add_user" \/ pc[p] \in Adding => p \in Consoles
    /\ p \in Consoles => p \notin crossed /\ (pc[p] \notin Waiting => wire[Conn[p]] = <<>>)
    /\ p \in Consoles /\ name[p] \notin raced =>
          /\ pc[p] = "short_reply" =>
                \A r \in Replies : wire[Conn[p]] = <<r>> /\ r.id = NoAccount => Missed(name[p])
          /\ pc[p] = "short_row" => Missed(name[p])
          /\ pc[p] \in Adding => shortcuts[name[p]] = NoAccount
          /\ pc[p] \in {"insert_account", "announce_short"} => rShorts[name[p]] = NoAccount
          /\ pc[p] \in {"short_announced", "insert_short"} =>
                rShorts[name[p]] \in {NoAccount, found[p]}

\* Two consoles at one name, both past their question, raced for it.
RacesSeen ==
    \A p \in Consoles : \A q \in Rivals(p) :
        pc[p] \in AskedOrAdding /\ pc[q] \in AskedOrAdding => name[p] \in raced

AgreeInv == CacheAgrees /\ RacesSeen /\ \A p \in Procs : Careful(p)

\* A process that a step does not touch stays careful while nothing is cached or
\* saved, though keys may vanish.
LEMMA StaysCareful ==
    ASSUME NEW q \in Procs, Careful(q), pc'[q] = pc[q], name'[q] = name[q],
           found'[q] = found[q], job'[q] = job[q],
           q \in Consoles => wire'[Conn[q]] = wire[Conn[q]] /\ q \notin crossed',
           raced \subseteq raced',
           UNCHANGED shortcuts, \A n \in Names : rShorts'[n] \in {NoAccount, rShorts[n]},
           name[q] \in Names
    PROVE  Careful(q)'
BY DEF Careful, Missed, Adding

\* A step that moves one process, and not to its question about a name, sees no new race.
LEMMA NoNewRace ==
    ASSUME RacesSeen, raced \subseteq raced', NEW p \in Procs,
           pc'[p] \in AskedOrAdding => pc[p] \in AskedOrAdding /\ name'[p] = name[p],
           \A q \in Procs \ {p} : pc'[q] = pc[q] /\ name'[q] = name[q]
    PROVE  RacesSeen'
BY DEF RacesSeen, Rivals, Procs

\* A step of a process that neither caches nor saves a shortcut keeps the agreement,
\* if the process itself stays careful.
LEMMA AgreeKept ==
    ASSUME DirTypeOK, FoundInv, AgreeInv, NEW p \in Procs, Careful(p)', RacesSeen',
           UNCHANGED <<rShorts, shortcuts>>, raced \subseteq raced',
           \A q \in Procs \ {p} :
               /\ pc'[q] = pc[q] /\ name'[q] = name[q]
               /\ found'[q] = found[q] /\ job'[q] = job[q]
               /\ q \in Consoles => wire'[Conn[q]] = wire[Conn[q]] /\ q \notin crossed'
    PROVE  AgreeInv'
<1>1. CacheAgrees'
  BY DEF AgreeInv, CacheAgrees
<1>2. ASSUME NEW q \in Procs \ {p}
      PROVE  Careful(q)'
  <2>1. name[q] \in Names /\ Careful(q)
    BY DEF DirTypeOK, AgreeInv
  <2>2. \A n \in Names : rShorts'[n] \in {NoAccount, rShorts[n]}
    OBVIOUS
  <2> QED
    BY <2>1, <2>2, StaysCareful
<1> QED
  BY <1>1, <1>2 DEF AgreeInv

\* What a process does leaves the others where they are, and the consoles' contexts.
LEMMA OthersLeftAlone ==
    ASSUME DirTypeOK, AgreeInv, NEW p \in Procs, ProcStep(p), NEW q \in Procs \ {p}
    PROVE  /\ pc'[q] = pc[q] /\ name'[q] = name[q] /\ found'[q] = found[q]
           /\ job'[q] = job[q]
           /\ q \in Consoles => wire'[Conn[q]] = wire[Conn[q]] /\ q \notin crossed'
<1> USE DEF DirTypeOK, GoTo
<1>1. /\ Conn[p] \in Conns /\ Conn[q] \in Conns
      /\ q \in Consoles => Conn[p] # Conn[q] /\ q \notin crossed
  BY DirectoryConstants DEF Procs, AgreeInv, Careful
<1>2. ASSUME NEW r, Send(p, r) \/ Receive(p, r), q \in Consoles
      PROVE  wire'[Conn[q]] = wire[Conn[q]] /\ q \notin crossed'
  BY <1>1, <1>2 DEF Send, Receive, Others
<1>3. CASE Begin(p) \/ GetDomain(p) \/ DomainReplyArrives(p) \/ ReadDomain(p)
           \/ CacheDomain(p) \/ DomainCached(p)
  BY <1>1, <1>2, <1>3 DEF Begin, GetDomain, DomainReplyArrives, ReadDomain, CacheDomain,
                          DomainCached, AfterDomain, net
<1>4. CASE GetShort(p) \/ ShortReplyArrives(p) \/ ReadShort(p) \/ CacheShort(p)
           \/ ShortCached(p)
  BY <1>1, <1>2, <1>4 DEF GetShort, ShortReplyArrives, ReadShort, CacheShort, ShortCached,
                          AfterFound, net
<1>5. CASE GetPass(p) \/ InsertDomain(p) \/ InsertAccount(p) \/ InsertShort(p)
           \/ InsertBoxes(p) \/ QueryFails(p)
  BY <1>1, <1>5 DEF GetPass, InsertDomain, InsertAccount, InsertShort, InsertBoxes, QueryFails,
                    net
<1> QED
  BY <1>3, <1>4, <1>5 DEF ProcStep

\* A console that sends a command is alone on its context before and while it waits;
\* one that takes its reply leaves the context empty.
LEMMA ConsoleAlone ==
    ASSUME DirTypeOK, FoundInv, AgreeInv, NEW p \in Consoles, NEW r \in Replies,
           \/ Send(p, r) /\ pc[p] \notin Waiting
           \/ Receive(p, r) /\ pc[p] \in Waiting
    PROVE  /\ p \notin crossed'
           /\ Send(p, r) => wire'[Conn[p]] = <<r>>
           /\ Receive(p, r) => wire[Conn[p]] = <<r>> /\ wire'[Conn[p]] = <<>>
<1>1. /\ Conn[p] \in Conns /\ Others(p) = {} /\ p \in Procs /\ p \notin crossed
      /\ pc[p] \notin Waiting => wire[Conn[p]] = <<>>
  BY DirectoryConstants DEF Procs, Others, AgreeInv, Careful
<1>2. CASE Send(p, r) /\ pc[p] \notin Waiting
  <2>1. Append(<<>>, r) = <<r>> /\ <<r>> # <<>>
    OBVIOUS
  <2>2. wire'[Conn[p]] = <<r>> /\ p \notin crossed'
    BY <1>1, <1>2, <2>1 DEF Send, DirTypeOK
  <2>3. ~ Receive(p, r)
    BY <1>1, <1>2 DEF Receive
  <2> QED
    BY <2>2, <2>3
<1>3. CASE Receive(p, r) /\ pc[p] \in Waiting
  <2>1. PICK s \in Replies : wire[Conn[p]] = <<s>>
    BY <1>1, <1>3 DEF FoundInv, ProcNamed
  <2>2. Head(<<s>>) = s /\ Tail(<<s>>) = <<>> /\ Append(<<s>>, r) # <<>>
        /\ Append(<<s>>, r) # Tail(<<s>>)
    BY Len(<<s>>) = 1
  <2>3. wire[Conn[p]] = <<r>> /\ wire'[Conn[p]] = <<>> /\ p \notin crossed'
    BY <1>1, <1>3, <2>1, <2>2 DEF Receive, DirTypeOK
  <2>4. ~ Send(p, r)
    BY <1>1, <1>3, <2>1, <2>2, <2>3 DEF Send, DirTypeOK
  <2> QED
    BY <2>3, <2>4
<1> QED
  BY <1>2, <1>3

\* One step of a process keeps the agreement.
LEMMA AgreeStep ==
    ASSUME DirTypeOK, FoundInv, AgreeInv, NEW p \in Procs, ProcStep(p)
    PROVE  AgreeInv'
<1> USE DEF cassandra, redis, net, past, At, GoTo, Adding
<1>0. /\ name[p] \in Names /\ pc[p] \in Places /\ job[p] \in Jobs
      /\ Careful(p) /\ ProcNamed(p) /\ RacesSeen
      /\ \A q \in Procs \ {p} :
             /\ pc'[q] = pc[q] /\ name'[q] = name[q]
             /\ found'[q] = found[q] /\ job'[q] = job[q]
             /\ q \in Consoles => wire'[Conn[q]] = wire[Conn[q]] /\ q \notin crossed'
  BY OthersLeftAlone DEF DirTypeOK, FoundInv, AgreeInv
<1>1. CASE Begin(p)
  <2>1. Careful(p)'
    BY <1>0, <1>1 DEF Begin, Careful, DirTypeOK, Waiting
  <2>2. RacesSeen'
    BY <1>0, <1>1, NoNewRace DEF Begin, DirTypeOK, AskedOrAdding
  <2> QED
    BY <1>0, <1>1, <2>1, <2>2, AgreeKept DEF Begin
<1>2. CASE \/ GetDomain(p) \/ DomainReplyArrives(p) \/ ReadDomain(p)
           \/ CacheDomain(p) \/ DomainCached(p)
  <2>1. /\ pc'[p] \in {"domain_reply", "domain_row", "cache_domain", "domain_cached",
                       "domain_announced", "insert_domain", "get_short", "idle"}
        /\ UNCHANGED <<name, job, raced, rShorts, shortcuts>>
    BY <1>2 DEF GetDomain, DomainReplyArrives, ReadDomain, CacheDomain, DomainCached,
                AfterDomain, DirTypeOK
  <2>2. p \in Consoles => p \notin crossed' /\ (pc'[p] \notin Waiting => wire'[Conn[p]] = <<>>)
    <3>1. CASE GetDomain(p) \/ CacheDomain(p)
      BY <1>0, <3>1, ConsoleAlone, ReplyTypes
         DEF GetDomain, CacheDomain, DomainOf, Names, Waiting, DirTypeOK
    <3>2. CASE DomainReplyArrives(p) \/ DomainCached(p)
      BY <1>0, <3>2, ConsoleAlone DEF DomainReplyArrives, DomainCached, Waiting
    <3>3. CASE ReadDomain(p)
      BY <1>0, <3>3 DEF ReadDomain, Careful, Waiting
    <3> QED
      BY <1>2, <3>1, <3>2, <3>3
  <2>3. Careful(p)'
    BY <1>0, <2>1, <2>2 DEF Careful
  <2>4. RacesSeen'
    BY <1>0, <2>1, NoNewRace DEF AskedOrAdding
  <2> QED
    BY <1>0, <2>1, <2>3, <2>4, AgreeKept
<1>3. CASE GetShort(p)
  <2>0. ShortReply(name[p]) \in Replies /\ pc'[p] = "short_reply" /\ pc[p] = "get_short"
        /\ Send(p, ShortReply(name[p]))
    BY <1>0, <1>3, ReplyTypes DEF GetShort, DirTypeOK
  <2>1. p \in Consoles => p \notin crossed' /\ wire'[Conn[p]] = <<ShortReply(name[p])>>
    BY <2>0, ConsoleAlone DEF Waiting
  <2>2. \A r : <<ShortReply(name[p])>> = <<r>> => r.id = rShorts[name[p]]
    BY DEF ShortReply
  <2>3. Careful(p)'
    BY <1>0, <1>3, <2>0, <2>1, <2>2 DEF GetShort, Careful, Missed, Waiting
  <2>4. raced \subseteq raced'
    BY <1>3 DEF GetShort
  <2>5. RacesSeen'
    <3> SUFFICES ASSUME NEW q1 \in Consoles, NEW q2 \in Consoles, q1 # q2,
                        name'[q1] = name'[q2],
                        pc'[q1] \in AskedOrAdding, pc'[q2] \in AskedOrAdding
                 PROVE  name'[q1] \in raced'
      BY DEF RacesSeen, Rivals
    <3>1. name' = name
      BY <1>3 DEF GetShort
    <3>2. CASE q1 = p
      BY <1>0, <1>3, <3>1, <3>2 DEF GetShort, Rivals, Procs
    <3>3. CASE q2 = p
      BY <1>0, <1>3, <3>1, <3>3 DEF GetShort, Rivals, Procs
    <3>4. CASE q1 # p /\ q2 # p
      BY <1>0, <2>4, <3>1, <3>4 DEF RacesSeen, Rivals, Procs
    <3> QED
      BY <3>2, <3>3, <3>4
  <2> QED
    BY <1>0, <1>3, <2>3, <2>4, <2>5, AgreeKept DEF GetShort
<1>4. CASE ShortReplyArrives(p)
  <2>1. PICK r \in Replies :
            /\ Receive(p, r)
            /\ \/ r.id # NoAccount /\ AfterFound(p, r.id)
               \/ /\ r.id = NoAccount
                  /\ GoTo(p, IF job[p] = "user" THEN "idle" ELSE "short_row")
                  /\ UNCHANGED found
    BY <1>4 DEF ShortReplyArrives
  <2>2. p \in Consoles => wire[Conn[p]] = <<r>> /\ wire'[Conn[p]] = <<>> /\ p \notin crossed'
    BY <1>4, <2>1, ConsoleAlone DEF ShortReplyArrives, Waiting
  <2>3. pc'[p] \in {"get_pass", "idle", "short_row"}
    BY <2>1 DEF AfterFound, DirTypeOK
  <2>4. pc'[p] = "short_row" => r.id = NoAccount
    BY <2>1 DEF AfterFound, DirTypeOK
  <2>5. Careful(p)'
    BY <1>0, <1>4, <2>2, <2>3, <2>4 DEF ShortReplyArrives, Careful, Missed
  <2>6. RacesSeen'
    BY <1>0, <1>4, <2>3, NoNewRace DEF ShortReplyArrives, AskedOrAdding
  <2> QED
    BY <1>0, <1>4, <2>5, <2>6, AgreeKept DEF ShortReplyArrives
<1>5. CASE ReadShort(p)
  <2>1. Careful(p)'
    BY <1>0, <1>5 DEF ReadShort, Careful, Missed, DirTypeOK, Waiting
  <2>2. RacesSeen'
    BY <1>0, <1>5, NoNewRace DEF ReadShort, AskedOrAdding
  <2> QED
    BY <1>0, <1>5, <2>1, <2>2, AgreeKept DEF ReadShort
<1>6. CASE CacheShort(p)
  <2>0. /\ pc[p] \in {"cache_short", "announce_short"}
        /\ pc'[p] = IF pc[p] = "cache_short" THEN "short_cached" ELSE "short_announced"
        /\ Send(p, Status) /\ UNCHANGED <<name, job, found, raced, shortcuts>>
    BY <1>6 DEF CacheShort, DirTypeOK
  <2>1. /\ rShorts'[name[p]] = found[p]
        /\ \A n \in Names : n # name[p] => rShorts'[n] = rShorts[n]
    BY <1>0, <1>6 DEF CacheShort, DirTypeOK
  <2>2. CacheAgrees'
    BY <1>0, <2>0, <2>1 DEF Careful, AgreeInv, CacheAgrees
  <2>3. p \in Consoles => p \notin crossed'
    BY <2>0, ConsoleAlone, ReplyTypes DEF Waiting
  <2>4. Careful(p)'
    BY <1>0, <2>0, <2>1, <2>3 DEF Careful, Waiting
  <2>5. ASSUME NEW q \in Procs \ {p}
        PROVE  Careful(q)'
    <3>1. Careful(q) /\ name[q] \in Names
      BY DEF AgreeInv, DirTypeOK
    <3>2. CASE name[q] # name[p] \/ name[q] \in raced \/ q \notin Consoles
      BY <1>0, <2>0, <2>1, <3>1, <3>2 DEF Careful, Missed
    <3>3. CASE name[q] = name[p] /\ name[q] \notin raced /\ q \in Consoles
      <4>1. CASE pc[p] = "cache_short"
        BY <1>0, <2>0, <2>1, <3>1, <3>3, <4>1 DEF Careful, Missed
      <4>2. CASE pc[p] = "announce_short"
        <5>1. p \in Consoles
          BY <1>0, <4>2 DEF Careful
        <5>2. pc[q] \notin AskedOrAdding
          BY <1>0, <3>3, <4>2, <5>1 DEF RacesSeen, Rivals, AskedOrAdding
        <5> QED
          BY <1>0, <2>0, <3>1, <5>2 DEF Careful, AskedOrAdding
      <4> QED
        BY <2>0, <4>1, <4>2
    <3> QED
      BY <3>2, <3>3
  <2>6. RacesSeen'
    BY <1>0, <2>0, NoNewRace DEF AskedOrAdding
  <2> QED
    BY <2>2, <2>4, <2>5, <2>6 DEF AgreeInv
<1>7. CASE ShortCached(p)
  <2>1. /\ pc'[p] \in {"get_pass", "idle", "insert_short"}
        /\ pc'[p] = "insert_short" => pc[p] = "short_announced"
        /\ pc[p] = "short_announced" => UNCHANGED found
    BY <1>7 DEF ShortCached, AfterFound, DirTypeOK
  <2>2. p \in Consoles => p \notin crossed' /\ wire'[Conn[p]] = <<>>
    BY <1>7, ConsoleAlone DEF ShortCached, Waiting
  <2>3. Careful(p)'
    BY <1>0, <1>7, <2>1, <2>2 DEF ShortCached, Careful
  <2>4. RacesSeen'
    BY <1>0, <1>7, <2>1, NoNewRace DEF ShortCached, AskedOrAdding
  <2> QED
    BY <1>0, <1>7, <2>3, <2>4, AgreeKept DEF ShortCached
<1>8. CASE GetPass(p) \/ InsertDomain(p) \/ InsertBoxes(p) \/ QueryFails(p)
  <2>1. /\ pc'[p] = "idle" /\ pc[p] \notin Waiting
        /\ UNCHANGED <<job, raced, rShorts, shortcuts, wire, crossed>>
    BY <1>8 DEF GetPass, InsertDomain, InsertBoxes, QueryFails, DirTypeOK, Waiting
  <2>2. Careful(p)'
    BY <1>0, <2>1 DEF Careful
  <2>3. RacesSeen'
    BY <1>0, <2>1, NoNewRace DEF AskedOrAdding
  <2> QED
    BY <1>0, <2>1, <2>2, <2>3, AgreeKept
<1>9. CASE InsertAccount(p)
  <2>1. Careful(p)'
    BY <1>0, <1>9 DEF InsertAccount, Careful, DirTypeOK, Waiting
  <2>2. RacesSeen'
    BY <1>0, <1>9, NoNewRace DEF InsertAccount, AskedOrAdding
  <2> QED
    BY <1>0, <1>9, <2>1, <2>2, AgreeKept DEF InsertAccount
<1>10. CASE InsertShort(p)
  <2>1. /\ shortcuts'[name[p]] = found[p]
        /\ \A n \in Names : n # name[p] => shortcuts'[n] = shortcuts[n]
        /\ pc[p] = "insert_short" /\ pc'[p] = "insert_boxes"
        /\ UNCHANGED <<rShorts, job, name, found, raced, wire, crossed>>
    BY <1>0, <1>10 DEF InsertShort, DirTypeOK
  <2>2. /\ p \in Consoles
        /\ name[p] \notin raced => /\ shortcuts[name[p]] = NoAccount
                                  /\ rShorts[name[p]] \in {NoAccount, found[p]}
    BY <1>0, <2>1 DEF Careful
  <2>3. CacheAgrees'
    BY <2>1, <2>2 DEF AgreeInv, CacheAgrees
  <2>4. Careful(p)'
    BY <1>0, <2>1, <2>2 DEF Careful, Waiting
  <2>5. ASSUME NEW q \in Procs \ {p}
        PROVE  Careful(q)'
    <3>1. Careful(q) /\ name[q] \in Names
      BY DEF AgreeInv, DirTypeOK
    <3>2. CASE name[q] # name[p] \/ name[q] \in raced
      BY <1>0, <2>1, <3>1, <3>2 DEF Careful, Missed
    <3>3. CASE name[q] = name[p] /\ name[q] \notin raced
      <4>1. pc[q] # "cache_short"
        BY <2>2, <3>1, <3>3 DEF Careful
      <4>2. q \in Consoles => pc[q] \notin AskedOrAdding
        BY <1>0, <2>1, <2>2, <3>3 DEF RacesSeen, Rivals, AskedOrAdding
      <4> QED
        BY <1>0, <2>1, <3>1, <4>1, <4>2 DEF Careful, AskedOrAdding
    <3> QED
      BY <3>2, <3>3
  <2>6. RacesSeen'
    BY <1>0, <2>1, NoNewRace DEF AskedOrAdding
  <2> QED
    BY <2>3, <2>4, <2>5, <2>6 DEF AgreeInv
<1> QED
  BY <1>1, <1>2, <1>3, <1>4, <1>5, <1>6, <1>7, <1>8, <1>9, <1>10 DEF ProcStep

\* Redis never names another account for a name than Cassandra does, unless two consoles
\* added that name at one time, whatever the server's threads take from each other
\* (lib/models/Account.src.cc 263-277, lib/args/arg-actions.src.cc 117-162).
THEOREM CachesAgree == DirSpec => []CacheAgrees
<1>1. DirInit => FoundInv /\ AgreeInv
  <2>1. DirInit => FoundInv
    BY DirectoryConstants
       DEF DirInit, FoundInv, StoresNamed, ProcNamed, Named, Waiting, Writing, Procs
  <2>2. DirInit => AgreeInv
    BY DirectoryConstants
       DEF DirInit, AgreeInv, CacheAgrees, RacesSeen, Rivals, AskedOrAdding, Careful, Adding,
           Waiting, Procs
  <2> QED
    BY <2>1, <2>2
<1>2. DirTypeOK /\ FoundInv /\ AgreeInv /\ [DirNext]_dirVars => AgreeInv'
  <2> SUFFICES ASSUME DirTypeOK, FoundInv, AgreeInv, [DirNext]_dirVars
               PROVE  AgreeInv'
    OBVIOUS
  <2>1. CASE UNCHANGED dirVars
    BY <2>1 DEF dirVars, cassandra, redis, net, local, past, AgreeInv, CacheAgrees, RacesSeen,
                Rivals, Careful, Missed
  <2>2. ASSUME NEW p \in Procs, ProcStep(p)
        PROVE  AgreeInv'
    BY <2>2, AgreeStep
  <2>3. ASSUME NEW c \in Conns, Dies(c)
        PROVE  AgreeInv'
    <3>1. CacheAgrees'
      BY <2>3 DEF Dies, cassandra, redis, past, AgreeInv, CacheAgrees
    <3>2. RacesSeen'
      BY <2>3 DEF Dies, past, AgreeInv, RacesSeen, Rivals, AskedOrAdding, Adding, Procs
    <3>3. ASSUME NEW q \in Procs
          PROVE  Careful(q)'
      <4>1. Conn[q] \in Conns /\ Careful(q) /\ name[q] \in Names
        BY DirectoryConstants DEF Procs, AgreeInv, DirTypeOK
      <4>2. q \in Consoles => q \notin crossed'
        BY <2>3, <4>1 DEF Dies, Careful
      <4>3. CASE Conn[q] = c
        BY <2>3, <4>1, <4>2, <4>3 DEF Dies, Careful, Adding, DirTypeOK
      <4>4. CASE Conn[q] # c
        BY <2>3, <4>1, <4>2, <4>4, StaysCareful DEF Dies, DirTypeOK, cassandra, redis, past
      <4> QED
        BY <4>3, <4>4
    <3> QED
      BY <3>1, <3>2, <3>3 DEF AgreeInv
  <2>4. CASE Evict
    <3>1. /\ UNCHANGED <<shortcuts, raced, crossed, wire, pc, job, name, known, found>>
          /\ \A n \in Names : rShorts'[n] \in {NoAccount, rShorts[n]}
      BY <2>4 DEF Evict, cassandra, net, local, past, DirTypeOK
    <3>2. CacheAgrees' /\ RacesSeen'
      BY <3>1 DEF AgreeInv, CacheAgrees, RacesSeen, Rivals
    <3>3. ASSUME NEW q \in Procs
          PROVE  Careful(q)'
      <4>1. Careful(q) /\ name[q] \in Names
        BY DEF AgreeInv, DirTypeOK
      <4> QED
        BY <3>1, <4>1, StaysCareful DEF Careful
    <3> QED
      BY <3>2, <3>3 DEF AgreeInv
  <2> QED
    BY <2>1, <2>2, <2>3, <2>4 DEF DirNext
<1>3. DirTypeOK /\ FoundInv /\ [DirNext]_dirVars => FoundInv'
  BY FoundInvStep
<1>4. AgreeInv => CacheAgrees
  BY DEF AgreeInv
<1> QED
  BY <1>1, <1>2, <1>3, <1>4, DirTypeCorrect, PTL DEF DirSpec
=============================================================================
