# fsmtp-v2 in TLA+

A model of the FSMTP-V2 mail server (ESMTP in, relaying out, POP3, Cassandra
and Redis behind), checked with TLC on small instances and, for what matters
most, proved with TLAPS for every instance. Paths are relative to `src/`.

## 1. The system

`main.cc` starts two servers and two workers in one process; everything that
runs concurrently is a thread of it. An administrator's console is a second
process on the same databases.

| part | source | state | operations | talks to |
|---|---|---|---|---|
| SMTP server | `lib/smtp/server/SMTPServer.src.cc`, `handlers/data.src.cc`, `SMTPAuthentication.src.cc` | one `SMTPServerSession` per connection: flags, actions performed, sender, account, storage and relay tasks, spam mark, X-Fannst-Flags | one per command; the body handler reads, checks, parses, answers, queues | directory, checks, both workers' queues |
| storage worker | `lib/workers/DatabaseWorker.src.cc` | a queue of shared session pointers | take a session, copy its tasks, store each | sessions, mail store |
| transmission worker | `lib/workers/TransmissionWorker.src.cc` | a queue of shared session pointers | take a session, relay, report errors | sessions, SMTP client |
| SMTP client | `lib/smtp/client/SMTPClient.src.cc` | targets, error log, one client session per target | sign, resolve, connect, converse | DNS, remote servers |
| mail store | `lib/models` (UIDs, shortcuts, raw messages, mailbox status) | Cassandra: shortcuts, raw messages; Redis: highest UID, mailbox counters | save, list, read, delete, restore a lost key | – |
| directory | `lib/models/Account`, `LocalDomain`, `lib/args/arg-actions.src.cc` | Cassandra: domains, accounts, names, mailboxes; Redis: cached look-ups; one hiredis context per server | look a domain or a name up, add one | – |
| POP3 server | `lib/pop3/P3Server.src.cc` | per connection: account, AUTH, references, graveyard | one per command; the deletions after the loop | directory, mail store |
| sockets | `lib/networking/sockets` | descriptor, TLS | `peek`, `read`, `readToDelim`, `write`, accept | peers |
| sender checks | `lib/spf`, `lib/dmarc`, `lib/dkim`, `lib/networking/IP*` | the validator's result | evaluate a record, compare an address, verify a signature | DNS |
| message text | `lib/mime`, `lib/builders`, composer, `Email`, DKIM's signer and canonicalisation | none | split, join, fold, parse, compose, sign | – |
| commands and replies | `lib/smtp/Command`, `Response`, `lib/pop3/P3Commands`, `P3Response` | none | parse, build | sockets |
| not started | `lib/imap` (not built), `lib/http`, DNS server, `lib/openai` | – | – | – |

What is hard here, and what makes a part correct:

- **SMTP server.** Who may send as whom is spread over AUTH, MAIL FROM, SU,
  STARTTLS and RCPT TO, which a client sends in any order, with look-ups that
  fail half-way. Correct: relaying only for a proven user under his own
  address; a message queued once and only after it was answered; a suspect
  message not addressed to an inbox; accepted recipients kept; connections end.
- **Workers.** They share the session, by pointer, with a thread that still
  takes commands; queues are stacks in memory; failures are swallowed. Correct:
  each task once and from the right session, no second relay, nothing outside
  before the reply, reports to proven senders only, queues drain.
- **SMTP client.** One switch whose cases fall through decides the next command
  from the reply's code and from what was done; the code may be left over from
  an earlier read. Correct: commands in order and once, the message over TLS
  only, no success without an answer, an end whatever the server says.
- **Mail store.** Storing a message is seven or eight calls to two databases
  with nothing that makes them one; Redis may drop a key between any two.
  Correct: UIDs unique, counters cover the messages, what is listed is there.
- **Directory.** A look-up fills a cache that a console writes to as well,
  before it writes to the database; the threads of a server share one context,
  on which replies come in the order of the commands. Correct: whoever is found
  has an account, cache and database name the same one.
- **POP3.** A session works on a listing that grows stale, deletes after the
  loop whatever ended it, and writes to its client inside catch clauses.
  Correct: only what was marked goes, numbers stay, one session's trouble stays
  its own.
- **Sender checks.** The SPF evaluation is a recursion over records of strangers,
  each of whose mechanisms may throw and is then passed over. Correct: no one is
  allowed whom no policy names, no one denied whom one names by address, the
  published DMARC policy followed, the recursion no deeper than the policies make it.
- **Message text.** Signer and validator canonicalise the same message after
  different treatment; folding counts columns with two lengths of piece. Correct:
  what was signed verifies, nothing is lost, our own reports arrive.
- **The stream.** A delimiter may be cut anywhere, and the search for it starts
  in what was read before. Bytes arrive whenever they like, between the
  peek and the read that rests on it, too. Correct: the server takes a command for what
  was sent, the client a reply for what was answered, and both go on.

## 2. The modules

| module | models | checked by | proofs |
|---|---|---|---|
| `SmtpServer` | the SMTP server's sessions and the two queues it fills | `MCSmtpServer` | `SmtpServerProofs` |
| `Delivery` (extends `SmtpServer`) | server and both workers, with crashes | `MCDelivery` | `DeliveryProofs` |
| `RelayContract` | what the transmission worker may expect of its client | (through `SmtpClient`) | (through `SmtpClient`) |
| `SmtpClient` | one message taken to the servers of its recipients | `MCSmtpClient` | `SmtpClientProofs` |
| `MailStore` | the steps of storing one message, evictions, failures | `MCPop3` | `StoreProofs` |
| `Pop3` (extends `MailStore`) | POP3 sessions on the store while it is written to | `MCPop3` | `StoreProofs` |
| `Directory` | look-ups through the cache, the console that adds | `MCDirectory` | `DirectoryProofs` |
| `IpPrefix` | addresses compared with a prefix | (through `Spf`) | (in `SenderCheckProofs`) |
| `Spf` (extends `IpPrefix`) | SPF records and the recursion that evaluates them | (through `SenderCheck`) | (in `SenderCheckProofs`) |
| `SenderCheck` (extends `Spf`) | DMARC, the verdicts of the body handler, SU | `MCSenderCheck` | `SenderCheckProofs` |
| `Text` | lines, headers, folding, relaxed canonicalisation | (through `MessagePath`) | – |
| `MessagePath` (extends `Text`) | a message composed, rebuilt, signed, sent, verified, parsed | `MCMessagePath` | – |
| `Wire` (uses `Text`) | commands and replies on a stream cut anywhere | `MCWire` | `WireProofs` |
| `Selection` | members of a sequence at chosen places, for `SmtpServer` and `Spf` | (through these) | (in `OrderLemmas`) |
| `OrderLemmas` | minimum and maximum of sets of naturals, the k-th of a set of places, for the proofs | – | itself |

**SmtpServer.** `phase` is where a connection's thread is: `"command"` is the
loop of `startHandler`, the phases `"body"` to `"relay"` the steps of
`dataHandler` between which other threads may run, `"spin"` the read of a plain
peer that has left. `flags`, `actions`, `transportFrom`, `sendingAccount`,
`storageTasks`, `relayTasks`, `possibleSpam` and `xfannst` are the session's
members of these names. Each command that changes the session is an action
named after it; the commands that only answer, and every refused one, are
`Answer`; those that end the connection use `CloseAfter`. MAIL FROM and RCPT TO
are split by what the look-ups find. Addresses are model values of three kinds:
accounts of a local domain, local domains without such a user, other domains.
SPF's result and DMARC's policy are chosen freely here (SenderCheck has them). A
message brings its X-Fannst-Flags headers (`FlagHeaders`), which `ParsedFlags`
turns into the session's two flags; the four of the runs give every combination.
`verified` is history: the accounts whose password was compared.

**Delivery** adds one program counter per worker. `TakeStorage` and `TakeRelay`
are the critical sections under the queue's mutex; `CopyTasks` copies the tasks
out of a session whose connection may still append to them. `StoreTask` has the
outcome of one task. `Prepare`, `SendTo`, `SendThrows` and `SendHangs` are the
steps of the client as RelayContract allows them; of the recipients left only
the number matters (`txTargets`), as do the errors (`txErrors`). `TxIdle` is the
worker's catch clause, which drops what is left; with `txStep = "hang"` the
worker waits for a remote server for ever. `Crash` loses connections and queues.
`filed`, `tried` and `reports` are history. A task is logged in `filed` with
whether it was stored.

**SmtpClient** is one call of `configureRecipients`, `prepare` and `beSocial`.
`step` is where the thread is: `"read"` waits for a reply, `"act"` is the switch
on its code, `"greet"` the greeting sent again after the TLS handshake in the
same round, `"options"` the loop that reads the lines of the reply to EHLO one by one
(`MoreOptions`, `LastOption`, `OptionsFail`), which nothing but the server ends.
`Turn` is the case in which the fall-through ends. `code` is the
variable of that name together with the stack slot it lives in, so it keeps its
value from one target to the next and has any value before the first read.
`pending` is `s_Targets` from the current one on, `done`, `esmtp` and `secured`
are the target's session and socket. Servers answer anything, refuse, go silent
(`GoesSilent`) or leave; `NoServer` is `servers[0]` of an empty list.
`dialogue` (what was said on the connection, until the next one replaces it), `broken`
and `accepted` are history.

**MailStore** is the body of `DatabaseWorker`'s loop opened up: `step` is the
call about to be made. `uidHolder` and `hash`/`counters` are the Redis keys of
`UIDHolder` and `MailboxStatus`; `"partial"` is a hash that HMSET created anew
with a few of its fields. Environment steps are a call that throws or a process
that dies (`TaskFails`), an insert that is applied although it times out
(`LateInsert`), an eviction. A crash needs no action of its own: the task's
thread stops and nothing it did is undone, which is `TaskFails`.

**Pop3** has a thread per client. `Pass` takes the listing of the inbox, `Dele`
marks numbers in it; `LeaveLoop` is every way out of the command loop, after
which `BuryShortcut` and `BuryRaw` delete. `Terminate` is `std::terminate`.
`Environment` and `StorageStep` of MailStore interleave with the sessions.

**Directory.** `domains`, `accounts`, `shortcuts` and `mailboxes` are Cassandra's
tables, `rDomains` and `rShorts` the keys in Redis. `pc` is the call a thread or
a console is in, `job` what it is for: MAIL FROM wants the domain only, RCPT TO
and AUTH the name as well, POP3's USER asks Redis alone, `add_domain` and
`add_user` are the console. A Redis command is two steps, since `redisCommand`
writes to the context's buffer and then takes the next reply on it: `wire` holds
the replies on their way, and `Conn` says which processes share a context.
`DomainReplyArrives` and `ShortReplyArrives` have what the code makes of each type
of reply. `QueryFails` is a DatabaseException, `Dies` the end of a process,
`Evict` Redis dropping a key. History: `added`, the domains somebody set out to add;
`crossed`, who had to wait for a reply on a context while another process did;
`raced`, the names that two consoles were adding at one time.

**IpPrefix, Spf.** `Compare4` shifts the addresses as a little-endian machine
stores them, `Compare6` looks at the high bits. `InNet4` and `InNet6` are not taken from
the code: they say what a network is, the addresses with its leading bits, and the run's
properties are stated with these. `ExactMasks4` are the masks for which the code
comes to the same. An address that is none (`IllFormed`) or a mask of any number
is something a record may have. `stack` holds the calls of
`SPFValidator::validate` in progress, each with the mechanisms it has left:
`Checks` lists them in the code's order. `Fetch` reads a record, `Try` evaluates a
mechanism, `CallAgain` is include and redirect, and `Throws` unwinds to the
innermost include, which is the only one to catch. `StackOverflow` is a recursion
deeper than `MaxDepth`, which stands for the stack (some 900 calls of 9 KB each on the
usual 8 MB) and has nothing to do with the number of domains. In the properties a
domain's policy `Listed` the client (by address, in terms the code reads as they are
meant), `Named` it (by anything) or has a term that is `Misread`.

**SenderCheck.** `run` is where the thread is. `AskDmarc`, the SPF steps,
`JudgeSpf` and `JudgeDkim` are the first half of `dataHandler` in its order;
`AskSu` and `JudgeSu` are the SU command, whose validation is not the safe one.
`published` and `signed` are history.

**Text, MessagePath.** A text is a sequence of tokens: characters where the code
looks at them, whole words where it only copies or compares them. `JoinHeaders`,
`Parse`, `FoldHeader`, `RelaxedBody` and so on are the functions of the same
names, written as recursive functions over lines. `stage` is how far a message
has come: `Submit` and `Receive` are `dataHandler` (the rebuilding of headers and
the parsing of addresses and sections included), `Sign` and `Validate` DKIM's two
ends, `Transmit` the missing dot-stuffing. A hash and a signature are fixed
texts; `attested` records what they were made of, so that a verification succeeds
exactly when both sides come to the same canonical text. An uninitialised MIME
type is any type (`unset`); a null iterator ends the process (`"died"`).

**Wire.** `flight` is what is on its way, `arrived` what a socket holds, `result`
and `want` the local variables of `readToDelim`, whose loop is `Peek` followed by
a read (`ReadOn`, or one of the actions that take the line). The other actions
are the builders and parsers of both protocols: `Say`, `TakeCommand`,
`AnswerCommand`, `HearLine`. The POP3 client is some mail reader and external.
`NoReply` is a handler that throws: the loop drops the command, or ends the connection.
`TextsEnd` and `ParsersUndo` say what the dialogue asks of each text by itself. `astray`
is history: the sides whose `readToDelim` has taken bytes behind a delimiter
(`WellRead` says of each read that it did not).

*Abstract specifications.* RelayContract knows the open recipients, the number
of errors and how the call ended; the run `smtp_client` and the theorem
`ClientKeepsContract` show that SmtpClient implements it (mapping: `pending`,
`errorCount`, and `step` where it is an end). MailStore with its two actions
`Expunge` and `ExpungeRaw`, which are there for this purpose only, is what the store has
a right to expect of POP3; the run `pop3` checks that Pop3 implements it (property
`StoreBehaviour`; the mapping is the identity on the store's variables, a session's own
steps are stutters) and, with the sessions in the place of these two actions, the
store's invariants.

*How the modules fit together.* SmtpServer's free choices are settled elsewhere:
the results of its look-ups in Directory, SPF and DMARC in SenderCheck, what a
parsed message is in MessagePath, that a command is read as it was sent in Wire.
Delivery uses RelayContract for SmtpClient, and one step for MailStore's task.

Operators headed "Wrong on purpose" are variants of a definition with a
plausible mistake in it; no specification uses them. They exist to show that a
property notices the mistake.

## 3. The runs

Runs that pass (distinct states in the last column):

| run | instance | shows | states |
|---|---|---|---|
| `smtp_server` | 1 connection, 2 users, 1 unknown, 1 remote address, 9 commands, 3 recipients | every order of nine commands with DATA inside: authorisation, Sent copy, queueing, spam targets, recipients, termination | 181,543 |
| `delivery` | 1 connection, 7 commands, 3 recipients, 1 crash | workers against a session that goes on; everything queued is finished | 203,861 |
| `smtp_client` | 3 recipients, the second of a domain of our own | every answer of every server: order, TLS, no invented success, the contract, termination | 33,761 |
| `pop3` | 2 sessions, 2 accounts, 2 messages, 2 faults | storing under evictions, failures and deletions; stale listings; refinement | 2,028,376 |
| `directory` | 2 threads on one context, 1 console, 1 domain, 1 name, 2 accounts, 1 fault | look-ups against the console and evictions: accounts found, cache and database agree | 3,403,859 |
| `sender_check` | 4 domains with any of 7 records, 3 clients, 4 DMARC answers, a stack of 3 calls, 1 failed look-up | no unearned denial or permission, DMARC followed, recursion no deeper than the policies | 3,368,010 |
| `message` | 411 texts of users, 84 composed ones, 3 answers to the key query | signatures verify, nothing is lost, reports arrive | 5,078 |
| `wire` | 11 SMTP commands, 2 messages, 4 POP3 commands | dialogues over a stream cut anywhere: understood, answered, where reading goes wrong first | 39,168 |

Why the bounds are enough.

- SMTP: relaying needs four commands (HELO, AUTH, MAIL FROM, RCPT TO) and DATA;
  nine leave room for a repeated one, a TLS upgrade with a new HELO, a second
  DATA and a recipient after it. Three recipients give a local one, a relayed
  one with its Sent copy and another of either kind. Connections share nothing
  but the queues, so one is enough for a session's properties; that the sessions
  of many connections are not mixed in the queues is proved, in
  `DeliveryProofs`, for any number of them (two with four commands each have 18
  million states). `MaxCommands` is 60 in the code; the limit is reached.
- Client: three recipients give a first, an own and a last target, each entered
  with whatever code the one before left.
- Store and POP3: a restored UID needs two messages and one eviction, a restored
  counter the same; two sessions suffice for a listing that another session has
  shortened.
- Directory: two threads and a console are the fewest in which one thread refills
  the cache while another reads it and a name is added; the console's name may
  be free or taken, and the second account is the one a mistake would make. The
  threads are of one server and share its context; the console is a process of its own.
  The default mailboxes, which no look-up reads, are none here. A second console
  (4.7 million states with one thread) is left to the proofs.
- Sender checks: with four domains an include can lead through others back to the
  queried one, a circle need not contain it, and four that refer on in a chain exhaust
  the stack of three calls without any circle; all 2401 assignments of the seven
  records are starting states. They have ill-formed addresses, a prefix shorter than
  the address of either protocol, one longer, and `mx:` with another domain. An address
  has four octets of one bit, as many octets as the code shifts over, so that masks
  fall between, before and behind them.
- Messages: a line has 9 tokens for 128 and quoted-printable 6 for 76; the
  subjects' lengths lie on both sides of one, two and three lines. Nested multiparts are
  followed to depth 2.
- Wire: `Room` is 6 for 255, shorter than most lines, so that one line takes
  several peeks; the two messages end one byte short of a delimiter and with half
  of one.

`MaxRcpt`, `MaxCrashes`, `MaxMessages`, `MaxFaults`, `MaxMarks`, `MaxAccounts`
and `MaxLookups` bound what is unbounded in the code; each is a guard and
nothing else.

In `wire` bytes arrive in any pieces and at any time. Once a side has read past a
delimiter the turn is still played to its end, and then nothing more is said
(`LastTurnAstray`, an action constraint): what is left over would pile up from turn to
turn without end. `AnswersMatch` and `AlwaysAnswered` say nothing of a dialogue that has
gone astray, `LongTextsOnly` says where it can, and `read_ahead` shows that it does.

Runs that find a violation check what a comment of the repository says and the
code does not do:

| run | what is said | what happens |
|---|---|---|
| `delivery_served` | an accepted recipient receives (`SMTPServer.src.cc` 431) | a RCPT TO after the worker's copy is answered 250 and forgotten |
| `directory_shared` | a domain is found if it is in one of the stores (`LocalDomain.src.cc` 208) | with a server's one context a thread takes the reply to another's question |
| `spf_subnet` | an allowed client is "part of IPv4 subnet [...]" (`SPFValidator.src.cc` 267) | the comparison drops as many trailing bits as the mask should keep leading ones |
| `read_ahead` | "keeps reading untill delimiter is reached"; the peek allows pipelining (`ClientSocket.src.cc` 160) | a read takes bytes of the next line, or the delimiter itself, and goes on |

**Met while modelling**, in the model as the code has it unless said otherwise,
and without a run of their own.

*Server and workers.* RCPT TO after DATA adds a task for the inbox to a suspect
session (`data.src.cc` 284 moves the earlier ones only). Both workers take the
back of their queue where the comments say the front (`DatabaseWorker.src.cc` 52,
66; `TransmissionWorker.src.cc` 75, 89). An exception drops the remaining
recipients and the errors already collected (`TransmissionWorker.src.cc` 139;
`README.MD` 22 promises the report), and a read that fails is no error, so the
sender "will otherwise not know" (126). HELO falls through into the default
case, so a server without ESMTP never gets a message (`SMTPClient.src.cc`
561-586, where the comment at 323-325 knows of such servers); the code of the
reply to EHLO is not looked at; a delivered message whose QUIT is answered by
anything but 221 is reported as failed.

*Store and POP3.* A UID whose message was deleted is given out again when the key
was evicted (`UIDHolder.src.cc` 79); a restored status has the total 0
(`MailboxStatus.src.cc` 127); `clearRecent` writes `v6` where the counter is `v5`
(49); a hash evicted between HGETALL and HMSET comes back incomplete and `get`
reads beyond it (88). RETR takes a number one past the end of the listing
(`P3Server.src.cc` 608); a failed error reply or greeting ends the process (111);
the listing is gathered in pages of 20 and is no snapshot.

*Directory.* Two consoles that add one name make two accounts of it; what a crash
leaves between the saves, and mailboxes that failed, no command repairs. `addUser`
for an unknown domain logs FATAL and goes on (`arg-actions.src.cc` 113-115).
POP3's USER asks Redis only, so a user whose key was evicted cannot log in until
somebody writes to him.

*Checks.* `/8` compares the first three octets of an IPv4 address, `/24` the first
only (`spf_subnet`), `/32` shifts by the whole width (`IPv4.src.cc` 43); a mask of an IPv6
address below zero makes the shift throw, one above its width compares nothing.
`mx:domain` asks for the MX hosts of the queried domain, where the comment wants those
of the "specified domain" (`SPFRecord.src.cc` 99). A chain of includes as long as the
stack is deep, circle or not, ends the process. Mechanisms with a negative sign are
forgotten; a PTR name matches as a suffix, with or without a dot; an IPv6 client
never matches `a`. A DNS query that fails temporarily counts as a denial and,
under p=reject, as a permanent one. SU's validation throws for a client on this
machine, too. A DMARC segment of a trailing blank makes the record unparsable.
The comments at `DKIMValidator.src.cc` 263-264 and `data.src.cc` 129 want one valid
signature; the first one decides, and a message whose first signature is not valid
counts as failed whatever the second is. A record's `fromDNS` goes on after a good TXT
record and stops at a bad one. Not in the model: `setProtocol` and
`getPolicyString` lack a return.

*Text.* A message without an empty line or a body is walked from a null iterator; a
missing From is `e_From[0]` of an empty vector (`data.src.cc` 269); without a
Content-Type the type is uninitialised. A blank at the start of a continued
chunk and empty segments are lost in joining and folding. A message
that was signed before never verifies. The client signs with relaxed
canonicalisation, which throws without one of the headers to be signed
(`"unsigned"`) or a readable private key (`"keyless"`); the validator knows the
simple one as well. There is no
dot-stuffing (`SMTPClient.src.cc` 391). Quoted-printable is not decoded on
receipt. Not in the model: `DKIMHeader::parse` erases with an iterator of another
string; `RSAverify` decodes at most as many bytes as the text has; the snippet
skips the wrong lines; boundaries and Message-IDs may contain the dictionary's
NUL.

*Wire.* `readToDelim` looks back into what it has read only when that is longer than
the delimiter (`ClientSocket.src.cc` 172-180): a line of less than two bytes or a message
of less than five whose delimiter arrives in pieces is never seen to end. A line of
a reply of several that is longer than a peek makes the number of bytes to read count
those it looked back at, so that the read takes the start of the next line. A text
that holds its own delimiter is cut there. These are the conditions of `TextsEnd`;
the model does what the code does with texts that violate them, and the runs have none.
The same happens with texts that satisfy them when bytes arrive between a peek and its
read: a message's delimiter may be stepped over, and its reader then waits for another;
the next line of a reply may be begun. A single line survives (`LongTextsOnly`).
A command whose look-up throws is dropped without a reply (`SMTPServer.src.cc` 153), so
the client waits.
An EHLO whose argument has a colon is an unknown command, as is everything
else whose name ends at a blank before a colon. A line of fewer than four
characters makes `line.substr(4)` throw: no reply of our server is that short.

*Elsewhere, not modelled.* `EmailShortcut`'s listing ignores its limit and frees a
failed query's future twice (290); `Worker::start` detaches the thread that sets
`isRunning` (`Worker.src.cc` 53).

**Deadlock** is checked everywhere but in `wire` and `read_ahead`, where a
conversation ends with QUIT and nothing is left to do; the steps `Idle`,
`AllDone`, `Sleep`, `CheckEnded` and `MessageEnded` are threads waiting for work
or a thing that has come to its end.

**Fairness.** `FairSpec` of SmtpServer asks that a running connection thread takes
steps (weak fairness of `Serve(c)`): its reads return or fail after the 7 s
timeout set by the acceptor (`ServerSocket.src.cc` 139), and the scheduler runs
it. No client is assumed ever to connect, to quit or to send anything in
particular. `DFairSpec` adds weak fairness of each worker's thread:
`Worker::run` loops over action and sleep for ever. It is stated for the thread
as a whole, not for its single steps. `ConnectionsEnd` counts the hang on a plain
peer's end of file as an end and says so; a connection that hangs holds nothing
others wait for. The client's sockets get no timeout at all, and nothing ends the loop that reads
the lines after EHLO but the server: silence and options without end are the two
exceptions of `ConversationEnds`. `FairSpec` of SmtpClient is weak fairness of the
worker's thread except in that loop, where the next line need never be the last; nothing
else is assumed of remote servers. `"hang"`, the exception of the relaying half of
`QueuesDrain`, stands for both. Wire's `Fairness` is that TCP delivers, a peek or read
of what has arrived returns, the server's handler answers the command it took, drops it or
ends the connection, and a mail reader reads the answer; nobody has to say anything.

## 4. The proofs

All of them hold for every set of connections, addresses, accounts, mailboxes,
domains, names and records and every value of the bounds, under the assumptions of
the modules (`AddressKinds`, `Bounds`, `FlagHeadersType`, `DeliveryConstants`,
`StoreConstants`, `ClientConstants`, `DirectoryConstants`, `IpConstants`,
`SpfConstants`, `SenderConstants`, `WireConstants`): kinds of addresses are disjoint,
bounds are naturals, the inbox is a mailbox, "no session" is no connection, threads are
no consoles and a console has a context of its own, an SPF record is a sequence of terms
whose values are of the kind their keys ask for (or ill-formed addresses), what is sent is
a sequence of bytes. A few theorems carry a hypothesis of their own, named below; TLC
evaluates each of them to TRUE in the instance that is meant to satisfy it.

`SmtpServerProofs`:

- `TypeCorrect`. Typing is not inductive alone: the Sent copy is filed for
  `sendingAccount`, which must be an account by then. `SenderKnown` supplies
  that: AUTH implies a verified account, FROM_LOCAL implies AUTH and MAIL FROM,
  and relay tasks imply FROM_LOCAL. The storage-task operators get lemmas of
  their own (`TasksToSpamType`, `RemoveSentType`).
- `LocalSendersAreVouched`, `RelayIsAuthorised`. The invariant is
  `SenderInv == SenderKnown /\ LocalSenderVouched`; `RelayAuthorised` follows
  from it. It is needed because relaying looks at FROM_LOCAL only: that the
  flag still speaks of the present account and sender rests on AUTH and MAIL
  FROM being accepted once. The lemma `Bystander` deals with the many steps
  that touch none of the variables involved.
- `SenderIsSettled`, an action property, from the same invariant.
- `SuspectsAreNotForInbox`: `TasksToSpam` leaves no inbox task, and commands
  that may add one are served in another phase.
- `SessionsQueuedOnce`. `QueueInv`: no session is twice in a queue, and one that
  is in it has left the part of the body handler before the push (`MayStore`,
  `MayRelay`), which it cannot enter again because DATA_START stays set.
  `StepEffect` sums up what a step of a connection does to the variables the
  workers look at, once for all of them, and `PushNew` and `PopLast` are the
  facts about queues.
- `SentCopyIsKept`. `SentInv` ties a flag, two task lists and the envelope: RELAY
  is set exactly when mail is relayed, there is at most one task for Sent, only
  with RELAY and for the envelope's sender, and with RELAY there is one unless a
  header asked for none. `SentCopy` alone is not inductive, because the handler
  decides on the flag whether a copy is there already.
- `RecipientsAreKept`, an action property. The recipients are the tasks at the
  places that are not Sent's. `RemoveSentIs` says what the erasing leaves;
  `NthMoves` of OrderLemmas, that a map which keeps the order of places keeps the
  k-th of them, so that dropping the copy from between two recipients exchanges
  nobody. `TasksStep` lists what a step can do to the tasks.

`DeliveryProofs`, for any number of sessions in both queues. The invariant
`DeliveryInv` joins the server's two, which the workers do not break
(`ServerInvStep`), with

- `InHand`: a thread that is not idle has a session;
- `FileInv`: what was filed of a session is the beginning of its tasks, and what
  the thread has left the rest of those it copied. It holds through later RCPT
  TOs because the tasks of a session that may be stored only grow, and through
  crashes because a session that is queued or in hand has not been filed before;
- `RelayInv`: what was tried are the first relay tasks, a session that waits was
  neither tried nor reported, and a report is on its way only without nerror.

`FileStays` and `RelayStays` deal with all steps that do not concern the session
in question. `DTypeCorrect`, `TasksFiledInOrder`, `RelayedOnce`,
`NothingLeavesEarly` and `ReportsAreOwed` follow; the last uses that relay tasks
imply an authorised sender. `ServerKeepsPromises` and `SessionsStayTrue` carry the
server's own results over: what SmtpServer shows by itself also holds with workers
that share its sessions and crashes that end them (`OthersStandBy`).

`StoreProofs`, first the store alone:

- `StoreTypeCorrect` with `StoreShape` (finitely many shortcuts; a task in hand
  has an id).
- `UIDsAreUnique`. `UIDBounds` says that whichever of the cached and the
  in-hand UID is about to be used is at least every UID among the shortcuts,
  and after `SetUID` above them all; an eviction may lower the cache only to
  "no key", from where the maximum of the shortcuts is taken again.
- `ListedAreReadable`, by the order of saving and deleting.
- `UnseenCoversMessages`. `CoverInv` follows the thread's own copy of a mailbox's
  status: from the read until it is written back the copy covers the messages,
  afterwards the counter has room for the one about to be saved. `Counted` has
  what saving and deleting do to the number of messages.

and then with any number of POP3 clients on it:

- `Pop3TypeCorrect`.
- `Pop3KeepsStore`: the refinement of MailStore, step by step. It needs the
  invariant: a session expunges a number of its own listing, so `Pop3Inv` says
  that what a logged-in client lists are used ids, that a message found under one
  is of his own inbox, that only he who logged in lists or marks anything, and that
  a raw message is deleted only after its shortcut. An id that was used is never
  given to another message (`IdsOnce`), which keeps a stale listing harmless.
- `Pop3KeepsPromises`: hence the store's three invariants hold with POP3 sessions
  at work.
- `OnlyTheMarkedGo`, `NumbersAreStable`, action properties from the same invariant.

`SenderCheckProofs`, for every set of domains, records and clients:

- `DeathNeedsAChain`. In `ShapeInv` the stack is a `Chain`: its first call asks for
  the queried domain, each other one for a domain that the call below includes or
  redirects to, and there are at most `MaxDepth`. When it overflows, the calls' domains
  and the one about to be called are the chain the property asks for. Nothing relates
  the stack's depth to the number of domains.
- `CleanMailIsAuthorised`, `TheRecordIsFollowed`. `PermitInv`: "allowed" has a
  policy in reach that names the client or has a term that is misread. `JudgeInv`
  carries the verdict, what the DMARC record says and which signature decided through
  the later steps.
- `DenialsAreEarned`. `DenyInv` is about what a call has already passed over:
  everything of its policy is still to do, did not match, is the call above it, or
  led to domains none of which lists the client (`Clean`).

The last three have the hypothesis `ComparesExactly`: for the masks in `ExactMasks4` and
`ExactMasks6` the code's shifts agree with the leading bits that `InNet4` and `InNet6`
compare. It is about powers of two, of which these provers know nothing (not even
that `2 ^ n` is a natural number). TLC evaluates it over all addresses and those masks,
as `MCCompares`, for the instance's one-bit octets and for two-bit ones (four for IPv4,
three for IPv6), where masks end within an octet; `MCMisreads` evaluates that the other
masks of IPv4 do not agree, the shorter ones shutting out addresses of the network and
the longer ones letting in others.

`SmtpClientProofs`, from `ClientConstants` (a natural number of recipients, the
own ones among them):

- `ClientTypeCorrect` with `SomebodyServed`: inside a conversation there is a
  current target, so an error names a recipient.
- `ToldOverTLS`. `DoneInOrder` orders the actions performed; every way to MAIL
  FROM leads through START_TLS_FINISHED while the session speaks ESMTP, and one
  that does not speak ESMTP ends at HELO.
- `CommandsInOrder`. `OnScript`: what was said and what is `Left` to say, a
  function of the actions performed, make up the script, at every step of a connection,
  the one after a failed read included, which still acts on the code left over. It is
  inductive where the prefix alone is not, since the next command depends on the
  actions.
- `SuccessesAreReal`. `SuccessAccounted`: each target dealt with is in the log,
  had a failed read or an accepted body, and so has the current one by the time
  QUIT was sent, `run` is off or the body's answer is acted upon.
- `ClientKeepsContract`: initial states map to initial states, and each action
  to `Settle` of a set of recipients, to `End` or to a stutter.

`DirectoryProofs`, for any threads, consoles and contexts; any threads may share a
context, and nothing keeps two consoles apart:

- `DirTypeCorrect`.
- `FoundHaveAccounts`. `FoundInv`: a process that is not `crossed` and waits for a reply
  is the only one to wait on its context and has exactly one reply there, which names an
  account of the name it asked for or none. Neither store names an account before it was
  saved, and what a process takes from the wrong question is only ever returned: what it
  is about to write to Redis or Cassandra (`Writing`) it read in Cassandra or made itself.
- `CachesAgree`. `AgreeInv` follows a console from its own question to Redis to its
  INSERT: its context is its own, so the reply is to its question, and between the two a
  name that is not `raced` is its own as well, whatever keys vanish (`Careful`). A thread
  that refills the cache holds what Cassandra held, which never changes, whoever's reply
  sent it there.

`WireProofs`, for any commands, messages, replies and lists, any size of a peek, both
protocols, and bytes that arrive in any pieces at any time. All three theorems have the
hypothesis `TextsEnd`: each text sent is followed by the first occurrence of its delimiter
and, but for messages and POP3's replies, is no shorter than it; no line of a list is a
dot. `AnswersAreMatched` also has `ParsersUndo`, that a parser given a single whole text
returns what the builder was given. `MCWire` evaluates both for its texts (`McTexts`), so
that a parser which does not undo its builder fails there, before the first state.

- `WireTurns`. While `astray` is empty, what a reader has collected, what is in its
  socket and what is on its way make up one text, its delimiter and what follows, and it
  has collected less than text and delimiter (`Within`); of a line that no other follows
  also what it is about to read is known from the last peek, whatever has arrived since
  (`Midway`). `Looks` is the lemma about a round of `readToDelim`: a delimiter that the
  search finds in the end of the result and the bytes peeked at is the right one. `Turns`
  lifts this to the dialogue, in which always one of `Asking`, `Asked`, `Answering`,
  `Unanswered` and `Quiet` holds and the side that is not reading has nothing to read.
  `SentGrows` and `SentRest` have what `FlattenSeq` makes of the lines of a reply (by a
  least counterexample, which takes the place of induction here).
- `OnlyLongTextsGoAstray`. Of a line without a successor (`Midway`) a read takes a single
  byte when no delimiter is in sight, which cannot step over one of two bytes, and when one
  is in sight there is nothing behind it to take (`LastLineWell`).
- `AnswersAreMatched`. When nothing is on its way, `Quiet` gives the lines of the reply,
  and that the server parsed the very text the client built.

Only model-checked: `SignedVerifies`, `TextKept` and `ReportArrives` of MessagePath,
which rest on what recursive functions compute from whole messages (folding against
canonicalising, splitting against joining) and so need induction over data;
`ParsersUndo`, for the same reason, and the arithmetic of `ComparesExactly`; and
liveness (`ConnectionsEnd`, `QueuesDrain`, `ConversationEnds`, `AlwaysAnswered`),
which like ENABLED is outside this prover's reach. Every other property of a run
that passes is a theorem.

## 5. What is not modelled, and the plan

Left out of the present modules: the wording of replies and logs; the tokenising
of an SPF record's text; `lib/dkim/deprecated`; the listing of mailboxes, which
nothing calls, and the key pairs of accounts; the torn copy of a vector that is appended to
meanwhile (a data race, `DatabaseWorker.src.cc` 78); the acceptor's blocking TLS
handshake; the width of UIDs and counters (2^31 messages of an account). The
client's code sets no verification of certificates: a handshake succeeds or
fails at will. POP3 reads (STAT, UIDL, LIST, RETR) return what the session or the
store has and change nothing. IMAP is not part of the build, `main` starts
neither the HTTP nor the DNS server, and spam classification calls an external
service that no handler uses.

Next, in this order:

1. Proofs: lemmas about Text's functions by least counterexamples, as `WireProofs` has
   them for joining (first that splitting a line into words undoes joining them, which
   is most of `ParsersUndo`); the comparison of whole octets, where no power of two is
   left.
2. `WorkerLifecycle`: start, run, stop; the acceptors and their handshake.
3. `MailContract`, what a user is promised of a message he sent, refined by
   Delivery; reports that come back through the server's own port.
4. The paging of `gatherAllReferencesWithSize`.
5. The DNS server's zone and messages, HTTP and IMAP, once the build or `main`
   has them.
