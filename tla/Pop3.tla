-------------------------------- MODULE Pop3 --------------------------------
(***************************************************************************)
(* POP3 sessions on the mail store: lib/pop3/P3Server.src.cc, one thread   *)
(* per client.  PASS takes a snapshot of the inbox, DELE marks indices     *)
(* into it, and when the command loop is left, for whatever reason, the    *)
(* marked messages are deleted one by one, the shortcut before the raw     *)
(* message.  Storage and other sessions go on meanwhile.                   *)
(*                                                                         *)
(* The catch clauses of the loop write to the client and nothing encloses  *)
(* them, nor the greeting: an exception there terminates the process.      *)
(***************************************************************************)
EXTENDS MailStore, Sequences

CONSTANTS Clients,
          NoAccount,   \* the account of a session before USER
          MaxMarks     \* bound on the marks of one session

ASSUME Pop3Constants == NoAccount \notin Accounts /\ MaxMarks \in Nat

VARIABLES phase,       \* "bury" deletes a shortcut, "bury_raw" its raw message
          user,        \* s_Account, set by USER
          proved,      \* the AUTH flag: the account PASS was given for
          references,  \* s_References: message ids, oldest first
          graveyard    \* s_Graveyard: indices into references

sessionVars == <<phase, user, proved, references, graveyard>>
vars == <<storeVars, sessionVars>>

Phases == {"none", "command", "bury", "bury_raw", "closed"}

TypeOK ==
    /\ StoreTypeOK
    /\ phase \in [Clients -> Phases]
    /\ user \in [Clients -> Accounts \cup {NoAccount}]
    /\ proved \in [Clients -> Accounts \cup {NoAccount}]
    /\ references \in [Clients -> Seq(Ids)]
    /\ graveyard \in [Clients -> Seq(Nat)]
    /\ \A p \in Clients : \A j \in DOMAIN graveyard[p] :
          graveyard[p][j] \in DOMAIN references[p]

Init ==
    /\ StoreInit
    /\ phase = [p \in Clients |-> "none"]
    /\ user = [p \in Clients |-> NoAccount]
    /\ proved = [p \in Clients |-> NoAccount]
    /\ references = [p \in Clients |-> <<>>]
    /\ graveyard = [p \in Clients |-> <<>>]

Goto(p, where) == phase' = [phase EXCEPT ![p] = where]
Authenticated(p) == proved[p] # NoAccount
Marked(p) == {references[p][i] : i \in {graveyard[p][j] : j \in DOMAIN graveyard[p]}}

\* The inbox as PASS lists it: ascending by time UUID, that is by id.
IsListing(s, a) ==
    /\ {s[i] : i \in DOMAIN s} = {t.id : t \in In(a, Inbox)}
    /\ \A i, j \in DOMAIN s : i < j => s[i] < s[j]

-----------------------------------------------------------------------------
(* Commands *)

Command(p) == phase[p] = "command" /\ UNCHANGED storeVars

Connect(p) ==
    /\ phase[p] = "none"
    /\ Goto(p, "command")
    /\ UNCHANGED <<storeVars, user, proved, references, graveyard>>

\* Everything that only answers: CAPA, STAT, UIDL, LIST, STLS, IMPLEMENTATION,
\* a RETR or TOP that finds its message, a wrong password, an unknown user, an
\* error reply.
Answer(p) == Command(p) /\ UNCHANGED sessionVars

User(p, a) ==
    /\ Command(p)
    /\ ~Authenticated(p)
    /\ user' = [user EXCEPT ![p] = a]
    /\ UNCHANGED <<phase, proved, references, graveyard>>

\* Wrong on purpose: a second PASS is taken.
PassAgain(p) ==
    /\ Command(p)
    /\ user[p] # NoAccount
    /\ \E s \in [1 .. Cardinality(In(user[p], Inbox)) -> Ids] :
          /\ IsListing(s, user[p])
          /\ references' = [references EXCEPT ![p] = s]
    /\ proved' = [proved EXCEPT ![p] = user[p]]
    /\ UNCHANGED <<phase, user, graveyard>>

\* The right password, and the references of the account USER named.
Pass(p) ==
    /\ Command(p)
    /\ ~Authenticated(p)
    /\ user[p] # NoAccount
    /\ \E s \in [1 .. Cardinality(In(user[p], Inbox)) -> Ids] :
          /\ IsListing(s, user[p])
          /\ references' = [references EXCEPT ![p] = s]
    /\ proved' = [proved EXCEPT ![p] = user[p]]
    /\ UNCHANGED <<phase, user, graveyard>>

\* Wrong on purpose: the bound is off by one, as it is in RETR.
DeleOffByOne(p, i) ==
    /\ Command(p)
    /\ Authenticated(p)
    /\ i \in 1 .. Len(references[p]) + 1
    /\ Len(graveyard[p]) < MaxMarks
    /\ graveyard' = [graveyard EXCEPT ![p] = Append(@, i)]
    /\ UNCHANGED <<phase, user, proved, references>>

\* An index may be marked twice.
Dele(p, i) ==
    /\ Command(p)
    /\ Authenticated(p)
    /\ i \in DOMAIN references[p]
    /\ Len(graveyard[p]) < MaxMarks
    /\ graveyard' = [graveyard EXCEPT ![p] = Append(@, i)]
    /\ UNCHANGED <<phase, user, proved, references>>

\* RSET asks for no authentication.
Rset(p) ==
    /\ Command(p)
    /\ graveyard' = [graveyard EXCEPT ![p] = <<>>]
    /\ UNCHANGED <<phase, user, proved, references>>

\* QUIT, a read that fails or times out, a database exception, a write that
\* fails while a command is served: the loop ends.
LeaveLoop(p) ==
    /\ Command(p)
    /\ Goto(p, "bury")
    /\ UNCHANGED <<user, proved, references, graveyard>>

\* RETR of a message another session has deleted: EmptyQuery ends the loop.
RetrGone(p) ==
    /\ \E i \in DOMAIN references[p] : references[p][i] \notin raws
    /\ Authenticated(p)
    /\ LeaveLoop(p)

-----------------------------------------------------------------------------
(* The end of a session *)

\* std::terminate: every session and the storage thread stop where they are.
Terminate ==
    /\ phase' = [q \in Clients |-> IF phase[q] = "none" THEN "none" ELSE "closed"]
    /\ IF step = "idle" THEN UNCHANGED storeVars ELSE TaskFails
    /\ UNCHANGED <<user, proved, references, graveyard>>

\* The greeting cannot be written, or the peer's name not be looked up.
GreetingFails(p) ==
    /\ phase[p] = "none"
    /\ phase' = [q \in Clients |->
                   IF q # p /\ phase[q] = "none" THEN "none" ELSE "closed"]
    /\ IF step = "idle" THEN UNCHANGED storeVars ELSE TaskFails
    /\ UNCHANGED <<user, proved, references, graveyard>>

\* An error reply, written inside a catch clause, cannot be written.
ErrorReplyFails(p) ==
    /\ phase[p] = "command"
    /\ Terminate

\* RETR checks i > size where i counts from 0: the number after the last passes
\* and the vector is read out of bounds.  TOP checks nothing.  The UUID read is
\* no message (the loop ends), or the read itself kills the process.
ReadPastEnd(p) ==
    /\ phase[p] = "command"
    /\ Authenticated(p)
    /\ \/ /\ Goto(p, "bury")
          /\ UNCHANGED <<storeVars, user, proved, references, graveyard>>
       \/ Terminate

\* Wrong on purpose: the index is taken to count from 0.
BuryNext(p) ==
    /\ phase[p] = "bury"
    /\ graveyard[p] # <<>>
    /\ Head(graveyard[p]) + 1 \in DOMAIN references[p]
    /\ DeleteShortcut(references[p][Head(graveyard[p]) + 1])
    /\ Goto(p, "bury_raw")
    /\ UNCHANGED <<user, proved, references, graveyard>>

\* Wrong on purpose: the raw message goes although its shortcut could not be deleted.
BuryShortcutTried(p) ==
    /\ phase[p] = "bury"
    /\ graveyard[p] # <<>>
    /\ DeleteShortcut(references[p][Head(graveyard[p])]) \/ UNCHANGED storeVars
    /\ Goto(p, "bury_raw")
    /\ UNCHANGED <<user, proved, references, graveyard>>

BuryShortcut(p) ==
    /\ phase[p] = "bury"
    /\ graveyard[p] # <<>>
    /\ DeleteShortcut(references[p][Head(graveyard[p])])
    /\ Goto(p, "bury_raw")
    /\ UNCHANGED <<user, proved, references, graveyard>>

\* Wrong on purpose: all raw messages go with the first shortcut.
BuryAllRaw(p) ==
    /\ phase[p] = "bury_raw"
    /\ raws' = raws \ Marked(p)
    /\ graveyard' = [graveyard EXCEPT ![p] = Tail(@)]
    /\ Goto(p, "bury")
    /\ UNCHANGED <<shortcuts, redis, step, task, uid, old, broken, faults>>
    /\ UNCHANGED <<user, proved, references>>

BuryRaw(p) ==
    /\ phase[p] = "bury_raw"
    /\ DeleteRaw(references[p][Head(graveyard[p])])
    /\ graveyard' = [graveyard EXCEPT ![p] = Tail(@)]
    /\ Goto(p, "bury")
    /\ UNCHANGED <<user, proved, references>>

\* A deletion throws: the rest of the graveyard is left.
BuryFails(p) ==
    /\ phase[p] \in {"bury", "bury_raw"}
    /\ graveyard[p] # <<>>
    /\ Goto(p, "closed")
    /\ UNCHANGED <<storeVars, user, proved, references, graveyard>>

Disconnected(p) ==
    /\ phase[p] = "bury"
    /\ graveyard[p] = <<>>
    /\ Goto(p, "closed")
    /\ UNCHANGED <<storeVars, user, proved, references, graveyard>>

-----------------------------------------------------------------------------
Session(p) ==
    \/ Connect(p) \/ GreetingFails(p)
    \/ Answer(p) \/ Pass(p) \/ Rset(p) \/ LeaveLoop(p) \/ RetrGone(p)
    \/ \E a \in Accounts : User(p, a)
    \/ \E i \in 1 .. MaxMessages : Dele(p, i)
    \/ ErrorReplyFails(p) \/ ReadPastEnd(p)
    \/ BuryShortcut(p) \/ BuryRaw(p) \/ BuryFails(p) \/ Disconnected(p)

Storage == (StorageStep \/ Environment) /\ UNCHANGED sessionVars

Next == Storage \/ \E p \in Clients : Session(p)

Spec == Init /\ [][Next]_vars
-----------------------------------------------------------------------------
(* Properties *)

\* The store sees nothing of a session but what MailStore allows of POP3:
\* messages of an inbox go, the shortcut before the raw message, whatever two
\* sessions with the same references and the storage thread do in between.
StoreBehaviour == StoreInit /\ [][StoreNext]_storeVars

\* A message goes only through a session that gave its owner's password, took
\* the message in with PASS, and has it marked: mail that came later, mail of
\* another account and marks taken back with RSET are safe.
OnlyMarkedGo == [][\A s \in shortcuts : s \notin shortcuts' =>
    \E p \in Clients : /\ phase[p] = "bury"
                       /\ proved[p] = s.account
                       /\ s.id \in Marked(p)]_vars

\* What a session lists stays fixed, so the number a client deletes is the
\* message he saw (PASS takes the references, nothing else changes them).
NumbersStable == [][\A p \in Clients : Authenticated(p) =>
    references'[p] = references[p] /\ proved'[p] = proved[p] /\ user'[p] = user[p]]_vars
=============================================================================
