-------------------------- MODULE SmtpClientProofs --------------------------
(* Theorems about SmtpClient, for every number of recipients. *)
EXTENDS SmtpClient, OrderLemmas, FiniteSetTheorems, SequenceTheorems, TLAPS

Conversation == step \in {"read", "act", "greet", "options"}

\* Somebody is being served while a conversation goes on, and the upgrade alone
\* leads to the second greeting.
SomebodyServed ==
    /\ Conversation => pending # {}
    /\ step = "greet" => esmtp /\ secured

ClientShape == ClientTypeOK /\ SomebodyServed

\* The current target is one of those still to be dealt with.
LEMMA CurrentIsPending ==
    ASSUME pending \subseteq Recipients, pending # {}
    PROVE  Current \in pending /\ Current \in Recipients
<1>1. pending \in SUBSET Nat
  BY ClientConstants DEF Recipients
<1> QED
  BY <1>1, MinOfNaturals DEF Current

\* The commands that mark an action as done are of one shape.
LEMMA SendShape ==
    ASSUME ClientShape, NEW turn, NEW action \in Actions, NEW command \in Commands,
           Send(turn, action, command)
    PROVE  ClientShape'
<1>1. done' \subseteq Actions /\ dialogue' \in Seq(Commands)
  BY DEF Send, ClientShape, ClientTypeOK
<1>2. step' \in {"read", "connect"} /\ pending' \subseteq Recipients
  BY DEF Send, Onward, NextTarget, ClientShape, ClientTypeOK
<1>3. step' = "read" => pending' # {}
  BY DEF Send, Onward, NextTarget, ClientShape, SomebodyServed, Conversation
<1> QED
  BY <1>1, <1>2, <1>3 DEF Send, ClientShape, ClientTypeOK, SomebodyServed,
     Conversation, reply, errorVars, history, Ends

\* An error that ends a conversation names its recipient.
LEMMA ErrorShape ==
    ASSUME ClientShape, Conversation, AddError
    PROVE  log' \subseteq Recipients /\ errorCount' \in Nat
<1>1. Current \in Recipients
  BY CurrentIsPending DEF ClientShape, ClientTypeOK, SomebodyServed
<1> QED
  BY <1>1 DEF AddError, ClientShape, ClientTypeOK

\* What FCAPA, SU and a greeting add to the dialogue.
LEMMA RequestShape ==
    /\ <<>> \in Seq(Commands)
    /\ <<"FCAPA">> \in Seq(Commands)
    /\ <<"FCAPA", "SU">> \in Seq(Commands)
    /\ AccessRequest \in Seq(Commands)
    /\ <<"EHLO">> \in Seq(Commands)
<1>1. <<"FCAPA">> \in Seq(Commands) /\ <<"EHLO">> \in Seq(Commands)
  BY DEF Commands
<1>2. <<"FCAPA", "SU">> \in Seq(Commands)
  BY DEF Commands
<1>3. <<>> \in Seq(Commands)
  OBVIOUS
<1> QED
  BY <1>1, <1>2, <1>3 DEF AccessRequest

\* At the start nobody is being served.
LEMMA InitShape == Init => ClientShape
<1> SUFFICES ASSUME Init PROVE ClientShape
  OBVIOUS
<1>1. ClientTypeOK
  BY RequestShape DEF Init, ClientTypeOK
<1>2. SomebodyServed
  BY DEF Init, SomebodyServed, Conversation
<1> QED
  BY <1>1, <1>2 DEF ClientShape

\* Every step keeps types, and no conversation goes on without a target.
LEMMA StepShape ==
    ASSUME ClientShape, Step
    PROVE  ClientShape'
<1> USE DEF ClientShape, ClientTypeOK, SomebodyServed, Conversation, Ends, errorVars,
            reply, session, history
<1> USE ClientConstants
<1>0. pending # {} => Current \in pending /\ Current \in Recipients
  BY CurrentIsPending
<1>1. CASE Prepare
  <2>1. IsFiniteSet(Recipients)
    BY FS_Interval DEF Recipients
  <2>2. \A failed \in SUBSET Recipients : Cardinality(failed) \in Nat
    BY <2>1, FS_Subset, FS_CardinalityType
  <2> QED
    BY <1>1, <2>2 DEF Prepare
<1>2. CASE SignFails \/ NoServer \/ AllHandled \/ Garbled \/ WriteFails \/ GoesSilent
  BY <1>2 DEF SignFails, NoServer, AllHandled, Garbled, WriteFails, GoesSilent
<1>3. CASE Connect
  BY <1>3, RequestShape DEF Connect
<1>4. CASE ConnectFails
  BY <1>0, <1>4 DEF ConnectFails, AddError, NextTarget
<1>5. CASE Read
  BY <1>0, <1>5 DEF Read, Broken
<1>6. CASE StartTLS \/ MailFrom \/ RcptTo \/ Data \/ Body \/ Quit
  BY <1>6, SendShape DEF StartTLS, MailFrom, RcptTo, Data, Body, Quit, Actions, Commands
<1>7. CASE Close
  BY <1>7 DEF Close, NextTarget
<1>8. CASE Refuse
  BY <1>8, ErrorShape DEF Refuse, NextTarget
<1>9. CASE Upgrade
  <2>1. esmtp
    BY <1>9 DEF Upgrade, Turn
  <2> QED
    BY <1>9, <2>1 DEF Upgrade, Actions
<1>10. CASE UpgradeFails
  BY <1>10, ErrorShape DEF UpgradeFails, NextTarget, Actions
<1>11. dialogue \o AccessRequest \o <<"EHLO">> \in Seq(Commands)
  BY RequestShape
<1>12. CASE Ehlo
  <2>1. dialogue' \in Seq(Commands) /\ done' \subseteq Actions
    BY <1>11, <1>12 DEF Ehlo, Actions
  <2> QED
    BY <1>12, <2>1 DEF Ehlo, Greeting
<1>13. CASE LastOption \/ OptionsFail
  BY <1>0, <1>13 DEF LastOption, OptionsFail, NextTarget, Broken, Codes
<1>14. CASE Helo
  <2>1. dialogue' \in Seq(Commands) /\ done' \subseteq Actions
    BY <1>14 DEF Helo, Commands, Actions
  <2> QED
    BY <1>14, <2>1, ErrorShape DEF Helo, NextTarget, Greeting
<1>15. CASE \E said \in {<<"FCAPA">>, <<"FCAPA", "SU">>} : AccessRefused(said)
  <2>1. PICK said \in {<<"FCAPA">>, <<"FCAPA", "SU">>} : AccessRefused(said)
    BY <1>15
  <2>2. said \in Seq(Commands)
    BY RequestShape
  <2>3. dialogue' \in Seq(Commands)
    BY <2>1, <2>2 DEF AccessRefused
  <2> QED
    BY <2>1, <2>3, ErrorShape DEF AccessRefused, NextTarget, Greeting
<1> QED
  BY <1>1, <1>2, <1>3, <1>4, <1>5, <1>6, <1>7, <1>8, <1>9, <1>10, <1>12, <1>13, <1>14,
     <1>15 DEF Step

\* ClientTypeOK: every variable of the client keeps its type (beSocial,
\* configureRecipients), whatever the number of recipients.
THEOREM ClientTypeCorrect == Spec => []ClientTypeOK
<1>1. ClientShape /\ [Next]_vars => ClientShape'
  <2> SUFFICES ASSUME ClientShape, [Next]_vars PROVE ClientShape'
    OBVIOUS
  <2>1. CASE Step
    BY <2>1, StepShape
  <2>2. CASE UNCHANGED vars
    BY <2>2 DEF vars, errorVars, reply, session, history, ClientShape, ClientTypeOK,
       SomebodyServed, Conversation
  <2> QED
    BY <2>1, <2>2 DEF Next, MoreOptions, Ended
<1>2. ClientShape => ClientTypeOK
  BY DEF ClientShape
<1> QED
  BY <1>1, <1>2, InitShape, PTL DEF Spec

-----------------------------------------------------------------------------
(* The order of a conversation *)

\* Each action presupposes the one before it; HELO alone is taken back, between
\* the end of the upgrade and the second greeting.
DoneInOrder == Conversation =>
    /\ "HELO" \in done => esmtp
    /\ "START_TLS" \in done => esmtp
    /\ "START_TLS_FINISHED" \in done => secured
    /\ "START_TLS_FINISHED" \in done => "START_TLS" \in done
    /\ "START_TLS_FINISHED" \in done => step = "greet" \/ "HELO" \in done
    /\ "MAIL_FROM" \in done => {"HELO", "START_TLS_FINISHED"} \subseteq done
    /\ "RCPT_TO" \in done => "MAIL_FROM" \in done
    /\ "DATA_START" \in done => "RCPT_TO" \in done
    /\ "DATA_END" \in done => "DATA_START" \in done
    /\ "QUIT" \in done => "DATA_END" \in done
    /\ step = "greet" => "HELO" \notin done
    /\ step = "greet" => "START_TLS_FINISHED" \in done
    /\ step = "options" => "HELO" \in done /\ "MAIL_FROM" \notin done

\* An action is marked when its predecessor is, so the order is kept.
LEMMA SendKeepsOrder ==
    ASSUME ClientShape, DoneInOrder,
           StartTLS \/ MailFrom \/ RcptTo \/ Data \/ Body \/ Quit
    PROVE  DoneInOrder'
<1> USE DEF Send, Onward, NextTarget, Conversation, DoneInOrder, Turn
<1>1. CASE StartTLS
  BY <1>1 DEF StartTLS
<1>2. CASE MailFrom
  BY <1>2 DEF MailFrom, WantsMail
<1>3. CASE RcptTo
  BY <1>3 DEF RcptTo
<1>4. CASE Data
  BY <1>4 DEF Data
<1>5. CASE Body
  BY <1>5 DEF Body
<1>6. CASE Quit
  BY <1>6 DEF Quit
<1> QED
  BY <1>1, <1>2, <1>3, <1>4, <1>5, <1>6

\* The other steps mark nothing, or HELO and the upgrade in their turn.
LEMMA StepKeepsOrder ==
    ASSUME ClientShape, DoneInOrder, Step
    PROVE  DoneInOrder'
<1> USE DEF Conversation, DoneInOrder
<1>1. CASE StartTLS \/ MailFrom \/ RcptTo \/ Data \/ Body \/ Quit
  BY <1>1, SendKeepsOrder
<1>2. CASE Read
  BY <1>2 DEF Read, session
<1>3. CASE Connect
  BY <1>3 DEF Connect
<1>4. CASE Upgrade
  BY <1>4 DEF Upgrade, Turn
<1>5. CASE Ehlo
  BY <1>5 DEF Ehlo, Greeting, Turn, ClientShape, SomebodyServed
<1>6. CASE LastOption \/ OptionsFail
  BY <1>6 DEF LastOption, OptionsFail, NextTarget, session
<1>7. CASE \E said \in {<<"FCAPA">>, <<"FCAPA", "SU">>} : AccessRefused(said)
  BY <1>7 DEF AccessRefused, NextTarget
<1>8. CASE Prepare \/ SignFails \/ ConnectFails \/ NoServer \/ AllHandled \/ Garbled
           \/ WriteFails \/ Close \/ Refuse \/ UpgradeFails \/ Helo \/ GoesSilent
  BY <1>8 DEF Prepare, SignFails, ConnectFails, NoServer, AllHandled, Garbled, WriteFails,
     Close, Refuse, UpgradeFails, Helo, GoesSilent, NextTarget
<1> QED
  BY <1>1, <1>2, <1>3, <1>4, <1>5, <1>6, <1>7, <1>8 DEF Step

-----------------------------------------------------------------------------
(* What is told over TLS only *)

Harmless(said) ==
    \A i \in DOMAIN said : said[i] \notin {"MAIL", "RCPT", "DATA", "BODY"}

\* Saying harmless things in turn is harmless.
LEMMA HarmlessConcat ==
    ASSUME NEW s \in Seq(Commands), NEW t \in Seq(Commands), Harmless(s), Harmless(t)
    PROVE  Harmless(s \o t)
BY DEF Harmless

\* The greetings and requests for access are harmless.
LEMMA HarmlessRequests ==
    /\ Harmless(<<"FCAPA">>) /\ Harmless(<<"FCAPA", "SU">>)
    /\ Harmless(AccessRequest) /\ Harmless(<<"EHLO">>)
BY DEF Harmless, AccessRequest

\* Only MAIL FROM, RCPT TO, DATA and the body matter, and they follow the upgrade.
LEMMA StepKeepsTLS ==
    ASSUME ClientShape, DoneInOrder, OverTLS, Step
    PROVE  OverTLS'
<1> USE DEF OverTLS, session
<1>0. dialogue \in Seq(Commands) /\ secured \in BOOLEAN
  BY DEF ClientShape, ClientTypeOK
<1>1. CASE StartTLS \/ Quit
  <2>1. \/ dialogue' = Append(dialogue, "STARTTLS")
        \/ dialogue' = Append(dialogue, "QUIT")
    BY <1>1 DEF StartTLS, Quit, Send
  <2>2. secured' = secured
    BY <1>1 DEF StartTLS, Quit, Send
  <2> QED
    BY <1>0, <2>1, <2>2
<1>2. CASE MailFrom \/ RcptTo \/ Data \/ Body
  <2>1. secured
    <3>1. "START_TLS_FINISHED" \in done
      BY <1>2 DEF MailFrom, RcptTo, Data, Body, Send, Turn, WantsMail, DoneInOrder,
         Conversation
    <3>2. Conversation
      BY <1>2 DEF MailFrom, RcptTo, Data, Body, Send, Conversation
    <3> QED
      BY <3>1, <3>2 DEF DoneInOrder
  <2>2. secured' = secured
    BY <1>2 DEF MailFrom, RcptTo, Data, Body, Send
  <2> QED
    BY <2>1, <2>2
<1>3. CASE Ehlo \/ \E said \in {<<"FCAPA">>, <<"FCAPA", "SU">>} : AccessRefused(said)
  <2>1. secured' = secured
    BY <1>3 DEF Ehlo, AccessRefused
  <2>2. Harmless(dialogue) => Harmless(dialogue')
    <3>1. CASE Ehlo
      <4>1. dialogue' = dialogue \o AccessRequest \o <<"EHLO">>
        BY <3>1 DEF Ehlo
      <4>2. dialogue \o AccessRequest \in Seq(Commands)
        BY <1>0, RequestShape
      <4> QED
        BY <1>0, <4>1, <4>2, HarmlessConcat, HarmlessRequests, RequestShape
    <3>2. CASE \E said \in {<<"FCAPA">>, <<"FCAPA", "SU">>} : AccessRefused(said)
      <4>1. PICK said \in {<<"FCAPA">>, <<"FCAPA", "SU">>} : dialogue' = dialogue \o said
        BY <3>2 DEF AccessRefused
      <4> QED
        BY <1>0, <4>1, HarmlessConcat, HarmlessRequests, RequestShape
    <3> QED
      BY <1>3, <3>1, <3>2
  <2> QED
    BY <2>1, <2>2 DEF Harmless
<1>4. CASE Helo
  <2>1. dialogue' = Append(dialogue, "HELO") /\ secured' = secured
    BY <1>4 DEF Helo
  <2> QED
    BY <1>0, <2>1
<1>5. CASE Connect
  BY <1>5 DEF Connect
<1>6. CASE Upgrade
  BY <1>6 DEF Upgrade
<1>7. CASE \/ Prepare \/ SignFails \/ ConnectFails \/ NoServer \/ AllHandled \/ Read
           \/ Garbled \/ WriteFails \/ Close \/ Refuse \/ UpgradeFails \/ LastOption
           \/ OptionsFail \/ GoesSilent
  BY <1>7 DEF Prepare, SignFails, ConnectFails, NoServer, AllHandled, Read, Garbled,
     WriteFails, Close, Refuse, UpgradeFails, LastOption, OptionsFail, GoesSilent
<1> QED
  BY <1>1, <1>2, <1>3, <1>4, <1>5, <1>6, <1>7 DEF Step

\* OverTLS: sender, recipient and message are sent to no server in the clear,
\* whatever it answers and whatever code is left over (beSocial 297-586).
THEOREM ToldOverTLS == Spec => []OverTLS
<1> DEFINE Inv == ClientShape /\ DoneInOrder /\ OverTLS
<1>1. Init => Inv
  BY InitShape DEF Init, DoneInOrder, OverTLS, Conversation
<1>2. Inv /\ [Next]_vars => Inv'
  <2> SUFFICES ASSUME Inv, [Next]_vars PROVE Inv'
    OBVIOUS
  <2>1. CASE Step
    BY <2>1, StepShape, StepKeepsOrder, StepKeepsTLS
  <2>2. CASE UNCHANGED vars
    BY <2>2 DEF vars, errorVars, reply, session, history, ClientShape, ClientTypeOK,
       SomebodyServed, Conversation, DoneInOrder, OverTLS
  <2> QED
    BY <2>1, <2>2 DEF Next, MoreOptions, Ended
<1>3. Inv => OverTLS
  OBVIOUS
<1> QED
  BY <1>1, <1>2, <1>3, PTL DEF Spec

-----------------------------------------------------------------------------
(* Success is real *)

Accounted(t) == t \in accepted \cup log \cup broken

\* Who is no longer pending is accounted for; the current target is as soon as
\* the conversation may end without an error.
SuccessAccounted ==
    /\ \A t \in Recipients \ pending : Accounted(t)
    /\ step = "returned" => pending = {}
    /\ Conversation =>
        /\ ~run => Current \in broken
        /\ "QUIT" \in done => Accounted(Current)
        /\ step = "act" /\ "DATA_END" \in done /\ code # "other" => Accounted(Current)

\* To turn to the next target is right when the current one is accounted for.
LEMMA NextTargetAccounted ==
    ASSUME SuccessAccounted, NextTarget, accepted \subseteq accepted', log \subseteq log',
           broken \subseteq broken', Accounted(Current) \/ Current \in log' \cup broken'
    PROVE  SuccessAccounted'
BY DEF SuccessAccounted, NextTarget, Accounted, Conversation

\* A command goes out after a read, and QUIT only after the body's answer.
LEMMA SendAccounted ==
    ASSUME ClientShape, SuccessAccounted,
           StartTLS \/ MailFrom \/ RcptTo \/ Data \/ Body \/ Quit
    PROVE  SuccessAccounted'
<1>1. /\ step = "act" /\ Onward
      /\ UNCHANGED <<errorVars, reply, history>>
  BY DEF StartTLS, MailFrom, RcptTo, Data, Body, Quit, Send
<1>2. "QUIT" \in done' => Accounted(Current)
  BY DEF StartTLS, MailFrom, RcptTo, Data, Body, Quit, Send, Turn, SuccessAccounted,
     Conversation
<1>3. CASE run
  BY <1>1, <1>2, <1>3 DEF Onward, SuccessAccounted, Conversation, Accounted, Current,
     errorVars, reply, history
<1>4. CASE ~run
  <2>1. NextTarget /\ Accounted(Current)
    BY <1>1, <1>4 DEF Onward, SuccessAccounted, Conversation, Accounted
  <2> QED
    BY <1>1, <2>1, NextTargetAccounted DEF errorVars, history
<1> QED
  BY <1>3, <1>4

\* Every way out of a conversation accounts for its target.
LEMMA StepAccounted ==
    ASSUME ClientShape, DoneInOrder, SuccessAccounted, Step
    PROVE  SuccessAccounted'
<1>1. CASE Prepare
  BY <1>1 DEF Prepare, SuccessAccounted, Accounted, Conversation, history
<1>2. CASE StartTLS \/ MailFrom \/ RcptTo \/ Data \/ Body \/ Quit
  BY <1>2, SendAccounted
<1>3. CASE Connect
  BY <1>3 DEF Connect, SuccessAccounted, Accounted, Conversation, errorVars, history
<1>4. CASE Read
  BY <1>4 DEF Read, Broken, SuccessAccounted, Accounted, Conversation, Current, session,
     errorVars
<1>5. CASE Upgrade
  BY <1>5 DEF Upgrade, SuccessAccounted, Accounted, Conversation, Current, errorVars,
     reply, history
<1>6. CASE Ehlo
  <2>1. "DATA_END" \notin done /\ "QUIT" \notin done /\ Conversation
    BY <1>6 DEF Ehlo, Greeting, Turn, DoneInOrder, Conversation
  <2> QED
    BY <1>6, <2>1 DEF Ehlo, SuccessAccounted, Accounted, Conversation, Current,
       errorVars, reply, history
<1>7. CASE Close
  <2>1. Accounted(Current)
    BY <1>7 DEF Close, Turn, SuccessAccounted, Conversation
  <2> QED
    BY <1>7, <2>1, NextTargetAccounted DEF Close, errorVars, history
<1>8. CASE OptionsFail
  <2>1. CASE step' = "thrown"
    BY <1>8, <2>1 DEF OptionsFail, Broken, NextTarget, SuccessAccounted, Accounted,
       Conversation, errorVars
  <2>2. CASE NextTarget
    BY <1>8, <2>2, NextTargetAccounted DEF OptionsFail, Broken, errorVars
  <2> QED
    BY <1>8, <2>1, <2>2 DEF OptionsFail
<1>11. CASE LastOption
  <2>1. "DATA_END" \notin done /\ "QUIT" \notin done /\ Conversation
    BY <1>11 DEF LastOption, DoneInOrder, Conversation
  <2>2. CASE run
    BY <1>11, <2>1, <2>2 DEF LastOption, SuccessAccounted, Accounted, Conversation, Current,
       session, errorVars, history
  <2>3. CASE ~run
    <3>1. NextTarget /\ Accounted(Current)
      BY <1>11, <2>1, <2>3 DEF LastOption, SuccessAccounted, Accounted
    <3> QED
      BY <1>11, <3>1, NextTargetAccounted DEF LastOption, errorVars, history
  <2> QED
    BY <2>2, <2>3
<1>9. CASE ConnectFails \/ Refuse \/ UpgradeFails \/ Helo
           \/ \E said \in {<<"FCAPA">>, <<"FCAPA", "SU">>} : AccessRefused(said)
  <2>1. NextTarget /\ AddError /\ UNCHANGED history
    BY <1>9 DEF ConnectFails, Refuse, UpgradeFails, Helo, AccessRefused
  <2> QED
    BY <2>1, NextTargetAccounted DEF AddError, history
<1>10. CASE SignFails \/ NoServer \/ AllHandled \/ Garbled \/ WriteFails \/ GoesSilent
  BY <1>10 DEF SignFails, NoServer, AllHandled, Garbled, WriteFails, GoesSilent,
     SuccessAccounted, Accounted, Conversation, errorVars, history
<1> QED
  BY <1>1, <1>2, <1>3, <1>4, <1>5, <1>6, <1>7, <1>8, <1>9, <1>10, <1>11 DEF Step

\* SuccessIsReal: when beSocial returns, who is not in the error log has had his
\* message answered without an error code, or a read failed
\* (beSocial 213-223, 429-436, 490-498, 577-586).
THEOREM SuccessesAreReal == Spec => []SuccessIsReal
<1> DEFINE Inv == ClientShape /\ DoneInOrder /\ SuccessAccounted
<1>1. Init => Inv
  BY InitShape DEF Init, DoneInOrder, SuccessAccounted, Conversation
<1>2. Inv /\ [Next]_vars => Inv'
  <2> SUFFICES ASSUME Inv, [Next]_vars PROVE Inv'
    OBVIOUS
  <2>1. CASE Step
    BY <2>1, StepShape, StepKeepsOrder, StepAccounted
  <2>2. CASE UNCHANGED vars
    BY <2>2 DEF vars, errorVars, reply, session, history, ClientShape, ClientTypeOK,
       SomebodyServed, Conversation, DoneInOrder, SuccessAccounted, Accounted, Current
  <2> QED
    BY <2>1, <2>2 DEF Next, MoreOptions, Ended
<1>3. Inv => SuccessIsReal
  BY DEF SuccessIsReal, SuccessAccounted, Accounted
<1> QED
  BY <1>1, <1>2, <1>3, PTL DEF Spec

-----------------------------------------------------------------------------
(* The client implements RelayContract *)

NothingPrepared == step = "prepare" => pending = Recipients /\ errorCount = 0

ContractStep == [Abstract!ContractNext]_(Abstract!contract)

\* What is no longer open is settled.
LEMMA Settles ==
    ASSUME NEW settled \in SUBSET pending,
           step \notin Ends, step' \notin Ends, pending' = pending \ settled,
           errorCount' \in errorCount .. errorCount + Cardinality(settled)
    PROVE  ContractStep
<1>1. (IF step \in Ends THEN step ELSE "running") = "running"
  OBVIOUS
<1>2. (IF step' \in Ends THEN step' ELSE "running") = "running"
  OBVIOUS
<1>3. Abstract!Cardinality(settled) = Cardinality(settled)
  BY DEF Cardinality, IsFiniteSet, Abstract!Cardinality, Abstract!IsFiniteSet
<1>4. Abstract!Settle(settled)
  BY <1>1, <1>2, <1>3 DEF Abstract!Settle
<1> QED
  BY <1>4 DEF ContractStep, Abstract!ContractNext

\* To turn to the next target, with or without an error, settles one.
LEMMA NextTargetSettles ==
    ASSUME ClientShape, step \in {"connect", "read", "act", "greet", "options"}, pending # {},
           NextTarget, errorCount' = errorCount \/ errorCount' = errorCount + 1
    PROVE  ContractStep
<1>1. Current \in pending
  BY CurrentIsPending DEF ClientShape, ClientTypeOK
<1>2. Cardinality({Current}) = 1
  BY FS_Singleton
<1>3. errorCount' \in errorCount .. errorCount + Cardinality({Current})
  BY <1>2 DEF ClientShape, ClientTypeOK
<1>4. step \notin Ends /\ step' \notin Ends
  BY DEF NextTarget, Ends
<1> QED
  BY <1>1, <1>3, <1>4, Settles DEF NextTarget

\* A step in the middle of a conversation changes nothing of the contract's.
LEMMA ConversationStutters ==
    ASSUME step \notin Ends, step' \notin Ends, UNCHANGED <<pending, errorCount>>
    PROVE  ContractStep
BY DEF ContractStep, Abstract!contract

\* A way out of beSocial is the contract's end.
LEMMA EndsOnce ==
    ASSUME step \notin Ends, step' \in Ends, step' = "returned" => pending = {},
           UNCHANGED <<pending, errorCount>>
    PROVE  ContractStep
<1>1. Abstract!End(step')
  BY DEF Abstract!End, Ends
<1> QED
  BY <1>1 DEF ContractStep, Abstract!ContractNext, Ends

\* Who does not resolve is settled with an error each.
LEMMA PrepareSettles ==
    ASSUME ClientShape, NothingPrepared, Prepare
    PROVE  ContractStep
<1>1. PICK failed \in SUBSET Recipients :
        /\ pending' = Recipients \ failed
        /\ errorCount' = Cardinality(failed)
  BY DEF Prepare
<1>2. Cardinality(failed) \in Nat
  <2>1. IsFiniteSet(1 .. N)
    BY ClientConstants, FS_Interval
  <2> QED
    BY <2>1, FS_Subset, FS_CardinalityType DEF Recipients
<1>3. pending = Recipients /\ errorCount = 0
  BY DEF Prepare, NothingPrepared
<1>4. errorCount' \in errorCount .. errorCount + Cardinality(failed)
  BY <1>1, <1>2, <1>3
<1>5. step \notin Ends /\ step' \notin Ends
  BY DEF Prepare, Ends
<1> QED
  BY <1>1, <1>3, <1>4, <1>5, Settles

\* Every step of the client is one of the contract's, or none.
LEMMA StepKeepsContract ==
    ASSUME ClientShape, NothingPrepared, Step
    PROVE  ContractStep /\ NothingPrepared'
<1>0. Conversation => pending # {}
  BY DEF ClientShape, SomebodyServed
<1>1. CASE Prepare
  BY <1>1, PrepareSettles DEF Prepare, NothingPrepared
<1>2. CASE Connect \/ Read \/ Upgrade \/ Ehlo
  BY <1>2, ConversationStutters DEF Connect, Read, Upgrade, Ehlo, Greeting, NothingPrepared,
     errorVars, Ends
<1>3. CASE ConnectFails \/ Refuse \/ UpgradeFails \/ Helo \/ Close
           \/ \E said \in {<<"FCAPA">>, <<"FCAPA", "SU">>} : AccessRefused(said)
  <2>1. /\ NextTarget
        /\ errorCount' = errorCount \/ errorCount' = errorCount + 1
    BY <1>3 DEF ConnectFails, Refuse, UpgradeFails, Helo, Close, AccessRefused, AddError,
       errorVars
  <2>2. step \in {"connect", "read", "act", "greet"} /\ pending # {}
    BY <1>0, <1>3 DEF ConnectFails, Refuse, UpgradeFails, Helo, Close, AccessRefused,
       Greeting, Conversation
  <2> QED
    BY <2>1, <2>2, NextTargetSettles DEF NextTarget, NothingPrepared
<1>4. CASE StartTLS \/ MailFrom \/ RcptTo \/ Data \/ Body \/ Quit \/ LastOption
           \/ OptionsFail
  <2>1. step \in {"act", "options"} /\ pending # {} /\ errorCount' = errorCount
    BY <1>0, <1>4 DEF StartTLS, MailFrom, RcptTo, Data, Body, Quit, Send, LastOption,
       OptionsFail, Conversation, errorVars
  <2>2. \/ NextTarget
        \/ step' \in {"read", "act", "thrown"} /\ pending' = pending
    BY <1>4 DEF StartTLS, MailFrom, RcptTo, Data, Body, Quit, Send, Onward, LastOption,
       OptionsFail
  <2>3. CASE NextTarget
    BY <2>1, <2>3, NextTargetSettles DEF NextTarget, NothingPrepared
  <2>4. CASE step' \in {"read", "act"} /\ pending' = pending
    BY <2>1, <2>4, ConversationStutters DEF NothingPrepared, Ends
  <2>5. CASE step' = "thrown" /\ pending' = pending
    BY <2>1, <2>5, EndsOnce DEF NothingPrepared, Ends
  <2> QED
    BY <2>2, <2>3, <2>4, <2>5
<1>5. CASE SignFails \/ NoServer \/ AllHandled \/ Garbled \/ WriteFails \/ GoesSilent
  BY <1>5, EndsOnce DEF SignFails, NoServer, AllHandled, Garbled, WriteFails, GoesSilent,
     NothingPrepared, errorVars, Ends
<1> QED
  BY <1>1, <1>2, <1>3, <1>4, <1>5 DEF Step

\* KeepsContract: the client deals with each recipient once, counts at most one
\* error for each, and returns only when nobody is left (RelayContract): what
\* the worker's use of s_ErrorCount rests on (TransmissionWorker 120-143).
THEOREM ClientKeepsContract == Spec => KeepsContract
<1> DEFINE Inv == ClientShape /\ NothingPrepared
<1>1. Init => Inv
  BY InitShape DEF Init, NothingPrepared
<1>2. Inv /\ [Next]_vars => Inv' /\ ContractStep
  <2> SUFFICES ASSUME Inv, [Next]_vars PROVE Inv' /\ ContractStep
    OBVIOUS
  <2>1. CASE Step
    BY <2>1, StepShape, StepKeepsContract
  <2>2. CASE UNCHANGED vars
    BY <2>2 DEF vars, errorVars, reply, session, history, ClientShape, ClientTypeOK,
       SomebodyServed, Conversation, NothingPrepared, ContractStep, Abstract!contract
  <2> QED
    BY <2>1, <2>2 DEF Next, MoreOptions, Ended
<1>3. Init => Abstract!ContractInit
  BY DEF Init, Abstract!ContractInit, Ends
<1> QED
  BY <1>1, <1>2, <1>3, PTL DEF Spec, KeepsContract, Abstract!Contract, ContractStep

-----------------------------------------------------------------------------
(* Commands go out in order *)

Requests == {<<>>, <<"FCAPA", "SU">>}

SecondGreeting(request) == request \o <<"EHLO", "MAIL", "RCPT", "DATA", "BODY", "QUIT">>

\* What is left of the script after the actions done.
Left(request) ==
    IF "QUIT" \in done THEN <<>>
    ELSE IF "DATA_END" \in done THEN <<"QUIT">>
    ELSE IF "DATA_START" \in done THEN <<"BODY", "QUIT">>
    ELSE IF "RCPT_TO" \in done THEN <<"DATA", "BODY", "QUIT">>
    ELSE IF "MAIL_FROM" \in done THEN <<"RCPT", "DATA", "BODY", "QUIT">>
    ELSE IF {"START_TLS_FINISHED", "HELO"} \subseteq done
         THEN <<"MAIL", "RCPT", "DATA", "BODY", "QUIT">>
    ELSE IF "START_TLS" \in done THEN SecondGreeting(request)
    ELSE IF "HELO" \in done THEN <<"STARTTLS">> \o SecondGreeting(request)
    ELSE Script(request)

Follows(request) == dialogue \o Left(request) = Script(request)
OnScript == Conversation => Follows(AccessRequest)

\* The ends of the script are sequences of commands.
LEMMA ScriptTypes ==
    /\ <<"QUIT">> \in Seq(Commands)
    /\ <<"BODY", "QUIT">> \in Seq(Commands)
    /\ <<"DATA", "BODY", "QUIT">> \in Seq(Commands)
    /\ <<"RCPT", "DATA", "BODY", "QUIT">> \in Seq(Commands)
    /\ <<"MAIL", "RCPT", "DATA", "BODY", "QUIT">> \in Seq(Commands)
    /\ <<"EHLO", "MAIL", "RCPT", "DATA", "BODY", "QUIT">> \in Seq(Commands)
    /\ <<"EHLO", "STARTTLS">> \in Seq(Commands)
    /\ <<"STARTTLS">> \in Seq(Commands)
BY DEF Commands

\* Each end of the script is a command and the next end.
LEMMA ScriptUnfolds ==
    /\ <<"QUIT">> = <<"QUIT">> \o <<>>
    /\ <<"BODY", "QUIT">> = <<"BODY">> \o <<"QUIT">>
    /\ <<"DATA", "BODY", "QUIT">> = <<"DATA">> \o <<"BODY", "QUIT">>
    /\ <<"RCPT", "DATA", "BODY", "QUIT">> = <<"RCPT">> \o <<"DATA", "BODY", "QUIT">>
    /\ <<"MAIL", "RCPT", "DATA", "BODY", "QUIT">>
        = <<"MAIL">> \o <<"RCPT", "DATA", "BODY", "QUIT">>
    /\ <<"EHLO", "MAIL", "RCPT", "DATA", "BODY", "QUIT">>
        = <<"EHLO">> \o <<"MAIL", "RCPT", "DATA", "BODY", "QUIT">>
    /\ <<"EHLO", "STARTTLS">> = <<"EHLO">> \o <<"STARTTLS">>
  OBVIOUS

\* What is left of the script is a sequence of commands, too.
LEMMA LeftType ==
    ASSUME NEW r \in Requests
    PROVE  /\ r \in Seq(Commands) /\ Script(r) \in Seq(Commands)
           /\ Left(r) \in Seq(Commands) /\ SecondGreeting(r) \in Seq(Commands)
<1>1. r \in Seq(Commands)
  BY RequestShape DEF Requests
<1>2. SecondGreeting(r) \in Seq(Commands) /\ Script(r) \in Seq(Commands)
  BY <1>1, ScriptTypes DEF SecondGreeting, Script
<1> QED
  BY <1>1, <1>2, ScriptTypes, RequestShape DEF Left

\* What the current target is asked for is one of the two requests.
LEMMA RequestOfCurrent == AccessRequest \in Requests
BY DEF AccessRequest, Requests

\* The script is the first greeting, STARTTLS and the rest.
LEMMA ScriptStarts ==
    ASSUME NEW r \in Requests
    PROVE  Script(r) = r \o (<<"EHLO">> \o (<<"STARTTLS">> \o SecondGreeting(r)))
<1> DEFINE A == r
           E == <<"EHLO">>
           T == <<"STARTTLS">>
           B == <<"EHLO", "MAIL", "RCPT", "DATA", "BODY", "QUIT">>
<1>1. /\ A \in Seq(Commands) /\ E \in Seq(Commands)
      /\ T \in Seq(Commands) /\ B \in Seq(Commands)
  BY RequestShape, ScriptTypes, LeftType
<1>2. Script(r) = ((A \o (E \o T)) \o A) \o B
  BY ScriptUnfolds DEF Script
<1>3. SecondGreeting(r) = A \o B
  BY DEF SecondGreeting
<1> HIDE DEF A, E, T, B
\* Associativity with one sequence left open each time: its general form has
\* the provers regroup without end.
<1>4. \A s \in Seq(Commands) : (s \o A) \o B = s \o (A \o B)
  BY <1>1, SMTT(30)
<1>5. \A s \in Seq(Commands) : (A \o s) \o (A \o B) = A \o (s \o (A \o B))
  <2> DEFINE AB == A \o B
  <2>1. AB \in Seq(Commands)
    BY <1>1, ConcatProperties
  <2> HIDE DEF AB
  <2>2. \A s \in Seq(Commands) : (A \o s) \o AB = A \o (s \o AB)
    BY <1>1, <2>1, SMTT(30)
  <2> QED
    BY <2>2 DEF AB
<1>6. \A s \in Seq(Commands) : (E \o T) \o s = E \o (T \o s)
  BY <1>1, SMTT(30)
<1>7. E \o T \in Seq(Commands) /\ A \o B \in Seq(Commands)
  BY <1>1, ConcatProperties
<1>8. A \o (E \o T) \in Seq(Commands)
  <2> DEFINE ET == E \o T
  <2>1. ET \in Seq(Commands)
    BY <1>7
  <2> HIDE DEF ET
  <2>2. A \o ET \in Seq(Commands)
    BY <1>1, <2>1, ConcatProperties
  <2> QED
    BY <2>2 DEF ET
<1>9. ((A \o (E \o T)) \o A) \o B = (A \o (E \o T)) \o (A \o B)
  BY <1>4, <1>8, Zenon
<1>10. (A \o (E \o T)) \o (A \o B) = A \o ((E \o T) \o (A \o B))
  BY <1>5, <1>7, Zenon
<1>11. (E \o T) \o (A \o B) = E \o (T \o (A \o B))
  BY <1>6, <1>7, Zenon
<1>12. ((A \o (E \o T)) \o A) \o B = A \o (E \o (T \o (A \o B)))
  BY <1>9, <1>10, <1>11, Zenon
<1> QED
  BY <1>2, <1>3, <1>12 DEF A, E, T

\* Concatenation of commands is associative.
LEMMA Associative ==
    \A s, t, u \in Seq(Commands) : (s \o t) \o u = s \o (t \o u)
  BY SMTT(30)

\* What is followed by the rest of the script is a prefix of it.
LEMMA PrefixOfScript ==
    ASSUME NEW r \in Requests, NEW d \in Seq(Commands), NEW left \in Seq(Commands),
           d \o left = Script(r)
    PROVE  IsPrefix(d, Script(r))
<1>1. Len(d) <= Len(d \o left)
  BY ConcatProperties, LenProperties
<1>2. SubSeq(d \o left, 1, Len(d)) = d
  BY SubSeqOfConcat1, SubSeqFull, LenProperties
<1>3. SubSeq(d, 1, Len(d)) = d
  BY SubSeqFull
<1> QED
  BY <1>1, <1>2, <1>3 DEF IsPrefix

\* Each command is the next of the script, also the last one of a conversation
\* that a failed read ends.
LEMMA SendFollows ==
    ASSUME ClientShape, DoneInOrder, NEW r \in Requests, Follows(r),
           StartTLS \/ MailFrom \/ RcptTo \/ Data \/ Body \/ Quit
    PROVE  Follows(r)'
<1>1. step = "act" /\ dialogue \in Seq(Commands)
  BY DEF StartTLS, MailFrom, RcptTo, Data, Body, Quit, Send, ClientShape, ClientTypeOK
<1>2. dialogue \o Left(r) = Script(r)
  BY DEF Follows
<1>3. SUFFICES \E command \in Commands :
        /\ dialogue' = Append(dialogue, command)
        /\ Left(r) = <<command>> \o Left(r)'
        /\ Left(r)' \in Seq(Commands)
  <2>1. PICK command \in Commands :
          /\ dialogue' = Append(dialogue, command)
          /\ Left(r) = <<command>> \o Left(r)'
          /\ Left(r)' \in Seq(Commands)
    BY <1>3
  <2>2. dialogue' = dialogue \o <<command>> /\ <<command>> \in Seq(Commands)
    BY <1>1, <2>1, AppendIsConcat
  <2>3. dialogue \o (<<command>> \o Left(r)') = Script(r)
    BY <1>2, <2>1
  <2>4. (dialogue \o <<command>>) \o Left(r)' = dialogue \o (<<command>> \o Left(r)')
    BY <1>1, <2>1, <2>2, Associative, Zenon
  <2> QED
    BY <2>2, <2>3, <2>4 DEF Follows
<1> USE DEF Send, Turn, DoneInOrder, Conversation, Commands, Left
<1>4. CASE StartTLS
  <2>1. /\ "HELO" \in done /\ "START_TLS" \notin done /\ done' = done \cup {"START_TLS"}
        /\ dialogue' = Append(dialogue, "STARTTLS")
    BY <1>4 DEF StartTLS
  <2>2. /\ "START_TLS_FINISHED" \notin done /\ "MAIL_FROM" \notin done
        /\ "RCPT_TO" \notin done /\ "DATA_START" \notin done
        /\ "DATA_END" \notin done /\ "QUIT" \notin done
    BY <1>1, <2>1
  <2>3. Left(r) = <<"STARTTLS">> \o SecondGreeting(r) /\ Left(r)' = SecondGreeting(r)
    BY <2>1, <2>2
  <2> QED
    BY <2>1, <2>3, LeftType
<1>5. CASE MailFrom
  BY <1>1, <1>5, ScriptUnfolds, ScriptTypes DEF MailFrom, WantsMail
<1>6. CASE RcptTo
  BY <1>1, <1>6, ScriptUnfolds, ScriptTypes DEF RcptTo
<1>7. CASE Data
  BY <1>1, <1>7, ScriptUnfolds, ScriptTypes DEF Data
<1>8. CASE Body
  BY <1>1, <1>8, ScriptUnfolds, ScriptTypes DEF Body
<1>9. CASE Quit
  BY <1>1, <1>9, ScriptUnfolds, RequestShape DEF Quit
<1> QED
  BY <1>4, <1>5, <1>6, <1>7, <1>8, <1>9

\* What a greeting may say next is the request and EHLO.
LEMMA GreetingIsNext ==
    ASSUME ClientShape, DoneInOrder, NEW r \in Requests, Greeting
    PROVE  \E rest \in Seq(Commands) :
             /\ Left(r) = r \o (<<"EHLO">> \o rest)
             /\ done' = done \cup {"HELO"} => Left(r)' = rest
<1>1. step \in {"act", "greet"}
  BY DEF Greeting
<1>2. /\ "HELO" \notin done /\ "MAIL_FROM" \notin done /\ "RCPT_TO" \notin done
      /\ "DATA_START" \notin done /\ "DATA_END" \notin done /\ "QUIT" \notin done
  BY <1>1 DEF Greeting, Turn, DoneInOrder, Conversation
<1>3. CASE "START_TLS_FINISHED" \in done
  <2>1. Left(r) = SecondGreeting(r)
    BY <1>1, <1>2, <1>3 DEF Left, DoneInOrder, Conversation
  <2>2. done' = done \cup {"HELO"}
          => Left(r)' = <<"MAIL", "RCPT", "DATA", "BODY", "QUIT">>
    BY <1>2, <1>3 DEF Left
  <2> QED
    BY <2>1, <2>2, ScriptUnfolds, ScriptTypes DEF SecondGreeting
<1>4. CASE "START_TLS_FINISHED" \notin done
  <2>1. step = "act"
    BY <1>1, <1>4 DEF DoneInOrder, Conversation
  <2>2. "START_TLS" \notin done
    BY <1>4, <2>1 DEF Greeting, Turn, DoneInOrder, Conversation, ClientShape, ClientTypeOK
  <2>3. Left(r) = Script(r)
    BY <1>2, <1>4, <2>2 DEF Left
  <2>4. done' = done \cup {"HELO"} => Left(r)' = <<"STARTTLS">> \o SecondGreeting(r)
    BY <1>2, <1>4, <2>2 DEF Left
  <2> QED
    BY <2>3, <2>4, ScriptStarts, ScriptTypes, LeftType, ConcatProperties
<1> QED
  BY <1>3, <1>4

\* A greeting says what the access request and EHLO stand for.
LEMMA EhloFollows ==
    ASSUME ClientShape, DoneInOrder, NEW r \in Requests, r = AccessRequest, Follows(r), Ehlo
    PROVE  Follows(r)'
<1>1. /\ Greeting /\ done' = done \cup {"HELO"}
      /\ dialogue' = dialogue \o r \o <<"EHLO">>
  BY DEF Ehlo
<1>2. /\ dialogue \in Seq(Commands) /\ r \in Seq(Commands)
      /\ <<"EHLO">> \in Seq(Commands)
  BY RequestShape, LeftType DEF ClientShape, ClientTypeOK
<1>3. PICK rest \in Seq(Commands) :
        /\ Left(r) = r \o (<<"EHLO">> \o rest)
        /\ Left(r)' = rest
  BY <1>1, GreetingIsNext
<1>4. (dialogue \o r) \o (<<"EHLO">> \o rest) = Script(r)
  <2>1. <<"EHLO">> \o rest \in Seq(Commands)
    BY <1>2, ConcatProperties
  <2>2. dialogue \o (r \o (<<"EHLO">> \o rest)) = Script(r)
    BY <1>3 DEF Follows
  <2> QED
    BY <1>2, <2>1, <2>2, Associative, Zenon
<1>5. (dialogue \o r \o <<"EHLO">>) \o rest = Script(r)
  <2>1. dialogue \o r \in Seq(Commands)
    BY <1>2, ConcatProperties
  <2> QED
    BY <1>2, <1>4, <2>1, Associative, Zenon
<1> QED
  BY <1>1, <1>3, <1>5 DEF Follows

\* A request that is refused stops short of EHLO.
LEMMA RefusedFollows ==
    ASSUME ClientShape, DoneInOrder, NEW r \in Requests, r = AccessRequest, Follows(r),
           NEW said \in {<<"FCAPA">>, <<"FCAPA", "SU">>}, AccessRefused(said)
    PROVE  IsPrefix(dialogue', Script(r))
<1>1. Greeting /\ dialogue' = dialogue \o said /\ r = <<"FCAPA", "SU">>
  BY DEF AccessRefused, AccessRequest
<1>2. /\ dialogue \in Seq(Commands) /\ said \in Seq(Commands)
      /\ <<"EHLO">> \in Seq(Commands) /\ <<"SU">> \in Seq(Commands)
      /\ <<"FCAPA">> \in Seq(Commands) /\ r \in Seq(Commands)
  <2>1. <<"SU">> \in Seq(Commands)
    BY DEF Commands
  <2>2. dialogue \in Seq(Commands)
    BY DEF ClientShape, ClientTypeOK
  <2> QED
    BY <2>1, <2>2, RequestShape, LeftType
<1>3. PICK rest \in Seq(Commands) : Left(r) = r \o (<<"EHLO">> \o rest)
  BY <1>1, GreetingIsNext
<1>4. PICK more \in Seq(Commands) : Left(r) = said \o more
  <2> DEFINE tail == <<"EHLO">> \o rest
  <2>1. tail \in Seq(Commands)
    BY <1>2, ConcatProperties
  <2>2. Left(r) = r \o tail
    BY <1>3
  <2> HIDE DEF tail
  <2>3. CASE said = <<"FCAPA", "SU">>
    BY <1>1, <2>1, <2>2, <2>3
  <2>4. CASE said = <<"FCAPA">>
    <3>1. r = <<"FCAPA">> \o <<"SU">>
      BY <1>1
    <3>2. (<<"FCAPA">> \o <<"SU">>) \o tail = <<"FCAPA">> \o (<<"SU">> \o tail)
      <4>1. \A s, t \in Seq(Commands) : (s \o t) \o tail = s \o (t \o tail)
        BY <2>1, Associative, Zenon
      <4> QED
        BY <1>2, <4>1, Zenon
    <3>3. <<"SU">> \o tail \in Seq(Commands)
      BY <1>2, <2>1, ConcatProperties
    <3> QED
      BY <2>2, <2>4, <3>1, <3>2, <3>3
  <2> QED
    BY <2>3, <2>4
<1>5. (dialogue \o said) \o more = Script(r)
  <2>1. dialogue \o (said \o more) = Script(r)
    BY <1>4 DEF Follows
  <2>2. (dialogue \o said) \o more = dialogue \o (said \o more)
    <3>1. dialogue \in Seq(Commands) /\ said \in Seq(Commands) /\ more \in Seq(Commands)
      BY <1>2
    <3> QED
      BY <3>1, Associative, Zenon
  <2> QED
    BY <2>1, <2>2, Zenon
<1>6. dialogue \o said \in Seq(Commands)
  BY <1>2, ConcatProperties
<1> QED
  BY <1>1, <1>5, <1>6, PrefixOfScript

\* HELO is said to a server without ESMTP, as the first command.
LEMMA HeloIsFirst ==
    ASSUME ClientShape, DoneInOrder, NEW r \in Requests, Follows(r), Helo
    PROVE  dialogue' = <<"HELO">>
<1>1. step = "act" /\ ~esmtp /\ dialogue' = Append(dialogue, "HELO")
  BY DEF Helo, Greeting, SpeaksEsmtp, ClientShape, SomebodyServed
<1>2. "HELO" \notin done /\ "START_TLS" \notin done /\ "START_TLS_FINISHED" \notin done
  BY <1>1 DEF Helo, Greeting, Turn, DoneInOrder, Conversation
<1>3. Left(r) = Script(r)
  BY <1>1, <1>2 DEF Left, DoneInOrder, Conversation
<1>4. dialogue \in Seq(Commands) /\ Script(r) \in Seq(Commands)
  BY LeftType DEF ClientShape, ClientTypeOK
<1>5. dialogue = <<>>
  <2>1. Len(dialogue) + Len(Script(r)) = Len(Script(r))
    BY <1>3, <1>4, ConcatProperties DEF Follows
  <2>2. Len(dialogue) \in Nat /\ Len(Script(r)) \in Nat
    BY <1>4, LenProperties
  <2>3. Len(dialogue) = 0
    BY <2>1, <2>2
  <2> QED
    BY <1>4, <2>3, EmptySeq
<1> QED
  BY <1>1, <1>5

\* No step leaves the script.
LEMMA StepOnScript ==
    ASSUME ClientShape, ClientShape', DoneInOrder, OnScript, InOrder, Step
    PROVE  OnScript' /\ InOrder'
<1>1. PICK r \in Requests : r = AccessRequest
  BY RequestOfCurrent
<1>2. Conversation => Follows(r)
  BY <1>1 DEF OnScript
<1>3. ASSUME Follows(r)', Conversation' => pending' = pending
      PROVE  OnScript' /\ InOrder'
  <2>1. Conversation' => AccessRequest' = r
    BY <1>1, <1>3 DEF AccessRequest, Current
  <2>2. dialogue' \in Seq(Commands) /\ Left(r)' \in Seq(Commands)
    BY LeftType, ScriptTypes, RequestShape DEF Left, ClientShape, ClientTypeOK
  <2>3. dialogue' \o Left(r)' = Script(r)
    BY <1>3 DEF Follows
  <2>4. IsPrefix(dialogue', Script(r))
    BY <2>2, <2>3, PrefixOfScript
  <2> QED
    BY <1>3, <2>1, <2>4 DEF OnScript, InOrder, Requests
<1>4. ASSUME ~Conversation', dialogue' = dialogue
      PROVE  OnScript' /\ InOrder'
  BY <1>4 DEF OnScript, InOrder
<1>5. CASE StartTLS \/ MailFrom \/ RcptTo \/ Data \/ Body \/ Quit
  <2>1. Conversation /\ (Conversation' => pending' = pending)
    BY <1>5 DEF StartTLS, MailFrom, RcptTo, Data, Body, Quit, Send, Onward, NextTarget,
       Conversation
  <2> QED
    BY <1>2, <1>3, <1>5, <2>1, SendFollows
<1>6. CASE Ehlo
  <2>1. Conversation /\ pending' = pending
    BY <1>6 DEF Ehlo, Greeting, Conversation
  <2> QED
    BY <1>1, <1>2, <1>3, <1>6, <2>1, EhloFollows
<1>7. CASE Read \/ (LastOption /\ step' = "act")
  <2>1. /\ Conversation /\ pending' = pending
        /\ dialogue' = dialogue /\ done' = done
    BY <1>7 DEF Read, LastOption, Conversation, NextTarget, session
  <2>2. Follows(r)'
    BY <1>2, <2>1 DEF Follows, Left
  <2> QED
    BY <1>3, <2>1, <2>2
<1>8. CASE Connect
  <2>1. Left(r)' = Script(r) /\ pending' = pending /\ dialogue' = <<>>
    BY <1>8 DEF Connect, Left
  <2>2. <<>> \o Script(r) = Script(r)
    BY LeftType, ConcatEmptySeq
  <2> QED
    BY <1>3, <2>1, <2>2 DEF Follows
<1>9. CASE Upgrade
  <2>1. /\ step = "act" /\ "START_TLS" \in done /\ "START_TLS_FINISHED" \notin done
        /\ done' = (done \cup {"START_TLS_FINISHED"}) \ {"HELO"}
        /\ pending' = pending /\ dialogue' = dialogue
    BY <1>9 DEF Upgrade, Turn
  <2>2. /\ "MAIL_FROM" \notin done /\ "RCPT_TO" \notin done /\ "DATA_START" \notin done
        /\ "DATA_END" \notin done /\ "QUIT" \notin done
    BY <2>1 DEF DoneInOrder, Conversation
  <2>3. Left(r) = SecondGreeting(r) /\ Left(r)' = SecondGreeting(r)
    BY <2>1, <2>2 DEF Left
  <2>4. Follows(r)'
    BY <1>2, <2>1, <2>3 DEF Follows, Conversation
  <2> QED
    BY <1>3, <2>1, <2>4
<1>10. CASE \E said \in {<<"FCAPA">>, <<"FCAPA", "SU">>} : AccessRefused(said)
  <2>1. PICK said \in {<<"FCAPA">>, <<"FCAPA", "SU">>} : AccessRefused(said)
    BY <1>10
  <2>2. Conversation /\ ~Conversation'
    BY <2>1 DEF AccessRefused, Greeting, Conversation, NextTarget
  <2>3. IsPrefix(dialogue', Script(r))
    BY <1>1, <1>2, <2>1, <2>2, RefusedFollows
  <2> QED
    BY <2>2, <2>3 DEF OnScript, InOrder, Requests
<1>11. CASE Helo
  <2>1. Conversation /\ ~Conversation'
    BY <1>11 DEF Helo, Greeting, Conversation, NextTarget
  <2> QED
    BY <1>2, <1>11, <2>1, HeloIsFirst DEF OnScript, InOrder
<1>12. CASE \/ Prepare \/ SignFails \/ ConnectFails \/ NoServer \/ AllHandled \/ Garbled
            \/ WriteFails \/ Close \/ Refuse \/ UpgradeFails \/ OptionsFail
            \/ (LastOption /\ step' # "act") \/ GoesSilent
  <2>1. ~Conversation' /\ dialogue' = dialogue
    BY <1>12 DEF Prepare, SignFails, ConnectFails, NoServer, AllHandled, Garbled, WriteFails,
       Close, Refuse, UpgradeFails, OptionsFail, LastOption, GoesSilent, NextTarget,
       Conversation, session
  <2> QED
    BY <1>4, <2>1
<1> QED
  BY <1>5, <1>6, <1>7, <1>8, <1>9, <1>10, <1>11, <1>12 DEF Step

\* InOrder: the commands sent on a connection, until the next one replaces it, go
\* out in SMTP's order and none twice, whatever the server answers and whatever
\* code is left over when a read fails (beSocial 243-586).
THEOREM CommandsInOrder == Spec => []InOrder
<1> DEFINE Inv == ClientShape /\ DoneInOrder /\ OnScript /\ InOrder
<1>1. Init => Inv
  <2> SUFFICES ASSUME Init PROVE Inv
    OBVIOUS
  <2>1. <<>> \in Requests /\ dialogue = <<>>
    BY DEF Requests, Init
  <2>2. <<>> \o Script(<<>>) = Script(<<>>) /\ Script(<<>>) \in Seq(Commands)
    BY <2>1, LeftType, ConcatEmptySeq
  <2>3. IsPrefix(dialogue, Script(<<>>))
    BY <2>1, <2>2, PrefixOfScript, RequestShape
  <2> QED
    BY <2>3, InitShape DEF Init, DoneInOrder, OnScript, InOrder, Conversation
<1>2. Inv /\ [Next]_vars => Inv'
  <2> SUFFICES ASSUME Inv, [Next]_vars PROVE Inv'
    OBVIOUS
  <2>1. CASE Step
    BY <2>1, StepShape, StepKeepsOrder, StepOnScript
  <2>2. CASE UNCHANGED vars
    BY <2>2 DEF vars, errorVars, reply, session, history, ClientShape, ClientTypeOK,
       SomebodyServed, Conversation, DoneInOrder, OnScript, InOrder, Follows, Left,
       AccessRequest, Current
  <2> QED
    BY <2>1, <2>2 DEF Next, MoreOptions, Ended
<1> QED
  BY <1>1, <1>2, PTL DEF Spec
=============================================================================
