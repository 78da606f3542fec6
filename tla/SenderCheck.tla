---------------------------- MODULE SenderCheck -----------------------------
(***************************************************************************)
(* What the server makes of a sender it did not authenticate: the first    *)
(* half of dataHandler (lib/smtp/server/handlers/data.src.cc) with the     *)
(* DMARC record (lib/dmarc/DMARCRecord.src.cc), the SPF validation (Spf)   *)
(* and the outcome of the DKIM signatures                                  *)
(* (lib/dkim/DKIMValidator.src.cc); and the SU command, by which a client  *)
(* asks to be taken for a server of our own.                               *)
(*                                                                         *)
(* A TXT record at _dmarc.<domain> is a sequence of segments [key, val]; a *)
(* segment without "=" has the key Broken.                                 *)
(***************************************************************************)
EXTENDS Spf

CONSTANTS DmarcTxt,    \* the answers to a DMARC query: sequences of TXT records
          Signatures,  \* the sequences of a message's signatures, by outcome
          Own,         \* the domain of the configuration
          Local        \* 0.0.0.0 and 127.0.0.1

ASSUME SenderConstants ==
    /\ Own \in Domains /\ Local \subseteq V4
    /\ DmarcTxt \subseteq Seq(Seq([key : STRING, val : STRING]))
    /\ Signatures \subseteq Seq(STRING)

Broken == "broken"
Policies == {"none", "quarantine", "reject"}

VARIABLES purpose,   \* "data" or "su"
          published, \* history: the answer to the DMARC query
          dmarc,     \* the policy of the record found, "missing" without one
          suspect,   \* setPossibleSpam
          dmarcSpf,  \* dmarcSpfValid
          dkim,      \* m_Result of the DKIM validator
          signed,    \* history: the outcomes of the message's signatures
          header     \* the dmarc entry of Authentication-Results

checkVars == <<spfVars, purpose, published, dmarc, suspect, dmarcSpf, dkim, signed, header>>

CheckInit ==
    /\ SpfInit
    /\ purpose \in {"data", "su"}
    /\ purpose = "su" => query = Own
    /\ run = "begin"
    /\ published = <<>> /\ dmarc = "missing" /\ suspect = FALSE /\ dmarcSpf = TRUE
    /\ dkim = "fail" /\ signed = <<>> /\ header = "none"

-----------------------------------------------------------------------------
(* DMARCRecord *)

Failing(txt) == {j \in DOMAIN txt : txt[j].key = Broken}
IsRecord(txt) == Failing(txt) = {}
\* The segments that say what the policy is, up to the one that throws.
PolicySegments(txt) ==
    {j \in DOMAIN txt : txt[j].key = "p" /\ \A k \in Failing(txt) : j < k}

\* fromDNS stops at the first record that can be parsed; what was read of those
\* before it stays in the result, and the last policy read counts.
DmarcFromDNS(txts) ==
    LET good == {i \in DOMAIN txts : IsRecord(txts[i])}
        saying == {i \in DOMAIN txts : PolicySegments(txts[i]) # {} /\ \A k \in good : i <= k}
        txt == txts[Max(saying)]
        said == txt[Max(PolicySegments(txt))].val
    IN  IF good = {} THEN "missing"
        ELSE IF saying # {} /\ said \in Policies THEN said
        ELSE "none"

\* Any failure counts as no record.
AskDmarc ==
    /\ run = "begin" /\ purpose = "data"
    /\ \/ published' \in DmarcTxt /\ UNCHANGED lost
       \/ published' = <<>> /\ lost < MaxLookups /\ lost' = lost + 1
    /\ dmarc' = DmarcFromDNS(published')
    /\ Begin
    /\ UNCHANGED <<zone, client, query, purpose, suspect, dmarcSpf, dkim, signed, header>>

-----------------------------------------------------------------------------
(* dataHandler *)

SpfEnded == run = "spf" /\ stack = <<>> /\ purpose = "data"

\* Wrong on purpose: a failure does not count against the sender, only a denial.
JudgeDenialOnly ==
    /\ SpfEnded
    /\ IF spf # "allowed" /\ dmarc = "reject"
       THEN run' = "rejected" /\ UNCHANGED <<suspect, dmarcSpf>>
       ELSE /\ suspect' = (spf = "denied")
            /\ dmarcSpf' = (spf = "allowed" \/ dmarc # "quarantine")
            /\ run' = "dkim"
    /\ UNCHANGED <<zone, client, query, stack, spf, lost, purpose, published, dmarc, dkim,
                   signed, header>>

\* safeValidate makes a failure of what validate throws; both it and a denial count
\* against the sender, and a rejection ends the connection.
JudgeSpf ==
    /\ SpfEnded
    /\ IF spf # "allowed" /\ dmarc = "reject"
       THEN run' = "rejected" /\ UNCHANGED <<suspect, dmarcSpf>>
       ELSE /\ suspect' = (spf # "allowed")
            /\ dmarcSpf' = (spf = "allowed" \/ dmarc # "quarantine")
            /\ run' = "dkim"
    /\ UNCHANGED <<zone, client, query, stack, spf, lost, purpose, published, dmarc, dkim,
                   signed, header>>

\* Wrong on purpose: a signature whose key is not found counts as none.
DkimLenient(s) ==
    IF s = <<>> \/ Head(s) = "not found" THEN "neutral"
    ELSE IF Head(s) = "valid" THEN "pass" ELSE "fail"

\* DKIMValidator::validate: any_of stops at the first signature that is not valid.
DkimResult(s) ==
    IF s = <<>> THEN "neutral"
    ELSE IF Head(s) = "valid" THEN "pass" ELSE "fail"

JudgeDkim ==
    /\ run = "dkim"
    /\ signed' \in Signatures
    /\ dkim' = DkimResult(signed')
    /\ LET dkimValid == dkim' \in {"pass", "neutral"}
           dmarcDkim == dkimValid \/ dmarc = "none"
       IN  header' = IF dmarc # "missing" /\ dmarcSpf /\ dmarcDkim THEN "pass" ELSE "fail"
    /\ run' = "judged"
    /\ UNCHANGED <<zone, client, query, stack, spf, lost, purpose, published, dmarc, suspect,
                   dmarcSpf>>

\* The message cannot be split, or has a header without a colon: the exception leaves
\* the handler.
JudgeThrows ==
    /\ run = "dkim"
    /\ run' = "thrown"
    /\ UNCHANGED <<zone, client, query, stack, spf, lost, purpose, published, dmarc, suspect,
                   dmarcSpf, dkim, signed, header>>

-----------------------------------------------------------------------------
(* SU *)

AskSu ==
    /\ run = "begin" /\ purpose = "su"
    /\ Begin
    /\ UNCHANGED <<zone, client, query, lost, purpose, published, dmarc, suspect, dmarcSpf,
                   dkim, signed, header>>

\* Here validate is not the safe one: what it throws leaves the handler, for a
\* client on this machine too.
JudgeSu ==
    /\ run = "spf" /\ stack = <<>> /\ purpose = "su"
    /\ run' = IF spf = "failure" THEN "thrown"
              ELSE IF spf = "allowed" \/ (client.v4 /\ client.addr \in Local) THEN "granted"
              ELSE "refused"
    /\ UNCHANGED <<zone, client, query, stack, spf, lost, purpose, published, dmarc, suspect,
                   dmarcSpf, dkim, signed, header>>

Check_SPF ==
    /\ SpfStep
    /\ UNCHANGED <<purpose, published, dmarc, suspect, dmarcSpf, dkim, signed, header>>

CheckEnded ==
    /\ run \in {"rejected", "judged", "thrown", "granted", "refused", "died"}
    /\ UNCHANGED checkVars

CheckNext ==
    \/ AskDmarc \/ AskSu \/ Check_SPF \/ JudgeSpf \/ JudgeDkim \/ JudgeThrows \/ JudgeSu
    \/ CheckEnded
CheckSpec == CheckInit /\ [][CheckNext]_checkVars

-----------------------------------------------------------------------------
(* Properties *)

Authorised == Reaches(LAMBDA d : Decides(d) /\ (Named(d) \/ Misread(d)))

\* Mail goes to an inbox, and a client is taken for one of our servers, only if a
\* policy the domain hands the decision to names the client, whatever look-ups failed
\* and whatever the DMARC record says.  The terms that the code misreads are the one
\* exception: what a policy that has them makes of the client, it says nothing of.
CleanIsAuthorised ==
    /\ run = "judged" /\ ~suspect => Authorised
    /\ run = "granted" => Authorised \/ client.addr \in Local

\* The DMARC record is followed: a message is rejected only if the owner of the
\* domain published p=reject, never for want of a record or because the query failed,
\* and never from an allowed client; and the header "dmarc pass" under a policy that
\* asks for anything means an authorised client and, of a message that is signed, a
\* signature that is valid.
DmarcFollowed ==
    /\ run = "rejected" =>
           /\ spf # "allowed"
           /\ \E i \in DOMAIN published : \E j \in DOMAIN published[i] :
                  published[i][j] = [key |-> "p", val |-> "reject"]
    /\ header = "pass" /\ dmarc # "none" =>
           Authorised /\ (signed # <<>> => \E i \in DOMAIN signed : signed[i] = "valid")
=============================================================================
