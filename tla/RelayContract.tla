--------------------------- MODULE RelayContract ---------------------------
(***************************************************************************)
(* What the transmission worker may expect of its SMTP client              *)
(* (lib/workers/TransmissionWorker.src.cc 120-143): every recipient is     *)
(* dealt with once and adds at most one error; the call returns when all   *)
(* are dealt with, or it throws, hangs or takes the process with it.       *)
(***************************************************************************)
EXTENDS Naturals, FiniteSets

CONSTANT Recipients

VARIABLES open,    \* the recipients still to be dealt with
          errors,  \* s_ErrorCount
          outcome  \* how beSocial ended

contract == <<open, errors, outcome>>

ContractInit == open = Recipients /\ errors = 0 /\ outcome = "running"

Settle(settled) ==
    /\ outcome = "running"
    /\ open' = open \ settled
    /\ errors' \in errors .. errors + Cardinality(settled)
    /\ UNCHANGED outcome

End(how) ==
    /\ outcome = "running"
    /\ how = "returned" => open = {}
    /\ outcome' = how
    /\ UNCHANGED <<open, errors>>

ContractNext ==
    \/ \E settled \in SUBSET open : Settle(settled)
    \/ \E how \in {"returned", "thrown", "hang", "dead"} : End(how)

Contract == ContractInit /\ [][ContractNext]_contract
=============================================================================
