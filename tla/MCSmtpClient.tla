---------------------------- MODULE MCSmtpClient ----------------------------
(* A message to three recipients, the second of a domain this server serves. *)
EXTENDS SmtpClient
=============================================================================
