------------------------------- MODULE MCPop3 -------------------------------
(* Two POP3 sessions on an inbox that is being filled. *)
EXTENDS Pop3, TLC
CONSTANTS ann, bob, inbox, p1, p2, nobody
=============================================================================
