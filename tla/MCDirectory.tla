---------------------------- MODULE MCDirectory -----------------------------
(* Two connection threads of one server, which share its hiredis context, and *)
(* a console with its own.  The default mailboxes are left out: no look-up    *)
(* reads them.                                                                *)
EXTENDS Directory, TLC
CONSTANTS t1, t2, admin, server
OneServer == [p \in {t1, t2, admin} |-> IF p = admin THEN admin ELSE server]
NoBoxes == <<>>
Symmetry == Permutations({t1, t2})
=============================================================================
