---------------------------- MODULE MCSmtpServer ----------------------------
(* One connection, two users, every order of nine commands. *)
EXTENDS SmtpServer, TLC
CONSTANTS c1, ann, bob, nobody, remote, none
SegmentOf(key, words) == [key |-> key, words |-> words]
MCFlagHeaders == {
    <<>>,
    <<<<SegmentOf("db", {"nstore"})>>>>,
    <<<<SegmentOf("mailer", {"nerror"}), SegmentOf(NoKey, {}), SegmentOf("db", {"nstore"})>>,
      <<SegmentOf("other", {"nstore"})>>>>,
    <<<<SegmentOf("mailer", {"nstore"})>>,
      <<SegmentOf("db", {"nstore", "nerror"}), SegmentOf("mailer", {"nerror"})>>>>}
=============================================================================
