----------------------------- MODULE MCDelivery -----------------------------
(* The server and its workers, with one client: DeliveryProofs has any number. *)
EXTENDS Delivery
CONSTANTS c1, ann, nobody, remote, none, noconn
SegmentOf(key, words) == [key |-> key, words |-> words]
MCFlagHeaders == {
    <<>>,
    <<<<SegmentOf("db", {"nstore"})>>>>,
    <<<<SegmentOf("mailer", {"nerror"}), SegmentOf(NoKey, {}), SegmentOf("db", {"nstore"})>>,
      <<SegmentOf("other", {"nstore"})>>>>,
    <<<<SegmentOf("mailer", {"nstore"})>>,
      <<SegmentOf("db", {"nstore", "nerror"}), SegmentOf("mailer", {"nerror"})>>>>}
=============================================================================
