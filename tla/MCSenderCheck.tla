--------------------------- MODULE MCSenderCheck ----------------------------
(* Four domains whose policies are any of the records below, in circles and in chains *)
(* longer than the stack, and three clients; addresses of four one-bit octets. *)
EXTENDS SenderCheck
\* What the theorems take for granted of the comparisons, for these addresses and for
\* ones of two-bit octets, where a mask can end within an octet.
Wider == INSTANCE IpPrefix WITH OctetBits <- 2, V4Octets <- 4, V6Octets <- 3
ASSUME MCCompares == ComparesExactly /\ Wider!ComparesExactly
\* The other masks of IPv4: one that is too short shuts addresses of the network out,
\* one that is too long lets others in, and none means nobody where it should be all.
Taken(a, b, m) == Wider!Compare4(a, [addr |-> b, mask |-> m])
Part(a, b, m) == Wider!InNet4(a, [addr |-> b, mask |-> m])
ASSUME MCMisreads ==
    /\ \A m \in 0 .. 3 : \E a, b \in Wider!V4 : Part(a, b, m) /\ ~Taken(a, b, m)
    /\ \A m \in 5 .. 7 : \E a, b \in Wider!V4 : Taken(a, b, m) /\ ~Part(a, b, m)
    /\ \A m \in -3 .. -2 : \A a, b \in V6 : Compare6(a, [addr |-> b, mask |-> m])
T(key, val) == [sign |-> "", key |-> key, atom |-> FALSE, val |-> val]
Minus(key, val) == [sign |-> "-", key |-> key, atom |-> FALSE, val |-> val]
A(sign, key) == [sign |-> sign, key |-> key, atom |-> TRUE, val |-> ""]
Rec(terms) == <<[spf |-> TRUE, terms |-> terms]>>
NetOf(a, m) == [addr |-> a, mask |-> m]
MCTxt == {
    <<>>,
    <<[spf |-> FALSE, terms |-> <<A("", "a")>>]>> \o Rec(<<A("+", "mx")>>),
    Rec(<<T("ip4", NetOf(<<0, 1, 0, 1>>, 3)), T("ip6", NetOf(<<1, 0, 1, 0>>, 5)),
          T("ip6", NetOf(<<1, 0, 1, 1>>, 3)), T("mx", "b")>>),
    Rec(<<T("a", "b"), T("include", "a"), T("include", "c")>>),
    Rec(<<T("include", "b"), T("ptr", "c"), A("-", "a"),
          Minus("ip4", NetOf(<<0, 0, 0, 1>>, -1))>>),
    Rec(<<A("", "a"), T("redirect", "b"), T("redirect", "c")>>),
    Rec(<<T("ip4", IllFormed), T("ip4", NetOf(<<0, 1, 1, 0>>, -1)), T("include", "a")>>)}
Host(d) == [literal |-> FALSE, v4 |-> TRUE, at |-> d]
Literal(v4, a) == [literal |-> TRUE, v4 |-> v4, at |-> a]
MCMx == [a |-> <<Literal(FALSE, <<1, 0, 1, 0>>), Host("b")>>,
         b |-> <<Host("b"), Host("c"), Literal(TRUE, <<0, 1, 1, 0>>)>>, c |-> <<>>, d |-> <<>>]
MCAddresses == [a |-> <<<<0, 1, 0, 0>>, <<0, 0, 0, 1>>>>, b |-> <<<<0, 1, 1, 0>>>>,
                c |-> <<>>, d |-> <<>>]
MCClients == {[v4 |-> TRUE, addr |-> <<0, 1, 1, 0>>], [v4 |-> TRUE, addr |-> <<0, 0, 0, 1>>],
              [v4 |-> FALSE, addr |-> <<1, 0, 1, 0>>]}
MCReversed == [x \in {c.addr : c \in MCClients} |-> IF x = <<1, 0, 1, 0>> THEN {"c"} ELSE {}]
Seg(key, val) == [key |-> key, val |-> val]
MCDmarcTxt == {
    <<>>,
    <<<<Seg("v", "dmarc1"), Seg("p", "reject")>>>>,
    <<<<Seg("p", "quarantine"), Seg(Broken, "")>>, <<Seg("v", "dmarc1")>>>>,
    <<<<Seg("v", "dmarc1")>>, <<Seg("p", "reject")>>>>}
MCSignatures == {<<>>, <<"valid">>, <<"invalid">>, <<"not found">>, <<"not found", "valid">>,
                 <<"valid", "failure">>}
MCLocal == {<<0, 0, 0, 1>>}
=============================================================================
