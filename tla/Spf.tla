-------------------------------- MODULE Spf ---------------------------------
(***************************************************************************)
(* The sender policy framework: SPFRecord::parse and fromDNS               *)
(* (lib/spf/SPFRecord.src.cc) and the recursion of SPFValidator::validate  *)
(* (lib/spf/SPFValidator.src.cc), one step per question to the DNS.        *)
(*                                                                         *)
(* A domain's TXT records are sequences of terms.  Only positive           *)
(* mechanisms are ever used: "-ip4", "~all" and the like are parsed and    *)
(* forgotten.                                                              *)
(***************************************************************************)
EXTENDS IpPrefix, Selection, SequencesExt

CONSTANTS Domains,
          Txt,         \* the TXT records a domain may have: [spf, terms]
          Mx,          \* domain -> sequence of MX hosts: domains, or addresses
          Addresses,   \* domain -> sequence of its IPv4 addresses, <<>> if it has none
          Reversed,    \* address -> the domains its host's name ends with
          Clients,     \* [v4 : BOOLEAN, addr : V4 or V6]
          MaxDepth,    \* calls of validate that fit on a thread's stack
          MaxLookups   \* bound on failing look-ups

\* A term is [sign, key, atom, val]: the sign may be "", the value counts unless the
\* term is an atom.
NoDomain == "no domain"

IsSeq(s) == s \in Seq(ToSet(s))
\* A value of "ip4" or "ip6" in which no address or no number is found.
IllFormed == [addr |-> <<>>, mask |-> NoMask]
\* What a term gives is of the kind its key asks for.
WellFormed(terms) == \A i \in DOMAIN terms : ~terms[i].atom =>
    /\ terms[i].key \in {"include", "redirect", "mx", "a"} => terms[i].val \in Domains
    /\ terms[i].key = "ip4" => terms[i].val \in Nets4 \cup {IllFormed}
    /\ terms[i].key = "ip6" => terms[i].val \in Nets6 \cup {IllFormed}

ASSUME SpfConstants ==
    /\ \A txts \in Txt : IsSeq(txts) /\ \A i \in DOMAIN txts :
          IsSeq(txts[i].terms) /\ WellFormed(txts[i].terms)
    /\ Mx \in [Domains -> Seq([literal : BOOLEAN, v4 : BOOLEAN, at : Domains \cup V4 \cup V6])]
    /\ \A d \in Domains : \A h \in ToSet(Mx[d]) : h.literal \/ h.at \in Domains
    /\ Addresses \in [Domains -> Seq(V4)]
    /\ Clients \subseteq [v4 : {TRUE}, addr : V4] \cup [v4 : {FALSE}, addr : V6]
    /\ NoDomain \notin Domains
    /\ MaxDepth \in Nat \ {0}
    /\ MaxLookups \in Nat

VARIABLES zone,     \* domain -> sequence of its TXT records
          client,
          query,    \* the domain whose policy is asked for
          stack,    \* the calls of validate in progress
          spf,      \* m_Result of the validator
          run,      \* what the thread is doing
          lost      \* failed look-ups

spfVars == <<zone, client, query, stack, spf, run, lost>>

-----------------------------------------------------------------------------
(* SPFRecord *)

Positive(t, key) == t.key = key /\ t.sign \in {"", "+"}

\* The values of the terms of a key, and whether it stands alone.
Values(terms, key) ==
    LET given == Picked(terms, {i \in DOMAIN terms :
                                   Positive(terms[i], key) /\ ~terms[i].atom})
    IN  [i \in DOMAIN given |-> given[i].val]
Alone(terms, key) == \E i \in DOMAIN terms : Positive(terms[i], key) /\ terms[i].atom

\* The last redirect counts; it takes no sign.
Redirect(terms) ==
    LET given == {i \in DOMAIN terms :
                     terms[i].key = "redirect" /\ terms[i].sign = "" /\ ~terms[i].atom}
    IN  IF given = {} THEN NoDomain ELSE terms[Max(given)].val

\* SPFRecord::fromDNS: the first TXT record that is one, of none.
SpfRecords(d) == {i \in DOMAIN zone[d] : zone[d][i].spf}
HasRecord(d) == SpfRecords(d) # {}
Terms(d) == zone[d][Min(SpfRecords(d))].terms

\* What validate does with a record, in order.  The domains of "mx:" are not
\* asked for their hosts: the queried domain is, once for each of them.
Check(kind, arg) == [kind |-> kind, arg |-> arg]
Each(kind, args) == [i \in 1 .. Len(args) |-> Check(kind, args[i])]
If(b, checks) == IF b THEN checks ELSE <<>>
OtherMx(d, terms) == [i \in 1 .. Len(Values(terms, "mx")) |-> Check("mx", d)]
Checks(d, terms) ==
    IF Redirect(terms) # NoDomain
    THEN <<Check("redirect", Redirect(terms))>>
    ELSE <<IF client.v4 THEN Check("ip4", Values(terms, "ip4"))
                        ELSE Check("ip6", Values(terms, "ip6"))>>
         \o If(Alone(terms, "mx"), <<Check("mx", d)>>)
         \o If(Alone(terms, "a"), <<Check("a", d)>>)
         \o OtherMx(d, terms)
         \o Each("a", Values(terms, "a"))
         \o If(Values(terms, "ptr") # <<>>, <<Check("ptr", Values(terms, "ptr"))>>)
         \o Each("include", Values(terms, "include"))

-----------------------------------------------------------------------------
(* The mechanisms *)

\* One MX host: an address of the other protocol is passed over, a name is resolved
\* to its first IPv4 address, and one that has none, or is compared with an IPv6
\* client, throws, which ends the check.
HostStops(h) == ~h.literal /\ (Addresses[h.at] = <<>> \/ ~client.v4)
HostMatches(h) ==
    IF h.literal THEN h.v4 = client.v4 /\ h.at = client.addr
    ELSE ~HostStops(h) /\ Head(Addresses[h.at]) = client.addr
ValidateMX(d) ==
    \E i \in DOMAIN Mx[d] :
        HostMatches(Mx[d][i]) /\ \A j \in 1 .. i - 1 : ~HostStops(Mx[d][j])

\* inet_ntoa makes no IPv6 address of an AAAA record: the comparison throws.
ValidateA(d) == client.v4 /\ client.addr \in ToSet(Addresses[d])

\* A name that ends with the text of the domain will do.
ValidatePTR(names) == \E d \in ToSet(names) : d \in Reversed[client.addr]

\* What comparing with an address throws is swallowed, and the next one is tried.
Matches(c) ==
    CASE c.kind = "ip4" -> \E n \in ToSet(c.arg) : n # IllFormed /\ Compare4(client.addr, n)
      [] c.kind = "ip6" -> \E n \in ToSet(c.arg) : n # IllFormed /\ Compare6(client.addr, n)
      [] c.kind = "mx" -> ValidateMX(c.arg)
      [] c.kind = "a" -> ValidateA(c.arg)
      [] c.kind = "ptr" -> ValidatePTR(c.arg)

-----------------------------------------------------------------------------
(* SPFValidator::validate *)

Call(via, d) == [via |-> via, domain |-> d, fetched |-> FALSE, todo |-> <<>>]

Top == Last(stack)
WithTop(call) == Append(Front(stack), call)
Running == run = "spf" /\ stack # <<>>
At(kinds) == Running /\ Top.fetched /\ Top.todo # <<>> /\ Head(Top.todo).kind \in kinds

SpfInit ==
    /\ zone \in [Domains -> Txt]
    /\ client \in Clients
    /\ query \in Domains
    /\ stack = <<>> /\ spf = "denied" /\ lost = 0

Begin ==
    /\ stack' = <<Call("query", query)>>
    /\ spf' = "denied"
    /\ run' = "spf"

\* A call returns false: its caller goes on with what it has left to do.
ReturnFalse == stack' = Front(stack) /\ UNCHANGED spf
\* Wrong on purpose: an include does not catch what its call throws.
ThrowsThrough == stack' = <<>> /\ spf' = "failure"

\* It throws: the innermost include catches it, or the caller of validate.
Throws ==
    LET tried == {i \in DOMAIN stack : stack[i].via = "include"}
        k == IF tried = {} THEN 1 ELSE CHOOSE i \in tried : \A j \in tried : j <= i
    IN  /\ stack' = SubSeq(stack, 1, k - 1)
        /\ spf' = IF k = 1 THEN "failure" ELSE spf

Fetch ==
    /\ Running /\ ~Top.fetched
    /\ IF HasRecord(Top.domain)
       THEN /\ stack' = WithTop([Top EXCEPT !.fetched = TRUE,
                                            !.todo = Checks(Top.domain, Terms(Top.domain))])
            /\ UNCHANGED spf
       ELSE Throws
    /\ UNCHANGED <<zone, client, query, run, lost>>

FetchFails ==
    /\ Running /\ ~Top.fetched
    /\ lost < MaxLookups /\ lost' = lost + 1
    /\ Throws
    /\ UNCHANGED <<zone, client, query, run>>

\* A match makes every call return true.
Try ==
    /\ At({"ip4", "ip6", "mx", "a", "ptr"})
    /\ IF Matches(Head(Top.todo))
       THEN stack' = <<>> /\ spf' = "allowed"
       ELSE stack' = WithTop([Top EXCEPT !.todo = Tail(@)]) /\ UNCHANGED spf
    /\ UNCHANGED <<zone, client, query, run, lost>>

\* What a mechanism throws is swallowed.
TryFails ==
    /\ At({"mx", "a", "ptr"})
    /\ lost < MaxLookups /\ lost' = lost + 1
    /\ stack' = WithTop([Top EXCEPT !.todo = Tail(@)])
    /\ UNCHANGED <<zone, client, query, spf, run>>

\* Wrong on purpose: the call asks for its caller's domain, not the one named.
CallAgainSame ==
    /\ At({"include", "redirect"})
    /\ Len(stack) < MaxDepth
    /\ stack' = Append(stack, Call(Head(Top.todo).kind, Top.domain))
    /\ UNCHANGED <<zone, client, query, spf, run, lost>>

CallAgain ==
    /\ At({"include", "redirect"})
    /\ Len(stack) < MaxDepth
    /\ LET c == Head(Top.todo)
       IN  stack' = Append(WithTop([Top EXCEPT !.todo = Tail(@)]), Call(c.kind, c.arg))
    /\ UNCHANGED <<zone, client, query, spf, run, lost>>

\* Nothing counts the calls: the thread's stack ends, and with it the process.
StackOverflow ==
    /\ At({"include", "redirect"})
    /\ Len(stack) = MaxDepth
    /\ run' = "died"
    /\ UNCHANGED <<zone, client, query, stack, spf, lost>>

Nothing ==
    /\ Running /\ Top.fetched /\ Top.todo = <<>>
    /\ ReturnFalse
    /\ UNCHANGED <<zone, client, query, run, lost>>

SpfStep == Fetch \/ FetchFails \/ Try \/ TryFails \/ CallAgain \/ StackOverflow \/ Nothing

-----------------------------------------------------------------------------
(* Properties *)

\* The domains a domain's policy hands the decision to.
Refers(d) ==
    IF ~HasRecord(d) THEN {}
    ELSE IF Redirect(Terms(d)) # NoDomain THEN {Redirect(Terms(d))}
    ELSE ToSet(Values(Terms(d), "include"))

Closed(S) == \A d \in S : Refers(d) \subseteq S
\* Some domain with a property is in every set that holds the query and whatever
\* its members refer to: it is reached from the query.
Reaches(P(_)) == \A S \in SUBSET Domains : query \in S /\ Closed(S) => \E d \in S : P(d)

Names(d, key, P(_)) == \E v \in ToSet(Values(Terms(d), key)) : P(v)
Decides(d) == HasRecord(d) /\ Redirect(Terms(d)) = NoDomain

\* The policy of d lists the address of the client: in terms that the code reads as
\* they are meant.
Listed(d) ==
    \/ client.v4 /\ Names(d, "ip4", LAMBDA n :
           n # IllFormed /\ n.mask \in ExactMasks4 /\ InNet4(client.addr, n))
    \/ ~client.v4 /\ Names(d, "ip6", LAMBDA n : n # IllFormed /\ InNet6(client.addr, n))
    \/ client.v4 /\ Alone(Terms(d), "a") /\ client.addr \in ToSet(Addresses[d])
    \/ client.v4 /\ Names(d, "a", LAMBDA x : client.addr \in ToSet(Addresses[x]))

IsHostOf(d) == \E h \in ToSet(Mx[d]) :
    IF h.literal THEN h.v4 = client.v4 /\ h.at = client.addr
    ELSE client.v4 /\ client.addr \in ToSet(Addresses[h.at])
\* The policy of d names the client: a network is the addresses with its prefix, and
\* "mx:" gives the domain whose MX hosts may send.
Named(d) ==
    \/ Listed(d)
    \/ client.v4 /\ Names(d, "ip4", LAMBDA n : n # IllFormed /\ InNet4(client.addr, n))
    \/ Alone(Terms(d), "mx") /\ IsHostOf(d)
    \/ Names(d, "mx", IsHostOf)
    \/ Names(d, "ptr", LAMBDA x : x \in Reversed[client.addr])

\* The policy of d has a term that the code does not read as it is meant: an IPv4
\* network, a mask that no address has, or the MX hosts of another domain.
Misread(d) ==
    \/ client.v4 /\ Names(d, "ip4", LAMBDA n : n.mask \notin ExactMasks4)
    \/ ~client.v4 /\ Names(d, "ip6", LAMBDA n : n.mask \notin ExactMasks6)
    \/ Values(Terms(d), "mx") # <<>>

\* A sender is not allowed, all look-ups answered, only if no policy lists the client's
\* address: no mechanism that comes to nothing, no address that is none, no include that
\* has no record and no circle hides the ones after it.
DenialIsEarned ==
    run = "spf" /\ stack = <<>> /\ spf # "allowed" /\ lost = 0
        => ~Reaches(LAMBDA d : Decides(d) /\ Listed(d))

\* validate ends the process only where the policies, from the queried domain on, refer
\* to one another as often as calls fit on the stack and once more, in a circle or not:
\* neither the mechanisms nor a throw that an include caught leave a call behind.
DiesOnlyOnChains ==
    run = "died" => \E s \in [1 .. MaxDepth + 1 -> Domains] :
        s[1] = query /\ \A i \in 1 .. MaxDepth : s[i + 1] \in Refers(s[i])

\* An address that counts as part of an IPv4 subnet is in it: what validateIPv4 writes
\* in its result (SPFValidator.src.cc:264-267).
PartOfSubnet ==
    [][Try /\ spf' = "allowed" /\ Head(Top.todo).kind = "ip4" =>
           \E n \in ToSet(Head(Top.todo).arg) : n # IllFormed /\ InNet4(client.addr, n)]_spfVars
=============================================================================
