------------------------- MODULE SenderCheckProofs --------------------------
(* Theorems about SenderCheck and Spf, for every set of domains, whatever  *)
(* records they publish and however deep their policies refer.             *)
EXTENDS SenderCheck, OrderLemmas, SequenceTheorems

-----------------------------------------------------------------------------
(* Sequences of whatever: only which members they have is told apart       *)

LEMMA SeqOfSet ==
    ASSUME NEW s, IsSeq(s)
    PROVE  /\ Len(s) \in Nat /\ DOMAIN s = 1 .. Len(s)
           /\ \A i \in DOMAIN s : s[i] \in ToSet(s)
           /\ \A x \in ToSet(s) : \E i \in DOMAIN s : s[i] = x
BY LenProperties DEF IsSeq, ToSet

LEMMA SetOfSeq ==
    ASSUME NEW n \in Nat, NEW s, DOMAIN s = 1 .. n, s = [i \in 1 .. n |-> s[i]]
    PROVE  IsSeq(s)
<1>1. s \in [1 .. n -> ToSet(s)]
  BY DEF ToSet
<1> HIDE DEF ToSet
<1> QED
  BY <1>1, SeqDef DEF IsSeq

LEMMA SubsetSeq ==
    ASSUME NEW T, NEW s \in Seq(T)
    PROVE  IsSeq(s) /\ ToSet(s) \subseteq T
<1>1. /\ Len(s) \in Nat /\ DOMAIN s = 1 .. Len(s) /\ s = [i \in 1 .. Len(s) |-> s[i]]
      /\ \A i \in 1 .. Len(s) : s[i] \in T
  BY LenProperties
<1> QED
  BY <1>1, SetOfSeq DEF ToSet

LEMMA JoinSet ==
    ASSUME NEW a, IsSeq(a), NEW b, IsSeq(b)
    PROVE  IsSeq(a \o b) /\ ToSet(a \o b) = ToSet(a) \cup ToSet(b)
<1> DEFINE T == ToSet(a) \cup ToSet(b)
<1>1. a \in Seq(T) /\ b \in Seq(T)
  BY SeqMonotonic DEF IsSeq
<1>2. /\ a \o b \in Seq(T)
      /\ Len(a \o b) = Len(a) + Len(b)
      /\ \A i \in 1 .. Len(a) + Len(b) :
            (a \o b)[i] = IF i <= Len(a) THEN a[i] ELSE b[i - Len(a)]
  BY <1>1, ConcatProperties
<1>3. IsSeq(a \o b) /\ ToSet(a \o b) \subseteq T
  BY <1>2, SubsetSeq
<1>4. /\ Len(a) \in Nat /\ Len(b) \in Nat
      /\ DOMAIN a = 1 .. Len(a) /\ DOMAIN b = 1 .. Len(b)
      /\ DOMAIN (a \o b) = 1 .. Len(a) + Len(b)
  BY <1>2, SeqOfSet, LenProperties
<1>5. ASSUME NEW i \in DOMAIN a
      PROVE  i \in DOMAIN (a \o b) /\ (a \o b)[i] = a[i]
  BY <1>2, <1>4
<1>6. ASSUME NEW i \in DOMAIN b
      PROVE  Len(a) + i \in DOMAIN (a \o b) /\ (a \o b)[Len(a) + i] = b[i]
  BY <1>2, <1>4
<1>7. T \subseteq ToSet(a \o b)
  BY <1>5, <1>6 DEF ToSet
<1> QED
  BY <1>3, <1>7

LEMMA OneSet ==
    ASSUME NEW x
    PROVE  IsSeq(<<x>>) /\ ToSet(<<x>>) = {x}
<1>1. IsSeq(<<x>>) /\ ToSet(<<x>>) \subseteq {x}
  <2>1. <<x>> \in Seq({x})
    OBVIOUS
  <2> QED
    BY <2>1, SubsetSeq
<1>2. x \in ToSet(<<x>>)
  <2>1. 1 \in DOMAIN <<x>> /\ <<x>>[1] = x
    OBVIOUS
  <2> QED
    BY <2>1 DEF ToSet
<1> QED
  BY <1>1, <1>2

LEMMA NoneSet == IsSeq(<<>>) /\ ToSet(<<>>) = {}
<1>1. IsSeq(<<>>) /\ Len(<<>>) = 0
  BY EmptySeq DEF IsSeq
<1>2. \A x \in ToSet(<<>>) : \E i \in 1 .. 0 : TRUE
  BY <1>1, SeqOfSet
<1> QED
  BY <1>1, <1>2

\* The first member and the others.
LEMMA HeadSet ==
    ASSUME NEW s, IsSeq(s), s # <<>>
    PROVE  /\ Head(s) \in ToSet(s)
           /\ IsSeq(Tail(s)) /\ ToSet(s) = {Head(s)} \cup ToSet(Tail(s))
<1> DEFINE n == Len(s)
<1>1. /\ n \in Nat \ {0} /\ DOMAIN s = 1 .. n /\ s \in Seq(ToSet(s))
      /\ Head(s) = s[1]
  BY SeqOfSet, EmptySeq DEF IsSeq
<1>2. /\ Tail(s) \in Seq(ToSet(s)) /\ Len(Tail(s)) = n - 1
      /\ \A i \in 1 .. n - 1 : Tail(s)[i] = s[i + 1]
  BY <1>1, HeadTailProperties
<1>3. DOMAIN Tail(s) = 1 .. n - 1
  BY <1>2, LenProperties
<1>4. IsSeq(Tail(s)) /\ ToSet(Tail(s)) \subseteq ToSet(s)
  BY <1>2, SubsetSeq
<1>5. Head(s) \in ToSet(s)
  BY <1>1 DEF ToSet
<1>6. ASSUME NEW i \in 1 .. n, i # 1
      PROVE  s[i] \in ToSet(Tail(s))
  <2>1. i - 1 \in DOMAIN Tail(s) /\ Tail(s)[i - 1] = s[i]
    BY <1>1, <1>2, <1>3, <1>6
  <2> QED
    BY <2>1 DEF ToSet
<1>7. ASSUME NEW x \in ToSet(s)
      PROVE  x = Head(s) \/ x \in ToSet(Tail(s))
  BY <1>1, <1>6 DEF ToSet
<1> QED
  BY <1>4, <1>5, <1>7

-----------------------------------------------------------------------------
(* The terms of a record and what validate makes of them                   *)

\* The values of a key are those of its terms; a redirect names a domain.
LEMMA TermValues ==
    ASSUME NEW terms, IsSeq(terms), NEW key
    PROVE  /\ IsSeq(Values(terms, key))
           /\ \A v \in ToSet(Values(terms, key)) : \E i \in DOMAIN terms :
                 Positive(terms[i], key) /\ ~terms[i].atom /\ terms[i].val = v
<1> DEFINE S == {i \in DOMAIN terms : Positive(terms[i], key) /\ ~terms[i].atom}
           values == Values(terms, key)
<1>1. Len(terms) \in Nat /\ S \in SUBSET (1 .. Len(terms))
  BY SeqOfSet
<1>2. Cardinality(S) \in Nat /\ \A k \in 1 .. Cardinality(S) : Nth(S, k) \in S
  BY <1>1, PlacesFinite, NthMember
<1>3. values = [k \in 1 .. Cardinality(S) |-> terms[Nth(S, k)].val]
  BY DEF Values, Picked
<1> HIDE DEF values
<1>4. IsSeq(values)
  BY <1>2, <1>3, SetOfSeq
<1>5. \A v \in ToSet(values) : \E i \in S : terms[i].val = v
  BY <1>2, <1>3 DEF ToSet
<1> QED
  BY <1>4, <1>5 DEF values

LEMMA RedirectsTo ==
    ASSUME NEW terms, IsSeq(terms), WellFormed(terms)
    PROVE  /\ Redirect(terms) \in Domains \cup {NoDomain}
           /\ ToSet(Values(terms, "include")) \subseteq Domains
<1> DEFINE S == {i \in DOMAIN terms :
                    terms[i].key = "redirect" /\ terms[i].sign = "" /\ ~terms[i].atom}
<1>1. S \in SUBSET (1 .. Len(terms)) /\ Len(terms) \in Nat
  BY SeqOfSet
<1>2. ASSUME NEW v \in ToSet(Values(terms, "include"))
      PROVE  v \in Domains
  <2>1. PICK i \in DOMAIN terms :
            Positive(terms[i], "include") /\ ~terms[i].atom /\ terms[i].val = v
    BY TermValues
  <2> QED
    BY <2>1 DEF WellFormed, Positive
<1>3. Redirect(terms) = IF S = {} THEN NoDomain ELSE terms[Max(S)].val
  BY DEF Redirect
<1>4. \A i \in S : terms[i].val \in Domains
  BY DEF WellFormed
<1>5. S # {} => Max(S) \in S
  BY <1>1, MaxOfPlaces
<1> HIDE DEF S
<1> QED
  BY <1>2, <1>3, <1>4, <1>5

LEMMA EachSet ==
    ASSUME NEW kind, NEW args, IsSeq(args)
    PROVE  /\ IsSeq(Each(kind, args))
           /\ ToSet(Each(kind, args)) = {Check(kind, v) : v \in ToSet(args)}
<1> DEFINE checks == Each(kind, args)
<1>1. /\ Len(args) \in Nat /\ DOMAIN args = 1 .. Len(args)
      /\ checks = [i \in 1 .. Len(args) |-> Check(kind, args[i])]
  BY SeqOfSet DEF Each
<1>2. IsSeq(checks)
  <2> HIDE DEF checks
  <2> QED
    BY <1>1, SetOfSeq
<1>3. \A x : x \in ToSet(checks) <=> \E i \in DOMAIN args : x = Check(kind, args[i])
  <2> HIDE DEF checks
  <2> QED
    BY <1>1 DEF ToSet
<1>4. \A x : x \in {Check(kind, v) : v \in ToSet(args)} <=>
                 \E i \in DOMAIN args : x = Check(kind, args[i])
  BY DEF ToSet
<1> QED
  BY <1>2, <1>3, <1>4, Zenon

\* A redirect takes the place of everything else.
LEMMA RedirectSet ==
    ASSUME NEW d, NEW terms, Redirect(terms) # NoDomain
    PROVE  /\ IsSeq(Checks(d, terms))
           /\ ToSet(Checks(d, terms)) = {Check("redirect", Redirect(terms))}
BY OneSet DEF Checks

\* Otherwise these are the mechanisms that are tried, and the domains included.
When(b, c) == IF b THEN {c} ELSE {}
Mechanisms(d, terms) ==
    {IF client.v4 THEN Check("ip4", Values(terms, "ip4")) ELSE Check("ip6", Values(terms, "ip6"))}
    \cup When(Alone(terms, "mx"), Check("mx", d))
    \cup When(Alone(terms, "a"), Check("a", d))
    \cup When(Values(terms, "mx") # <<>>, Check("mx", d))
    \cup {Check("a", v) : v \in ToSet(Values(terms, "a"))}
    \cup When(Values(terms, "ptr") # <<>>, Check("ptr", Values(terms, "ptr")))
Includes(terms) == {Check("include", v) : v \in ToSet(Values(terms, "include"))}

LEMMA WhenSet ==
    ASSUME NEW b \in BOOLEAN, NEW c
    PROVE  IsSeq(If(b, <<c>>)) /\ ToSet(If(b, <<c>>)) = When(b, c)
BY OneSet, NoneSet DEF If, When

LEMMA OtherMxSet ==
    ASSUME NEW d, NEW terms, IsSeq(Values(terms, "mx"))
    PROVE  /\ IsSeq(OtherMx(d, terms))
           /\ ToSet(OtherMx(d, terms)) = When(Values(terms, "mx") # <<>>, Check("mx", d))
<1> DEFINE n == Len(Values(terms, "mx"))
           others == OtherMx(d, terms)
<1>1. /\ n \in Nat /\ (n = 0 <=> Values(terms, "mx") = <<>>)
      /\ others = [i \in 1 .. n |-> Check("mx", d)]
  BY SeqOfSet, EmptySeq DEF OtherMx, IsSeq
<1> HIDE DEF others, n
<1>2. IsSeq(others)
  BY <1>1, SetOfSeq
<1>3. \A x : x \in ToSet(others) <=> n # 0 /\ x = Check("mx", d)
  <2>1. \A x : x \in ToSet(others) <=> \E i \in 1 .. n : x = Check("mx", d)
    BY <1>1 DEF ToSet
  <2>2. n # 0 <=> \E i \in 1 .. n : TRUE
    BY <1>1
  <2> QED
    BY <2>1, <2>2
<1>4. \A x : x \in When(Values(terms, "mx") # <<>>, Check("mx", d)) <=> n # 0 /\ x = Check("mx", d)
  BY <1>1 DEF When
<1> QED
  BY <1>2, <1>3, <1>4, Zenon DEF others

LEMMA MechanismSet ==
    ASSUME NEW d, NEW terms, IsSeq(terms), Redirect(terms) = NoDomain
    PROVE  /\ IsSeq(Checks(d, terms))
           /\ ToSet(Checks(d, terms)) = Mechanisms(d, terms) \cup Includes(terms)
<1> DEFINE ip == <<IF client.v4 THEN Check("ip4", Values(terms, "ip4"))
                                ELSE Check("ip6", Values(terms, "ip6"))>>
           mx == If(Alone(terms, "mx"), <<Check("mx", d)>>)
           a == If(Alone(terms, "a"), <<Check("a", d)>>)
           more == OtherMx(d, terms)
           as == Each("a", Values(terms, "a"))
           ptr == If(Values(terms, "ptr") # <<>>, <<Check("ptr", Values(terms, "ptr"))>>)
           incl == Each("include", Values(terms, "include"))
<1>1. /\ IsSeq(ip)
      /\ ToSet(ip) = {IF client.v4 THEN Check("ip4", Values(terms, "ip4"))
                                   ELSE Check("ip6", Values(terms, "ip6"))}
  BY OneSet
<1>2. IsSeq(mx) /\ ToSet(mx) = When(Alone(terms, "mx"), Check("mx", d))
  BY WhenSet DEF Alone
<1>3. IsSeq(a) /\ ToSet(a) = When(Alone(terms, "a"), Check("a", d))
  BY WhenSet DEF Alone
<1>4. IsSeq(more) /\ ToSet(more) = When(Values(terms, "mx") # <<>>, Check("mx", d))
  BY TermValues, OtherMxSet
<1>5. IsSeq(as) /\ ToSet(as) = {Check("a", v) : v \in ToSet(Values(terms, "a"))}
  BY TermValues, EachSet
<1>6. /\ IsSeq(ptr)
      /\ ToSet(ptr) = When(Values(terms, "ptr") # <<>>, Check("ptr", Values(terms, "ptr")))
  BY WhenSet
<1>7. IsSeq(incl) /\ ToSet(incl) = Includes(terms)
  BY TermValues, EachSet DEF Includes
<1>8. Checks(d, terms) = ip \o mx \o a \o more \o as \o ptr \o incl
  BY DEF Checks
<1> HIDE DEF ip, mx, a, more, as, ptr, incl
<1>9. /\ IsSeq(Checks(d, terms))
      /\ ToSet(Checks(d, terms)) = ToSet(ip) \cup ToSet(mx) \cup ToSet(a) \cup ToSet(more)
                                   \cup ToSet(as) \cup ToSet(ptr) \cup ToSet(incl)
  <2>1. IsSeq(ip \o mx) /\ ToSet(ip \o mx) = ToSet(ip) \cup ToSet(mx)
    BY <1>1, <1>2, JoinSet
  <2>2. /\ IsSeq(ip \o mx \o a)
        /\ ToSet(ip \o mx \o a) = ToSet(ip) \cup ToSet(mx) \cup ToSet(a)
    BY <1>3, <2>1, JoinSet
  <2>3. /\ IsSeq(ip \o mx \o a \o more)
        /\ ToSet(ip \o mx \o a \o more) = ToSet(ip) \cup ToSet(mx) \cup ToSet(a) \cup ToSet(more)
    BY <1>4, <2>2, JoinSet
  <2>4. /\ IsSeq(ip \o mx \o a \o more \o as)
        /\ ToSet(ip \o mx \o a \o more \o as)
              = ToSet(ip) \cup ToSet(mx) \cup ToSet(a) \cup ToSet(more) \cup ToSet(as)
    <3> DEFINE four == ip \o mx \o a \o more
    <3>1. IsSeq(four) /\ IsSeq(as)
      BY <1>5, <2>3
    <3> HIDE DEF four
    <3>2. IsSeq(four \o as) /\ ToSet(four \o as) = ToSet(four) \cup ToSet(as)
      BY <3>1, JoinSet, Zenon
    <3> QED
      BY <2>3, <3>2 DEF four
  <2>5. /\ IsSeq(ip \o mx \o a \o more \o as \o ptr)
        /\ ToSet(ip \o mx \o a \o more \o as \o ptr)
              = ToSet(ip) \cup ToSet(mx) \cup ToSet(a) \cup ToSet(more) \cup ToSet(as)
                \cup ToSet(ptr)
    <3> DEFINE five == ip \o mx \o a \o more \o as
    <3>1. IsSeq(five) /\ IsSeq(ptr)
      BY <1>6, <2>4
    <3> HIDE DEF five
    <3>2. IsSeq(five \o ptr) /\ ToSet(five \o ptr) = ToSet(five) \cup ToSet(ptr)
      BY <3>1, JoinSet, Zenon
    <3> QED
      BY <2>4, <3>2 DEF five
  <2>6. /\ IsSeq(ip \o mx \o a \o more \o as \o ptr \o incl)
        /\ ToSet(ip \o mx \o a \o more \o as \o ptr \o incl)
              = ToSet(ip) \cup ToSet(mx) \cup ToSet(a) \cup ToSet(more) \cup ToSet(as)
                \cup ToSet(ptr) \cup ToSet(incl)
    <3> DEFINE six == ip \o mx \o a \o more \o as \o ptr
    <3>1. IsSeq(six) /\ IsSeq(incl)
      BY <1>7, <2>5
    <3> HIDE DEF six
    <3>2. IsSeq(six \o incl) /\ ToSet(six \o incl) = ToSet(six) \cup ToSet(incl)
      BY <3>1, JoinSet, Zenon
    <3> QED
      BY <2>5, <3>2 DEF six
  <2> QED
    BY <1>8, <2>6
<1> QED
  BY <1>1, <1>2, <1>3, <1>4, <1>5, <1>6, <1>7, <1>9, Zenon DEF Mechanisms

-----------------------------------------------------------------------------
(* A domain's policy                                                       *)

Parties == zone \in [Domains -> Txt] /\ client \in Clients /\ query \in Domains
Policy(d) == Checks(d, Terms(d))
Tried == {"ip4", "ip6", "mx", "a", "ptr"}
Asked == {"include", "redirect"}

LEMMA TermsOf ==
    ASSUME Parties, NEW d \in Domains, HasRecord(d)
    PROVE  IsSeq(Terms(d)) /\ WellFormed(Terms(d))
<1>1. zone[d] \in Txt
  BY DEF Parties
<1>2. IsSeq(zone[d]) /\ \A i \in DOMAIN zone[d] : IsSeq(zone[d][i].terms) /\ WellFormed(zone[d][i].terms)
  BY <1>1, SpfConstants
<1>3. Len(zone[d]) \in Nat /\ DOMAIN zone[d] = 1 .. Len(zone[d])
  BY <1>2, SeqOfSet
<1>4. SpfRecords(d) \in SUBSET Nat /\ SpfRecords(d) # {} /\ SpfRecords(d) \subseteq DOMAIN zone[d]
  BY <1>3 DEF SpfRecords, HasRecord
<1>5. Min(SpfRecords(d)) \in DOMAIN zone[d]
  BY <1>4, MinOfNaturals
<1> QED
  BY <1>2, <1>5 DEF Terms

\* A check is a comparison, or it hands the decision to another domain.
LEMMA PolicyChecks ==
    ASSUME Parties, NEW d \in Domains, HasRecord(d)
    PROVE  /\ IsSeq(Policy(d))
           /\ \A c \in ToSet(Policy(d)) :
                 /\ c = Check(c.kind, c.arg)
                 /\ c.kind \in Tried \cup Asked
                 /\ c.kind \in Asked => c.arg \in Refers(d)
                 /\ c.kind = "redirect" => Refers(d) = {c.arg} /\ ~Decides(d)
           /\ Refers(d) \subseteq Domains
           /\ \A e \in Refers(d) : \E kind \in Asked : Check(kind, e) \in ToSet(Policy(d))
<1> DEFINE terms == Terms(d)
<1>1. IsSeq(terms) /\ WellFormed(terms)
  BY TermsOf
<1>2. /\ Redirect(terms) \in Domains \cup {NoDomain}
      /\ ToSet(Values(terms, "include")) \subseteq Domains
  BY <1>1, RedirectsTo
<1>3. CASE Redirect(terms) # NoDomain
  <2>1. /\ IsSeq(Policy(d))
        /\ ToSet(Policy(d)) = {Check("redirect", Redirect(terms))}
    BY <1>3, RedirectSet DEF Policy
  <2>2. Refers(d) = {Redirect(terms)} /\ ~Decides(d)
    BY <1>3 DEF Refers, Decides
  <2> QED
    BY <1>2, <1>3, <2>1, <2>2 DEF Check, Asked
<1>4. CASE Redirect(terms) = NoDomain
  <2>1. /\ IsSeq(Policy(d))
        /\ ToSet(Policy(d)) = Mechanisms(d, terms) \cup Includes(terms)
    BY <1>1, <1>4, MechanismSet DEF Policy
  <2>2. Refers(d) = ToSet(Values(terms, "include"))
    BY <1>4 DEF Refers
  <2>3. ASSUME NEW c \in Mechanisms(d, terms)
        PROVE  c.kind \in Tried /\ c = Check(c.kind, c.arg)
    BY <2>3 DEF Mechanisms, When, Check, Tried
  <2>4. ASSUME NEW c \in Includes(terms)
        PROVE  c.kind = "include" /\ c = Check(c.kind, c.arg) /\ c.arg \in Refers(d)
    BY <2>2, <2>4 DEF Includes, Check
  <2>5. ASSUME NEW e \in Refers(d)
        PROVE  Check("include", e) \in Includes(terms)
    BY <2>2 DEF Includes
  <2>6. Tried \cap Asked = {} /\ "redirect" \notin Tried /\ "redirect" # "include"
        /\ "include" \in Asked
    BY DEF Tried, Asked
  <2> QED
    BY <1>2, <2>1, <2>2, <2>3, <2>4, <2>5, <2>6
<1> QED
  BY <1>3, <1>4

\* A mechanism that matches is one by which the policy names the client, or a term of
\* it is misread.
LEMMA MatchIsNamed ==
    ASSUME ComparesExactly, Parties, NEW d \in Domains, HasRecord(d),
           NEW c \in ToSet(Policy(d)), c.kind \in Tried, Matches(c)
    PROVE  Decides(d) /\ (Named(d) \/ Misread(d))
<1> DEFINE terms == Terms(d)
<1>1. IsSeq(terms) /\ WellFormed(terms)
  BY TermsOf
<1>2. Tried \cap Asked = {}
  BY DEF Tried, Asked
<1>3. Redirect(terms) = NoDomain
  <2>1. SUFFICES ASSUME Redirect(terms) # NoDomain PROVE FALSE
    OBVIOUS
  <2>2. c.kind = "redirect"
    BY <2>1, RedirectSet DEF Policy, Check
  <2> QED
    BY <1>2, <2>2 DEF Asked
<1>4. c \in Mechanisms(d, terms)
  <2>1. ToSet(Policy(d)) = Mechanisms(d, terms) \cup Includes(terms)
    BY <1>1, <1>3, MechanismSet DEF Policy
  <2>2. c \notin Includes(terms)
    BY <1>2 DEF Includes, Check, Asked
  <2> QED
    BY <2>1, <2>2
<1>5. Decides(d)
  BY <1>3 DEF Decides
<1>6. /\ client.v4 \in BOOLEAN
      /\ client.v4 => client.addr \in V4
      /\ ~client.v4 => client.addr \in V6
  BY SpfConstants DEF Parties
<1>7. CASE c \in {IF client.v4 THEN Check("ip4", Values(terms, "ip4"))
                               ELSE Check("ip6", Values(terms, "ip6"))}
  <2>1. CASE client.v4
    <3>0. c.kind = "ip4" /\ c.arg = Values(terms, "ip4")
      BY <1>7, <2>1 DEF Check
    <3>1. PICK n \in ToSet(Values(terms, "ip4")) : n # IllFormed /\ Compare4(client.addr, n)
      BY <3>0 DEF Matches
    <3>2. PICK i \in DOMAIN terms :
             Positive(terms[i], "ip4") /\ ~terms[i].atom /\ terms[i].val = n
      BY <1>1, TermValues
    <3>3. n \in Nets4
      BY <1>1, <3>1, <3>2 DEF WellFormed, Positive
    <3>4. CASE n.mask \notin ExactMasks4
      BY <1>5, <2>1, <3>4 DEF Misread, Names
    <3>5. CASE n.mask \in ExactMasks4
      <4>1. n \in [addr : V4, mask : ExactMasks4]
        BY <3>3, <3>5 DEF Nets4
      <4>2. InNet4(client.addr, n)
        BY <1>6, <2>1, <3>1, <4>1 DEF ComparesExactly
      <4> QED
        BY <1>5, <2>1, <3>1, <4>2 DEF Named, Names
    <3> QED
      BY <3>4, <3>5
  <2>2. CASE ~client.v4
    <3>0. c.kind = "ip6" /\ c.arg = Values(terms, "ip6")
      BY <1>7, <2>2 DEF Check
    <3>1. PICK n \in ToSet(Values(terms, "ip6")) : n # IllFormed /\ Compare6(client.addr, n)
      BY <3>0 DEF Matches
    <3>2. PICK i \in DOMAIN terms :
             Positive(terms[i], "ip6") /\ ~terms[i].atom /\ terms[i].val = n
      BY <1>1, TermValues
    <3>3. n \in Nets6
      BY <1>1, <3>1, <3>2 DEF WellFormed, Positive
    <3>4. CASE n.mask \notin ExactMasks6
      BY <1>5, <2>2, <3>4 DEF Misread, Names
    <3>5. CASE n.mask \in ExactMasks6
      <4>1. n \in [addr : V6, mask : ExactMasks6]
        BY <3>3, <3>5 DEF Nets6
      <4>2. InNet6(client.addr, n)
        BY <1>6, <2>2, <3>1, <4>1 DEF ComparesExactly
      <4> QED
        BY <1>5, <2>2, <3>1, <4>2 DEF Named, Listed, Names
    <3> QED
      BY <3>4, <3>5
  <2> QED
    BY <2>1, <2>2
<1>8. CASE c = Check("mx", d) /\ Alone(terms, "mx")
  <2>1. ValidateMX(d)
    BY <1>8 DEF Matches, Check
  <2>2. PICK i \in DOMAIN Mx[d] : HostMatches(Mx[d][i])
    BY <2>1 DEF ValidateMX
  <2> DEFINE h == Mx[d][i]
  <2>3. h \in ToSet(Mx[d])
    BY DEF ToSet
  <2>4. CASE h.literal
    BY <1>5, <1>8, <2>2, <2>3, <2>4 DEF HostMatches, IsHostOf, Named
  <2>5. CASE ~h.literal
    <3>1. /\ client.v4 /\ Addresses[h.at] # <<>>
          /\ Head(Addresses[h.at]) = client.addr
      BY <2>2, <2>5 DEF HostMatches, HostStops
    <3>2. Addresses[h.at] \in Seq(V4)
      BY <2>3, <2>5, SpfConstants
    <3>3. Head(Addresses[h.at]) \in ToSet(Addresses[h.at])
      BY <3>1, <3>2, SubsetSeq, HeadSet
    <3>4. IsHostOf(d)
      BY <2>3, <2>5, <3>1, <3>3 DEF IsHostOf
    <3> QED
      BY <1>5, <1>8, <3>4 DEF Named
  <2> QED
    BY <2>4, <2>5
<1>12. CASE Values(terms, "mx") # <<>>
  BY <1>5, <1>12 DEF Misread
<1>9. CASE c = Check("a", d) /\ Alone(terms, "a")
  <2>1. client.v4 /\ client.addr \in ToSet(Addresses[d])
    BY <1>9 DEF Matches, Check, ValidateA
  <2> QED
    BY <1>5, <1>9, <2>1 DEF Listed, Named
<1>10. CASE c \in {Check("a", v) : v \in ToSet(Values(terms, "a"))}
  <2>1. PICK v \in ToSet(Values(terms, "a")) : c = Check("a", v)
    BY <1>10
  <2>2. client.v4 /\ client.addr \in ToSet(Addresses[v])
    BY <2>1 DEF Matches, Check, ValidateA
  <2> QED
    BY <1>5, <2>2 DEF Listed, Named, Names
<1>11. CASE c = Check("ptr", Values(terms, "ptr"))
  <2>1. \E x \in ToSet(Values(terms, "ptr")) : x \in Reversed[client.addr]
    BY <1>11 DEF Matches, Check, ValidatePTR
  <2> QED
    BY <1>5, <2>1 DEF Named, Names
<1> QED
  BY <1>4, <1>7, <1>8, <1>9, <1>10, <1>11, <1>12 DEF Mechanisms, When

\* And one that names the client by address has a mechanism that matches.
LEMMA ListedIsTried ==
    ASSUME ComparesExactly, Parties, NEW d \in Domains, Decides(d), Listed(d)
    PROVE  \E c \in ToSet(Policy(d)) : c.kind \in Tried /\ Matches(c)
<1> DEFINE terms == Terms(d)
<1>1. HasRecord(d) /\ Redirect(terms) = NoDomain
  BY DEF Decides
<1>2. IsSeq(terms) /\ WellFormed(terms)
  BY <1>1, TermsOf
<1>3. Mechanisms(d, terms) \subseteq ToSet(Policy(d))
  BY <1>1, <1>2, MechanismSet DEF Policy
<1>4. /\ client.v4 \in BOOLEAN
      /\ client.v4 => client.addr \in V4
      /\ ~client.v4 => client.addr \in V6
  BY SpfConstants DEF Parties
<1>5. CASE client.v4 /\ Names(d, "ip4", LAMBDA n :
               n # IllFormed /\ n.mask \in ExactMasks4 /\ InNet4(client.addr, n))
  <2>1. PICK n \in ToSet(Values(terms, "ip4")) :
            n # IllFormed /\ n.mask \in ExactMasks4 /\ InNet4(client.addr, n)
    BY <1>5 DEF Names
  <2>2. PICK i \in DOMAIN terms :
           Positive(terms[i], "ip4") /\ ~terms[i].atom /\ terms[i].val = n
    BY <1>2, TermValues
  <2>3. n \in [addr : V4, mask : ExactMasks4]
    BY <1>2, <2>1, <2>2 DEF WellFormed, Positive, Nets4
  <2>4. Compare4(client.addr, n)
    BY <1>4, <1>5, <2>1, <2>3 DEF ComparesExactly
  <2> DEFINE c == Check("ip4", Values(terms, "ip4"))
  <2>5. c \in Mechanisms(d, terms)
    BY <1>5 DEF Mechanisms
  <2>6. Matches(c) /\ c.kind \in Tried
    BY <2>1, <2>4 DEF Matches, Check, Tried
  <2> QED
    BY <1>3, <2>5, <2>6
<1>6. CASE ~client.v4 /\ Names(d, "ip6", LAMBDA n : n # IllFormed /\ InNet6(client.addr, n))
  <2>1. PICK n \in ToSet(Values(terms, "ip6")) : n # IllFormed /\ InNet6(client.addr, n)
    BY <1>6 DEF Names
  <2>2. PICK i \in DOMAIN terms :
           Positive(terms[i], "ip6") /\ ~terms[i].atom /\ terms[i].val = n
    BY <1>2, TermValues
  <2>3. n \in [addr : V6, mask : ExactMasks6]
    BY <1>2, <2>1, <2>2 DEF WellFormed, Positive, Nets6, InNet6, InNet, ExactMasks6
  <2>4. Compare6(client.addr, n)
    BY <1>4, <1>6, <2>1, <2>3 DEF ComparesExactly
  <2> DEFINE c == Check("ip6", Values(terms, "ip6"))
  <2>5. c \in Mechanisms(d, terms)
    BY <1>6 DEF Mechanisms
  <2>6. Matches(c) /\ c.kind \in Tried
    BY <2>1, <2>4 DEF Matches, Check, Tried
  <2> QED
    BY <1>3, <2>5, <2>6
<1>7. CASE client.v4 /\ Alone(terms, "a") /\ client.addr \in ToSet(Addresses[d])
  <2> DEFINE c == Check("a", d)
  <2>1. c \in Mechanisms(d, terms)
    BY <1>7 DEF Mechanisms, When
  <2>2. Matches(c) /\ c.kind \in Tried
    BY <1>7 DEF Matches, Check, Tried, ValidateA
  <2> QED
    BY <1>3, <2>1, <2>2
<1>8. CASE client.v4 /\ Names(d, "a", LAMBDA x : client.addr \in ToSet(Addresses[x]))
  <2>1. PICK x \in ToSet(Values(terms, "a")) : client.addr \in ToSet(Addresses[x])
    BY <1>8 DEF Names
  <2> DEFINE c == Check("a", x)
  <2>2. c \in Mechanisms(d, terms)
    BY DEF Mechanisms
  <2>3. Matches(c) /\ c.kind \in Tried
    BY <1>8, <2>1 DEF Matches, Check, Tried, ValidateA
  <2> QED
    BY <1>3, <2>2, <2>3
<1> QED
  BY <1>5, <1>6, <1>7, <1>8 DEF Listed

-----------------------------------------------------------------------------
(* The calls of validate in progress                                       *)

Vias == {"query", "include", "redirect"}
IsCall(f) ==
    /\ f \in [via : Vias, domain : Domains, fetched : BOOLEAN, todo : {f.todo}]
    /\ IsSeq(f.todo)
    /\ f.fetched => HasRecord(f.domain) /\ ToSet(f.todo) \subseteq ToSet(Policy(f.domain))
\* One call was made for a check of the other's domain.
Calls(f, g) == f.fetched /\ Check(g.via, g.domain) \in ToSet(Policy(f.domain))

Chain(s) ==
    /\ IsSeq(s)
    /\ \A i \in DOMAIN s : IsCall(s[i])
    /\ \A i \in DOMAIN s : i = 1 => s[i].domain = query
    /\ \A i \in DOMAIN s : i # 1 => Calls(s[i - 1], s[i])

\* What the look-ups rest on does not change.
LEMMA Static ==
    ASSUME UNCHANGED <<zone, client, query>>
    PROVE  /\ \A d : HasRecord(d)' <=> HasRecord(d)
           /\ \A d : Policy(d)' = Policy(d)
           /\ \A d : Refers(d)' = Refers(d)
           /\ \A d : Decides(d)' <=> Decides(d)
           /\ \A d : Listed(d)' <=> Listed(d)
           /\ \A d : (Named(d) \/ Misread(d))' <=> (Named(d) \/ Misread(d))
           /\ \A c : Matches(c)' <=> Matches(c)
<1>1. \A d : SpfRecords(d)' = SpfRecords(d)
  BY DEF SpfRecords
<1>2. \A d : HasRecord(d)' <=> HasRecord(d)
  BY <1>1 DEF HasRecord
<1>3. \A d : Terms(d)' = Terms(d)
  BY <1>1 DEF Terms
<1>4. \A d : Policy(d)' = Policy(d)
  BY <1>3 DEF Policy, Checks
<1>5. \A d : Refers(d)' = Refers(d)
  BY <1>2, <1>3 DEF Refers
<1>6. \A d : Decides(d)' <=> Decides(d)
  BY <1>2, <1>3 DEF Decides
<1>7. \A d : Listed(d)' <=> Listed(d)
  BY <1>3 DEF Listed, Names
<1>8. \A d : (Named(d) \/ Misread(d))' <=> (Named(d) \/ Misread(d))
  <2>1. \A d : IsHostOf(d)' <=> IsHostOf(d)
    BY DEF IsHostOf
  <2>2. \A d : Named(d)' <=> Named(d)
    BY <1>3, <1>7, <2>1 DEF Named, Names
  <2>3. \A d : Misread(d)' <=> Misread(d)
    BY <1>3 DEF Misread, Names
  <2> QED
    BY <2>2, <2>3
<1>9. \A c : Matches(c)' <=> Matches(c)
  BY DEF Matches, ValidateMX, ValidateA, ValidatePTR, HostMatches, HostStops
<1> QED
  BY <1>2, <1>4, <1>5, <1>6, <1>7, <1>8, <1>9

LEMMA StaticChain ==
    ASSUME UNCHANGED <<zone, client, query>>, NEW s
    PROVE  Chain(s)' <=> Chain(s)
<1>1. /\ \A d : HasRecord(d)' <=> HasRecord(d)
      /\ \A d : Policy(d)' = Policy(d)
  BY Static
<1>2. \A f : IsCall(f)' <=> IsCall(f)
  BY <1>1 DEF IsCall
<1>3. \A f, g : Calls(f, g)' <=> Calls(f, g)
  BY <1>1 DEF Calls
<1> QED
  BY <1>2, <1>3 DEF Chain

\* What the steps do with the sequence of calls.
LEMMA TopOf ==
    ASSUME NEW s, IsSeq(s), s # <<>>
    PROVE  /\ Len(s) \in Nat \ {0} /\ DOMAIN s = 1 .. Len(s)
           /\ Last(s) = s[Len(s)] /\ Len(s) \in DOMAIN s
<1>1. Len(s) \in Nat \ {0} /\ DOMAIN s = 1 .. Len(s)
  BY SeqOfSet, EmptySeq DEF IsSeq
<1> QED
  BY <1>1 DEF Last

LEMMA CutTo ==
    ASSUME NEW s, IsSeq(s), NEW n \in Nat, n <= Len(s)
    PROVE  /\ IsSeq(SubSeq(s, 1, n))
           /\ Len(SubSeq(s, 1, n)) = n /\ DOMAIN SubSeq(s, 1, n) = 1 .. n
           /\ \A i \in 1 .. n : i \in DOMAIN s /\ SubSeq(s, 1, n)[i] = s[i]
<1>1. Len(s) \in Nat /\ DOMAIN s = 1 .. Len(s) /\ s \in Seq(ToSet(s))
  BY SeqOfSet DEF IsSeq
<1>2. /\ SubSeq(s, 1, n) \in Seq(ToSet(s))
      /\ Len(SubSeq(s, 1, n)) = IF 1 <= n THEN n - 1 + 1 ELSE 0
      /\ \A i \in 1 .. n - 1 + 1 : SubSeq(s, 1, n)[i] = s[1 + i - 1]
  BY <1>1, SubSeqProperties
<1>3. IsSeq(SubSeq(s, 1, n))
  BY <1>2, SubsetSeq
<1>4. Len(SubSeq(s, 1, n)) = n
  BY <1>2
<1>5. DOMAIN SubSeq(s, 1, n) = 1 .. n
  BY <1>3, <1>4, SeqOfSet
<1> QED
  BY <1>1, <1>2, <1>3, <1>4, <1>5

LEMMA Added ==
    ASSUME NEW s, IsSeq(s), NEW f
    PROVE  /\ IsSeq(Append(s, f))
           /\ Len(Append(s, f)) = Len(s) + 1 /\ DOMAIN Append(s, f) = 1 .. Len(s) + 1
           /\ Append(s, f)[Len(s) + 1] = f
           /\ \A i \in 1 .. Len(s) : Append(s, f)[i] = s[i]
           /\ Len(s) \in Nat
<1> DEFINE T == ToSet(s) \cup {f}
<1>1. s \in Seq(T) /\ f \in T
  BY SeqMonotonic DEF IsSeq
<1>2. /\ Append(s, f) \in Seq(T)
      /\ Len(Append(s, f)) = Len(s) + 1
      /\ \A i \in 1 .. Len(s) : Append(s, f)[i] = s[i]
      /\ Append(s, f)[Len(s) + 1] = f
  BY <1>1, AppendProperties
<1>3. IsSeq(Append(s, f))
  BY <1>2, SubsetSeq
<1>4. DOMAIN Append(s, f) = 1 .. Len(s) + 1
  BY <1>2, <1>3, SeqOfSet
<1> QED
  BY <1>2, <1>3, <1>4, SeqOfSet

LEMMA Replaced ==
    ASSUME NEW s, IsSeq(s), s # <<>>, NEW f
    PROVE  /\ IsSeq(Append(Front(s), f))
           /\ Len(Append(Front(s), f)) = Len(s) /\ DOMAIN Append(Front(s), f) = 1 .. Len(s)
           /\ Append(Front(s), f)[Len(s)] = f
           /\ \A i \in 1 .. Len(s) - 1 : Append(Front(s), f)[i] = s[i]
<1>1. Len(s) \in Nat \ {0}
  BY TopOf
<1>2. /\ IsSeq(Front(s)) /\ Len(Front(s)) = Len(s) - 1
      /\ \A i \in 1 .. Len(s) - 1 : Front(s)[i] = s[i]
  <2>1. Len(s) - 1 \in Nat /\ Len(s) - 1 <= Len(s)
    BY <1>1
  <2> QED
    BY <2>1, CutTo DEF Front
<1>3. Len(s) - 1 + 1 = Len(s)
  BY <1>1
<1> QED
  BY <1>2, <1>3, Added

LEMMA ChainCut ==
    ASSUME NEW s, Chain(s), NEW n \in Nat, n <= Len(s)
    PROVE  Chain(SubSeq(s, 1, n))
<1> DEFINE t == SubSeq(s, 1, n)
<1>1. IsSeq(s)
  BY DEF Chain
<1>2. IsSeq(t) /\ DOMAIN t = 1 .. n /\ \A i \in 1 .. n : i \in DOMAIN s /\ t[i] = s[i]
  BY <1>1, CutTo
<1> HIDE DEF t
<1>3. \A i \in 1 .. n : IsCall(t[i])
  BY <1>2 DEF Chain
<1>4. \A i \in 1 .. n : i = 1 => t[i].domain = query
  BY <1>2 DEF Chain
<1>5. ASSUME NEW i \in 1 .. n, i # 1
      PROVE  Calls(t[i - 1], t[i])
  <2>1. i - 1 \in 1 .. n
    BY <1>5
  <2>2. Calls(s[i - 1], s[i])
    BY <1>2, <1>5 DEF Chain
  <2> QED
    BY <1>2, <2>1, <2>2
<1> QED
  BY <1>2, <1>3, <1>4, <1>5, Zenon DEF Chain, t

\* The top makes progress on the same call.
LEMMA ChainReplaced ==
    ASSUME NEW s, Chain(s), s # <<>>, NEW f, IsCall(f),
           f.via = Last(s).via, f.domain = Last(s).domain
    PROVE  Chain(Append(Front(s), f))
<1> DEFINE t == Append(Front(s), f)
           n == Len(s)
<1>1. IsSeq(s)
  BY DEF Chain
<1>2. n \in Nat \ {0} /\ DOMAIN s = 1 .. n /\ Last(s) = s[n] /\ n \in DOMAIN s
  BY <1>1, TopOf
<1>3. /\ IsSeq(t) /\ DOMAIN t = 1 .. n /\ t[n] = f
      /\ \A i \in 1 .. n - 1 : t[i] = s[i]
  BY <1>1, Replaced
<1> HIDE DEF t, n
<1>4. \A i \in 1 .. n : i = n \/ i \in 1 .. n - 1
  BY <1>2
<1>5. \A i \in 1 .. n : i # 1 => i - 1 \in 1 .. n - 1
  BY <1>2
<1>6. \A i \in 1 .. n : t[i].via = s[i].via /\ t[i].domain = s[i].domain
  BY <1>2, <1>3, <1>4
<1>7. \A i \in 1 .. n : IsCall(t[i])
  BY <1>2, <1>3, <1>4 DEF Chain
<1>8. ASSUME NEW i \in 1 .. n, i # 1
      PROVE  Calls(t[i - 1], t[i])
  <2>1. Calls(s[i - 1], s[i])
    BY <1>2, <1>8 DEF Chain
  <2>2. t[i - 1] = s[i - 1]
    BY <1>3, <1>5, <1>8
  <2> QED
    BY <1>6, <2>1, <2>2 DEF Calls
<1>9. \A i \in 1 .. n : i = 1 => t[i].domain = query
  BY <1>2, <1>6 DEF Chain
<1> QED
  BY <1>3, <1>7, <1>8, <1>9, Zenon DEF Chain, t

LEMMA ChainAdded ==
    ASSUME NEW s, Chain(s), s # <<>>, NEW g, IsCall(g), Calls(Last(s), g)
    PROVE  Chain(Append(s, g))
<1> DEFINE t == Append(s, g)
           n == Len(s)
<1>1. IsSeq(s)
  BY DEF Chain
<1>2. n \in Nat \ {0} /\ DOMAIN s = 1 .. n /\ Last(s) = s[n]
  BY <1>1, TopOf
<1>3. /\ IsSeq(t) /\ DOMAIN t = 1 .. n + 1 /\ t[n + 1] = g
      /\ \A i \in 1 .. n : t[i] = s[i]
  BY <1>1, Added
<1> HIDE DEF t, n
<1>4. \A i \in 1 .. n + 1 : i = n + 1 \/ i \in 1 .. n
  BY <1>2
<1>5. \A i \in 1 .. n + 1 : IsCall(t[i])
  BY <1>2, <1>3, <1>4 DEF Chain
<1>6. 1 # n + 1 /\ t[1].domain = query
  <2>1. 1 \in 1 .. n /\ 1 # n + 1
    BY <1>2
  <2> QED
    BY <1>2, <1>3, <2>1 DEF Chain
<1>7. ASSUME NEW i \in 1 .. n + 1, i # 1
      PROVE  Calls(t[i - 1], t[i])
  <2>1. CASE i \in 1 .. n
    <3>1. i - 1 \in 1 .. n
      BY <1>2, <1>7, <2>1
    <3>2. Calls(s[i - 1], s[i])
      BY <1>2, <1>7, <2>1 DEF Chain
    <3> QED
      BY <1>3, <2>1, <3>1, <3>2
  <2>2. CASE i = n + 1
    <3>1. i - 1 = n /\ n \in 1 .. n
      BY <1>2, <2>2
    <3> QED
      BY <1>2, <1>3, <2>2, <3>1
  <2> QED
    BY <1>4, <2>1, <2>2
<1> QED
  BY <1>3, <1>5, <1>6, <1>7, Zenon DEF Chain, t

-----------------------------------------------------------------------------
(* What a step makes of the call at the top                                *)

LEMMA FetchedCall ==
    ASSUME Parties, NEW f, IsCall(f), HasRecord(f.domain)
    PROVE  LET g == [f EXCEPT !.fetched = TRUE, !.todo = Policy(f.domain)]
           IN  /\ IsCall(g) /\ g.via = f.via /\ g.domain = f.domain
               /\ g.fetched /\ g.todo = Policy(f.domain)
<1> DEFINE g == [f EXCEPT !.fetched = TRUE, !.todo = Policy(f.domain)]
<1>1. f \in [via : Vias, domain : Domains, fetched : BOOLEAN, todo : {f.todo}]
  BY DEF IsCall
<1>2. IsSeq(Policy(f.domain))
  BY <1>1, PolicyChecks
<1>3. /\ g \in [via : Vias, domain : Domains, fetched : BOOLEAN, todo : {Policy(f.domain)}]
      /\ g.via = f.via /\ g.domain = f.domain /\ g.fetched = TRUE /\ g.todo = Policy(f.domain)
  BY <1>1
<1> HIDE DEF g
<1> QED
  BY <1>2, <1>3 DEF IsCall, g

LEMMA TriedCall ==
    ASSUME NEW f, IsCall(f), f.fetched, f.todo # <<>>
    PROVE  LET g == [f EXCEPT !.todo = Tail(@)]
           IN  /\ IsCall(g) /\ g.via = f.via /\ g.domain = f.domain
               /\ g.fetched /\ g.todo = Tail(f.todo)
               /\ Head(f.todo) \in ToSet(Policy(f.domain))
<1> DEFINE g == [f EXCEPT !.todo = Tail(@)]
<1>1. /\ f \in [via : Vias, domain : Domains, fetched : BOOLEAN, todo : {f.todo}]
      /\ IsSeq(f.todo) /\ HasRecord(f.domain)
      /\ ToSet(f.todo) \subseteq ToSet(Policy(f.domain))
  BY DEF IsCall
<1>2. /\ IsSeq(Tail(f.todo)) /\ ToSet(Tail(f.todo)) \subseteq ToSet(Policy(f.domain))
      /\ Head(f.todo) \in ToSet(Policy(f.domain))
  BY <1>1, HeadSet
<1>3. /\ g \in [via : Vias, domain : Domains, fetched : BOOLEAN, todo : {Tail(f.todo)}]
      /\ g.via = f.via /\ g.domain = f.domain /\ g.fetched = TRUE /\ g.todo = Tail(f.todo)
  BY <1>1
<1> HIDE DEF g
<1> QED
  BY <1>1, <1>2, <1>3 DEF IsCall, g

LEMMA NewCall ==
    ASSUME Parties, NEW f, IsCall(f), f.fetched, f.todo # <<>>, Head(f.todo).kind \in Asked
    PROVE  LET c == Head(f.todo)
               g == Call(c.kind, c.arg)
           IN  IsCall(g) /\ Calls(f, g) /\ Check(g.via, g.domain) = c /\ ~g.fetched
<1> DEFINE c == Head(f.todo)
           g == Call(c.kind, c.arg)
<1>1. f.domain \in Domains /\ HasRecord(f.domain)
  BY DEF IsCall
<1>2. c \in ToSet(Policy(f.domain))
  BY TriedCall
<1> HIDE DEF c
<1>3. c = Check(c.kind, c.arg) /\ c.arg \in Domains
  BY <1>1, <1>2, PolicyChecks DEF c
<1>4. g.via = c.kind /\ g.domain = c.arg /\ g.fetched = FALSE /\ g.todo = <<>>
  BY DEF Call
<1>5. IsCall(g)
  <2>1. c.kind \in Vias
    BY DEF Vias, Asked, c
  <2> QED
    BY <1>3, <1>4, <2>1, NoneSet DEF IsCall, Call
<1> HIDE DEF g
<1> QED
  BY <1>2, <1>3, <1>4, <1>5 DEF Calls, c, g

\* The call that catches what is thrown: the last include, or the first of all.
Catcher(s) ==
    LET tried == {i \in DOMAIN s : s[i].via = "include"}
    IN  IF tried = {} THEN 1 ELSE CHOOSE i \in tried : \A j \in tried : j <= i

LEMMA CatcherIs ==
    ASSUME NEW s, IsSeq(s), s # <<>>
    PROVE  /\ Catcher(s) \in 1 .. Len(s)
           /\ \A j \in DOMAIN s : j > Catcher(s) => s[j].via # "include"
<1> DEFINE tried == {i \in DOMAIN s : s[i].via = "include"}
           k == Catcher(s)
<1>1. Len(s) \in Nat \ {0} /\ DOMAIN s = 1 .. Len(s) /\ tried \in SUBSET (1 .. Len(s))
  BY TopOf
<1>2. CASE tried = {}
  <2>1. k = 1
    BY <1>2 DEF Catcher
  <2> QED
    BY <1>1, <1>2, <2>1
<1>3. CASE tried # {}
  <2>1. Max(tried) \in tried /\ \A j \in tried : j <= Max(tried)
    BY <1>1, <1>3, MaxOfPlaces
  <2>2. k = CHOOSE i \in tried : \A j \in tried : j <= i
    BY <1>3 DEF Catcher
  <2> HIDE DEF k
  <2>3. k \in tried /\ \A j \in tried : j <= k
    BY <2>1, <2>2
  <2> QED
    BY <1>1, <2>3 DEF k
<1> QED
  BY <1>2, <1>3

LEMMA ThrowsCuts ==
    ASSUME Throws
    PROVE  /\ stack' = SubSeq(stack, 1, Catcher(stack) - 1)
           /\ spf' = IF Catcher(stack) = 1 THEN "failure" ELSE spf
BY DEF Throws, Catcher

-----------------------------------------------------------------------------
(* The depth of the recursion                                              *)

\* As many calls as fit on the stack, and the last is about to make one more.
Full == /\ Len(stack) = MaxDepth /\ stack # <<>> /\ Top.fetched
        /\ Top.todo # <<>> /\ Head(Top.todo).kind \in Asked

ShapeInv ==
    /\ Parties
    /\ Chain(stack)
    /\ Len(stack) <= MaxDepth
    /\ run = "died" => Full

LEMMA ShapeInit == CheckInit => ShapeInv
<1> SUFFICES ASSUME CheckInit PROVE ShapeInv
  OBVIOUS
<1>1. Parties /\ stack = <<>> /\ run = "begin"
  BY DEF CheckInit, SpfInit, Parties
<1>2. IsSeq(<<>>) /\ Len(<<>>) = 0 /\ DOMAIN <<>> = {}
  BY NoneSet, EmptySeq
<1>3. Chain(<<>>)
  BY <1>2 DEF Chain
<1>4. 0 <= MaxDepth
  BY SpfConstants
<1> QED
  BY <1>1, <1>2, <1>3, <1>4 DEF ShapeInv

\* The first call.
LEMMA FirstCall ==
    ASSUME Parties
    PROVE  /\ Chain(<<Call("query", query)>>) /\ Len(<<Call("query", query)>>) = 1
           /\ <<Call("query", query)>>[1] = Call("query", query)
           /\ DOMAIN <<Call("query", query)>> = {1}
           /\ 1 <= MaxDepth
<1> DEFINE f == Call("query", query)
<1>1. IsCall(f) /\ f.domain = query
  BY NoneSet DEF IsCall, Call, Vias, Parties
<1> HIDE DEF f
<1>2. IsSeq(<<f>>) /\ Len(<<f>>) = 1 /\ DOMAIN <<f>> = {1} /\ <<f>>[1] = f
  BY OneSet
<1>3. Chain(<<f>>)
  BY <1>1, <1>2 DEF Chain
<1>4. 1 <= MaxDepth
  BY SpfConstants
<1> QED
  BY <1>2, <1>3, <1>4 DEF f

LEMMA ShapeStep ==
    ASSUME ShapeInv, SpfStep
    PROVE  ShapeInv'
<1> USE DEF ShapeInv
<1>1. UNCHANGED <<zone, client, query>>
  BY DEF SpfStep, Fetch, FetchFails, Try, TryFails, CallAgain, StackOverflow, Nothing
<1>2. Parties'
  BY <1>1 DEF Parties
<1>3. SUFFICES /\ Chain(stack') /\ Len(stack') <= MaxDepth
               /\ run' = "died" => Full'
  BY <1>1, <1>2, StaticChain
<1>4. IsSeq(stack) /\ Len(stack) \in Nat /\ MaxDepth \in Nat
  BY SeqOfSet, SpfConstants DEF Chain
<1>5. CASE StackOverflow
  BY <1>5 DEF StackOverflow, Full, Top, At, Running, Asked
<1>6. ASSUME ~StackOverflow
      PROVE  run' = run /\ run = "spf" /\ stack # <<>>
  BY <1>6 DEF SpfStep, Fetch, FetchFails, Try, TryFails, CallAgain, Nothing, At, Running
<1>7. CASE stack # <<>> /\ run' = "spf"
  <2>1. /\ Len(stack) \in Nat \ {0} /\ Top = stack[Len(stack)] /\ Len(stack) \in DOMAIN stack
        /\ Top = Last(stack)
    BY <1>4, <1>7, TopOf DEF Top
  <2>2. IsCall(Top)
    BY <2>1 DEF Chain
  <2>3. ASSUME NEW f, IsCall(f), f.via = Top.via, f.domain = Top.domain
        PROVE  /\ Chain(WithTop(f)) /\ Len(WithTop(f)) = Len(stack)
               /\ Last(WithTop(f)) = f /\ WithTop(f) # <<>>
    <3>1. Chain(WithTop(f))
      BY <1>7, <2>1, <2>3, ChainReplaced DEF WithTop
    <3>2. Len(WithTop(f)) = Len(stack) /\ WithTop(f)[Len(stack)] = f
      BY <1>4, <1>7, Replaced DEF WithTop
    <3> HIDE DEF ShapeInv
    <3>3. WithTop(f) # <<>>
      BY <2>1, <3>2, EmptySeq
    <3> QED
      BY <3>1, <3>2, <3>3 DEF Last
  <2>4. ASSUME NEW n \in Nat, n <= Len(stack), stack' = SubSeq(stack, 1, n)
        PROVE  Chain(stack') /\ Len(stack') <= MaxDepth
    <3>1. Chain(SubSeq(stack, 1, n))
      BY <2>4, ChainCut
    <3>2. Len(SubSeq(stack, 1, n)) = n
      BY <1>4, <2>4, CutTo
    <3> QED
      BY <1>4, <2>4, <3>1, <3>2
  <2>5. ASSUME Throws
        PROVE  Chain(stack') /\ Len(stack') <= MaxDepth
    <3>1. stack' = SubSeq(stack, 1, Catcher(stack) - 1)
      BY <2>5, ThrowsCuts
    <3>2. Catcher(stack) \in 1 .. Len(stack)
      BY <1>4, <1>7, CatcherIs
    <3>3. Catcher(stack) - 1 \in Nat /\ Catcher(stack) - 1 <= Len(stack)
      BY <1>4, <3>2
    <3> QED
      BY <2>4, <3>1, <3>3
  <2>6. CASE Fetch
    <3>1. CASE HasRecord(Top.domain)
      <4> DEFINE f == [Top EXCEPT !.fetched = TRUE, !.todo = Policy(Top.domain)]
      <4>1. stack' = WithTop(f)
        BY <2>6, <3>1 DEF Fetch, Policy
      <4>2. IsCall(f) /\ f.via = Top.via /\ f.domain = Top.domain
        BY <2>2, <3>1, FetchedCall
      <4> HIDE DEF f
      <4> QED
        BY <1>7, <2>3, <4>1, <4>2
    <3>2. CASE ~HasRecord(Top.domain)
      BY <1>7, <2>5, <2>6, <3>2 DEF Fetch
    <3> QED
      BY <3>1, <3>2
  <2>7. CASE FetchFails
    BY <1>7, <2>5, <2>7 DEF FetchFails
  <2>8. ASSUME stack' = WithTop([Top EXCEPT !.todo = Tail(@)]), Top.fetched, Top.todo # <<>>
        PROVE  Chain(stack') /\ Len(stack') <= MaxDepth
    <3> DEFINE f == [Top EXCEPT !.todo = Tail(@)]
    <3>1. IsCall(f) /\ f.via = Top.via /\ f.domain = Top.domain
      BY <2>2, <2>8, TriedCall
    <3>2. stack' = WithTop(f)
      BY <2>8
    <3> HIDE DEF f
    <3> QED
      BY <2>3, <3>1, <3>2
  <2>9. CASE Try
    <3>1. CASE stack' = <<>>
      <4>1. Chain(<<>>) /\ Len(<<>>) = 0
        BY NoneSet, EmptySeq DEF Chain
      <4> QED
        BY <1>4, <1>7, <3>1, <4>1
    <3>2. CASE stack' # <<>>
      BY <1>7, <2>8, <2>9, <3>2 DEF Try, At
    <3> QED
      BY <3>1, <3>2
  <2>10. CASE TryFails
    BY <1>7, <2>8, <2>10 DEF TryFails, At
  <2>11. CASE CallAgain
    <3> DEFINE c == Head(Top.todo)
               f == [Top EXCEPT !.todo = Tail(@)]
               g == Call(c.kind, c.arg)
    <3>1. /\ stack' = Append(WithTop(f), g) /\ Top.fetched /\ Top.todo # <<>>
          /\ Head(Top.todo).kind \in Asked /\ Len(stack) < MaxDepth
      BY <2>11 DEF CallAgain, At, Asked
    <3>2. IsCall(f) /\ f.via = Top.via /\ f.domain = Top.domain /\ f.fetched
      BY <2>2, <3>1, TriedCall
    <3>3. IsCall(g) /\ Calls(Top, g)
      BY <2>2, <3>1, NewCall
    <3> HIDE DEF f, g
    <3>4. Calls(f, g)
      BY <3>2, <3>3 DEF Calls
    <3>5. /\ Chain(WithTop(f)) /\ Len(WithTop(f)) = Len(stack)
          /\ Last(WithTop(f)) = f /\ WithTop(f) # <<>>
      BY <2>3, <3>2
    <3>6. Chain(stack')
      BY <3>1, <3>3, <3>4, <3>5, ChainAdded
    <3>7. Len(stack') = Len(stack) + 1
      BY <3>1, <3>5, Added DEF Chain
    <3> QED
      BY <1>4, <1>7, <3>1, <3>6, <3>7
  <2>12. CASE Nothing
    <3>1. stack' = SubSeq(stack, 1, Len(stack) - 1)
      BY <2>12 DEF Nothing, ReturnFalse, Front
    <3>2. Len(stack) - 1 \in Nat /\ Len(stack) - 1 <= Len(stack)
      BY <2>1
    <3> QED
      BY <1>7, <2>4, <3>1, <3>2
  <2> QED
    BY <1>5, <2>6, <2>7, <2>9, <2>10, <2>11, <2>12 DEF SpfStep
<1> QED
  BY <1>5, <1>6, <1>7

\* Outside the recursion a step starts it, or leaves everything it works with alone.
Starts == Begin /\ run = "begin" /\ UNCHANGED <<zone, client, query>>
Judges ==
    /\ UNCHANGED <<zone, client, query, stack, spf, lost>>
    /\ run' # "died" /\ run' # "begin" /\ run' # "spf"

LEMMA Steps ==
    ASSUME [CheckNext]_checkVars
    PROVE  Starts \/ SpfStep \/ Judges \/ UNCHANGED spfVars
BY DEF CheckNext, checkVars, spfVars, AskDmarc, AskSu, Check_SPF, JudgeSpf, JudgeDkim,
       JudgeThrows, JudgeSu, CheckEnded, Starts, Judges

LEMMA ShapeNext ==
    ASSUME ShapeInv, [CheckNext]_checkVars
    PROVE  ShapeInv'
<1>1. CASE Starts
  <2>1. UNCHANGED <<zone, client, query>> /\ stack' = <<Call("query", query)>> /\ run' = "spf"
    BY <1>1 DEF Starts, Begin
  <2>2. Parties /\ Parties'
    BY <2>1 DEF Parties, ShapeInv
  <2>3. Chain(stack') /\ Len(stack') <= MaxDepth
    BY <2>1, <2>2, FirstCall
  <2> QED
    BY <2>1, <2>2, <2>3, StaticChain DEF ShapeInv
<1>2. CASE SpfStep
  BY <1>2, ShapeStep
<1>3. CASE Judges
  <2>1. UNCHANGED <<zone, client, query>> /\ stack' = stack /\ run' # "died"
    BY <1>3 DEF Judges
  <2> QED
    BY <2>1, StaticChain DEF ShapeInv, Parties
<1>4. CASE UNCHANGED spfVars
  <2>1. UNCHANGED <<zone, client, query>> /\ stack' = stack /\ run' = run
    BY <1>4 DEF spfVars
  <2> QED
    BY <2>1, StaticChain DEF ShapeInv, Parties, Full, Top
<1> QED
  BY <1>1, <1>2, <1>3, <1>4, Steps

\* A call's domain is one that its caller's policy refers to.
LEMMA ChainRefers ==
    ASSUME Parties, NEW s, Chain(s), NEW i \in DOMAIN s, NEW j \in DOMAIN s, j = i + 1
    PROVE  /\ s[i].domain \in Domains /\ HasRecord(s[i].domain)
           /\ s[j].domain \in Refers(s[i].domain)
           /\ s[j].via \in Asked /\ Calls(s[i], s[j])
<1> DEFINE c == Check(s[j].via, s[j].domain)
           d == s[i].domain
<1>1. Len(s) \in Nat /\ DOMAIN s = 1 .. Len(s)
  BY SeqOfSet DEF Chain
<1>2. j # 1 /\ j - 1 = i
  BY <1>1
<1>3. IsCall(s[j]) /\ IsCall(s[i]) /\ Calls(s[i], s[j])
  BY <1>2 DEF Chain
<1>4. d \in Domains /\ HasRecord(d) /\ c \in ToSet(Policy(d)) /\ s[j].via \in Vias
  BY <1>3 DEF IsCall, Calls
<1>5. c.kind = s[j].via /\ c.arg = s[j].domain
  BY DEF Check
<1> HIDE DEF c, d
<1>6. c.kind \in Tried \cup Asked /\ (c.kind \in Asked => c.arg \in Refers(d))
  BY <1>4, PolicyChecks
<1>7. Vias \cap Tried = {}
  BY DEF Vias, Tried
<1> QED
  BY <1>3, <1>4, <1>5, <1>6, <1>7 DEF d

\* The domains of the calls, and the one that the last refers to, are a chain.
LEMMA FullIsChain ==
    ASSUME Parties, Chain(stack), Full
    PROVE  \E s \in [1 .. MaxDepth + 1 -> Domains] :
               s[1] = query /\ \A i \in 1 .. MaxDepth : s[i + 1] \in Refers(s[i])
<1> DEFINE n == MaxDepth
           next == Head(Top.todo).arg
           s == [i \in 1 .. n + 1 |-> IF i = n + 1 THEN next ELSE stack[i].domain]
<1>1. n \in Nat \ {0} /\ Len(stack) = n /\ DOMAIN stack = 1 .. n /\ Top = stack[n]
  BY SpfConstants, TopOf DEF Full, Chain, Top
<1>2. \A i \in 1 .. n : IsCall(stack[i]) /\ stack[i].domain \in Domains
  BY <1>1 DEF Chain, IsCall
<1>3. next \in Refers(stack[n].domain) /\ next \in Domains
  <2>1. IsCall(Top) /\ Top.fetched /\ Top.todo # <<>> /\ Head(Top.todo).kind \in Asked
    BY <1>1, <1>2 DEF Full
  <2>2. Head(Top.todo) \in ToSet(Policy(Top.domain))
    BY <2>1, TriedCall
  <2>3. Top.domain \in Domains /\ HasRecord(Top.domain)
    BY <2>1 DEF IsCall
  <2> QED
    BY <1>1, <2>1, <2>2, <2>3, PolicyChecks
<1> HIDE DEF next, n
<1>4. s \in [1 .. n + 1 -> Domains]
  <2>1. ASSUME NEW i \in 1 .. n + 1, i # n + 1
        PROVE  i \in 1 .. n
    BY <1>1, <2>1
  <2> QED
    BY <1>2, <1>3, <2>1
<1>5. s[1] = query
  <2>1. 1 \in 1 .. n + 1 /\ 1 # n + 1 /\ 1 \in DOMAIN stack
    BY <1>1
  <2> QED
    BY <2>1 DEF Chain
<1>6. ASSUME NEW i \in 1 .. n
      PROVE  s[i + 1] \in Refers(s[i])
  <2>1. i \in 1 .. n + 1 /\ i + 1 \in 1 .. n + 1 /\ i # n + 1
    BY <1>1
  <2>2. s[i] = stack[i].domain
    BY <2>1
  <2>3. CASE i = n
    BY <1>3, <2>1, <2>2, <2>3
  <2>4. CASE i # n
    <3>1. i \in DOMAIN stack /\ i + 1 \in DOMAIN stack /\ i + 1 # n + 1
      BY <1>1, <2>4
    <3>2. stack[i + 1].domain \in Refers(stack[i].domain)
      BY <3>1, ChainRefers
    <3> QED
      BY <2>1, <2>2, <3>1, <3>2
  <2> QED
    BY <2>3, <2>4
<1> HIDE DEF s
<1> QED
  BY <1>4, <1>5, <1>6 DEF n

\* The process runs out of stack only where the policies refer on for longer than it is
\* deep, for any depth and any number of domains: the calls on it are those of one chain.
THEOREM DeathNeedsAChain == CheckSpec => []DiesOnlyOnChains
<1>1. CheckInit => ShapeInv
  BY ShapeInit
<1>2. ShapeInv /\ [CheckNext]_checkVars => ShapeInv'
  BY ShapeNext
<1>3. ShapeInv => DiesOnlyOnChains
  BY FullIsChain DEF ShapeInv, DiesOnlyOnChains
<1> QED
  BY <1>1, <1>2, <1>3, PTL DEF CheckSpec

-----------------------------------------------------------------------------
(* Who is allowed                                                          *)

\* Every call's domain is reached from the query: the first that were not would be
\* referred to by one that is.
LEMMA ChainWithin ==
    ASSUME Parties, NEW s, Chain(s),
           NEW S \in SUBSET Domains, query \in S, Closed(S), NEW i \in DOMAIN s
    PROVE  s[i].domain \in S
<1> DEFINE out == {j \in DOMAIN s : s[j].domain \notin S}
           m == Min(out)
<1>1. SUFFICES ASSUME out # {} PROVE FALSE
  OBVIOUS
<1>2. Len(s) \in Nat /\ DOMAIN s = 1 .. Len(s)
  BY SeqOfSet DEF Chain
<1>3. m \in out /\ \A j \in out : m <= j
  <2>1. out \in SUBSET Nat
    BY <1>2
  <2> HIDE DEF out
  <2> QED
    BY <1>1, <2>1, MinOfNaturals
<1> HIDE DEF m
<1>4. m \in DOMAIN s /\ s[m].domain \notin S
  BY <1>3
<1>5. m # 1
  BY <1>4 DEF Chain
<1>6. m - 1 \in DOMAIN s /\ s[m].domain \in Refers(s[m - 1].domain)
  <2>1. m - 1 \in DOMAIN s /\ m = m - 1 + 1
    BY <1>2, <1>4, <1>5
  <2> QED
    BY <1>4, <2>1, ChainRefers
<1>7. s[m - 1].domain \in S
  <2>1. ~ (m <= m - 1)
    BY <1>2, <1>4
  <2> QED
    BY <1>3, <1>6, <2>1
<1> QED
  BY <1>4, <1>6, <1>7 DEF Closed

LEMMA StaticAuthorised ==
    ASSUME UNCHANGED <<zone, client, query>>
    PROVE  Authorised' <=> Authorised
<1>1. /\ \A d : Refers(d)' = Refers(d)
      /\ \A d : Decides(d)' <=> Decides(d)
      /\ \A d : (Named(d) \/ Misread(d))' <=> (Named(d) \/ Misread(d))
  BY Static
<1>2. \A S : Closed(S)' <=> Closed(S)
  BY <1>1 DEF Closed
<1> QED
  BY <1>1, <1>2 DEF Authorised, Reaches

PermitInv == spf = "allowed" => Authorised

LEMMA MatchAuthorises ==
    ASSUME ComparesExactly, ShapeInv, stack # <<>>, Top.fetched, Top.todo # <<>>,
           Head(Top.todo).kind \in Tried, Matches(Head(Top.todo))
    PROVE  Authorised
<1>1. Parties /\ Chain(stack) /\ IsSeq(stack)
  BY DEF ShapeInv, Chain
<1>2. Top = stack[Len(stack)] /\ Len(stack) \in DOMAIN stack
  BY <1>1, TopOf DEF Top
<1>3. IsCall(Top)
  BY <1>1, <1>2 DEF Chain
<1>4. Top.domain \in Domains /\ HasRecord(Top.domain)
  BY <1>3 DEF IsCall
<1>5. Head(Top.todo) \in ToSet(Policy(Top.domain))
  BY <1>3, TriedCall
<1>6. Decides(Top.domain) /\ (Named(Top.domain) \/ Misread(Top.domain))
  BY <1>1, <1>4, <1>5, MatchIsNamed
<1>7. ASSUME NEW S \in SUBSET Domains, query \in S, Closed(S)
      PROVE  Top.domain \in S
  BY <1>1, <1>2, <1>7, ChainWithin
<1> QED
  BY <1>6, <1>7 DEF Authorised, Reaches

LEMMA PermitNext ==
    ASSUME ComparesExactly, ShapeInv, PermitInv, [CheckNext]_checkVars
    PROVE  PermitInv'
<1>1. CASE Starts
  BY <1>1 DEF Starts, Begin, PermitInv
<1>2. CASE SpfStep
  <2>1. UNCHANGED <<zone, client, query>>
    BY <1>2 DEF SpfStep, Fetch, FetchFails, Try, TryFails, CallAgain, StackOverflow, Nothing
  <2>2. Authorised => Authorised'
    BY <2>1, StaticAuthorised
  <2>3. spf' = "allowed" => spf = "allowed" \/ Authorised
    <3>1. ASSUME Throws
          PROVE  spf' = "allowed" => spf = "allowed"
      BY <3>1, ThrowsCuts
    <3>2. CASE Fetch
      BY <3>1, <3>2 DEF Fetch
    <3>3. CASE FetchFails
      BY <3>1, <3>3 DEF FetchFails
    <3>4. CASE Try
      <4>1. /\ stack # <<>> /\ Top.fetched /\ Top.todo # <<>>
            /\ Head(Top.todo).kind \in Tried
            /\ spf' = "allowed" => spf = "allowed" \/ Matches(Head(Top.todo))
        BY <3>4 DEF Try, At, Running, Tried
      <4> QED
        BY <4>1, MatchAuthorises
    <3>5. CASE TryFails \/ CallAgain \/ StackOverflow \/ Nothing
      BY <3>5 DEF TryFails, CallAgain, StackOverflow, Nothing, ReturnFalse
    <3> QED
      BY <1>2, <3>2, <3>3, <3>4, <3>5 DEF SpfStep
  <2> QED
    BY <2>2, <2>3 DEF PermitInv
<1>3. CASE Judges \/ UNCHANGED spfVars
  <2>1. UNCHANGED <<zone, client, query>> /\ spf' = spf
    BY <1>3 DEF Judges, spfVars
  <2> QED
    BY <2>1, StaticAuthorised DEF PermitInv
<1> QED
  BY <1>1, <1>2, <1>3, Steps

-----------------------------------------------------------------------------
(* What comes of it                                                        *)

\* A policy is read from a segment of the answer.
LEMMA DmarcSays ==
    ASSUME NEW txts \in Seq(Seq([key : STRING, val : STRING]))
    PROVE  /\ DmarcFromDNS(txts) \in Policies \cup {"missing"}
           /\ DmarcFromDNS(txts) = "reject" =>
                 \E i \in DOMAIN txts : \E j \in DOMAIN txts[i] :
                    txts[i][j] = [key |-> "p", val |-> "reject"]
<1> DEFINE good == {i \in DOMAIN txts : IsRecord(txts[i])}
           saying == {i \in DOMAIN txts :
                         PolicySegments(txts[i]) # {} /\ \A k \in good : i <= k}
           txt == txts[Max(saying)]
           said == txt[Max(PolicySegments(txt))].val
<1>1. DmarcFromDNS(txts) = IF good = {} THEN "missing"
                           ELSE IF saying # {} /\ said \in Policies THEN said ELSE "none"
  BY DEF DmarcFromDNS
<1>2. Len(txts) \in Nat /\ DOMAIN txts = 1 .. Len(txts)
  BY LenProperties
<1>3. saying \in SUBSET (1 .. Len(txts))
  BY <1>2
<1>4. ASSUME saying # {}
      PROVE  \E i \in DOMAIN txts : \E j \in DOMAIN txts[i] :
                txts[i][j] = [key |-> "p", val |-> said]
  <2>1. Max(saying) \in saying
    BY <1>2, <1>3, <1>4, MaxOfPlaces
  <2>2. Max(saying) \in DOMAIN txts /\ PolicySegments(txt) # {}
    BY <2>1
  <2>3. txt \in Seq([key : STRING, val : STRING])
    BY <1>2, <2>2, ElementOfSeq
  <2> HIDE DEF saying, txt
  <2>4. Len(txt) \in Nat /\ DOMAIN txt = 1 .. Len(txt)
    BY <2>3, LenProperties
  <2>5. PolicySegments(txt) \in SUBSET (1 .. Len(txt))
    BY <2>4 DEF PolicySegments
  <2>6. Max(PolicySegments(txt)) \in PolicySegments(txt)
    BY <2>2, <2>4, <2>5, MaxOfPlaces
  <2> DEFINE j == Max(PolicySegments(txt))
  <2>7. j \in DOMAIN txt /\ txt[j].key = "p"
    BY <2>6 DEF PolicySegments
  <2>8. txt[j] \in [key : STRING, val : STRING]
    BY <2>3, <2>4, <2>7, ElementOfSeq
  <2>9. txt[j] = [key |-> "p", val |-> txt[j].val]
    BY <2>7, <2>8
  <2> QED
    BY <2>2, <2>7, <2>9 DEF txt
<1> HIDE DEF good, saying, said
<1>5. CASE good = {}
  BY <1>1, <1>5
<1>6. CASE good # {} /\ saying # {} /\ said \in Policies
  <2>1. DmarcFromDNS(txts) = said
    BY <1>1, <1>6
  <2> QED
    BY <1>4, <1>6, <2>1
<1>7. CASE good # {} /\ ~ (saying # {} /\ said \in Policies)
  BY <1>1, <1>7 DEF Policies
<1> QED
  BY <1>5, <1>6, <1>7

JudgeInv ==
    /\ published \in DmarcTxt \cup {<<>>}
    /\ dmarc = DmarcFromDNS(published)
    /\ run = "rejected" => spf # "allowed" /\ dmarc = "reject"
    /\ run = "dkim" =>
          /\ dmarc = "reject" => spf = "allowed"
          /\ ~suspect => spf = "allowed"
          /\ dmarcSpf => spf = "allowed" \/ dmarc # "quarantine"
    /\ run = "judged" /\ ~suspect => spf = "allowed"
    /\ run = "granted" => spf = "allowed" \/ client.addr \in Local
    /\ header = "pass" =>
          /\ run = "judged"
          /\ dmarc # "none" =>
                spf = "allowed" /\ (signed # <<>> => \E i \in DOMAIN signed : signed[i] = "valid")

SenderInv == ShapeInv /\ PermitInv /\ JudgeInv

LEMMA JudgeInit == CheckInit => JudgeInv /\ PermitInv
<1> SUFFICES ASSUME CheckInit PROVE JudgeInv /\ PermitInv
  OBVIOUS
<1>1. /\ published = <<>> /\ dmarc = "missing" /\ run = "begin" /\ header = "none"
      /\ spf = "denied"
  BY DEF CheckInit, SpfInit
<1>2. DmarcFromDNS(<<>>) = "missing"
  <2>1. DOMAIN <<>> = {}
    BY NoneSet, EmptySeq
  <2>2. {i \in DOMAIN <<>> : IsRecord(<<>>[i])} = {}
    BY <2>1
  <2> QED
    BY <2>2 DEF DmarcFromDNS
<1> QED
  BY <1>1, <1>2 DEF JudgeInv, PermitInv

\* What the owner of the domain published.
LEMMA PublishedIs ==
    ASSUME JudgeInv
    PROVE  published \in Seq(Seq([key : STRING, val : STRING]))
<1>1. <<>> \in Seq(Seq([key : STRING, val : STRING]))
  BY EmptySeq
<1> QED
  BY <1>1, SenderConstants DEF JudgeInv

LEMMA JudgeNext ==
    ASSUME JudgeInv, [CheckNext]_checkVars
    PROVE  JudgeInv'
<1> USE DEF JudgeInv
<1>1. CASE AskDmarc
  <2>1. published' \in DmarcTxt \cup {<<>>} /\ dmarc' = DmarcFromDNS(published')
    BY <1>1 DEF AskDmarc
  <2>2. run' = "spf" /\ run = "begin" /\ header' = header
    BY <1>1 DEF AskDmarc, Begin
  <2> QED
    BY <2>1, <2>2
<1>2. CASE AskSu
  <2>1. run' = "spf" /\ run = "begin" /\ header' = header /\ UNCHANGED <<published, dmarc>>
    BY <1>2 DEF AskSu, Begin
  <2> QED
    BY <2>1
<1>3. CASE Check_SPF
  <2>1. run = "spf" /\ run' \in {"spf", "died"}
    BY <1>3 DEF Check_SPF, SpfStep, Fetch, FetchFails, Try, TryFails, CallAgain,
                StackOverflow, Nothing, At, Running
  <2>2. UNCHANGED <<published, dmarc, header>>
    BY <1>3 DEF Check_SPF
  <2> QED
    BY <2>1, <2>2
<1>4. CASE JudgeSpf
  BY <1>4 DEF JudgeSpf, SpfEnded
<1>5. CASE JudgeDkim
  <2>1. /\ run = "dkim" /\ run' = "judged" /\ signed' \in Signatures
        /\ UNCHANGED <<client, spf, published, dmarc, suspect>>
    BY <1>5 DEF JudgeDkim
  <2>2. header' = "pass" =>
           /\ dmarc # "missing" /\ dmarcSpf
           /\ DkimResult(signed') \in {"pass", "neutral"} \/ dmarc = "none"
    BY <1>5 DEF JudgeDkim
  <2>3. DkimResult(signed') \in {"pass", "neutral"} /\ signed' # <<>> =>
           \E i \in DOMAIN signed' : signed'[i] = "valid"
    <3>1. signed' \in Seq(STRING)
      BY <2>1, SenderConstants
    <3>2. signed' # <<>> => Head(signed') = signed'[1] /\ 1 \in DOMAIN signed'
      BY <3>1, LenProperties, EmptySeq
    <3> QED
      BY <3>2 DEF DkimResult
  <2>4. dmarc \in Policies \cup {"missing"}
    BY PublishedIs, DmarcSays
  <2>5. header' = "pass" /\ dmarc # "none" => spf = "allowed"
    BY <2>1, <2>2, <2>4 DEF Policies
  <2> QED
    BY <2>1, <2>2, <2>3, <2>5
<1>6. CASE JudgeThrows
  BY <1>6 DEF JudgeThrows
<1>7. CASE JudgeSu
  BY <1>7 DEF JudgeSu
<1>8. CASE CheckEnded \/ UNCHANGED checkVars
  BY <1>8 DEF CheckEnded, checkVars, spfVars
<1> QED
  BY <1>1, <1>2, <1>3, <1>4, <1>5, <1>6, <1>7, <1>8 DEF CheckNext

LEMMA SenderCorrect == ComparesExactly /\ CheckSpec => [](ComparesExactly /\ SenderInv)
<1>1. CheckInit => SenderInv
  BY ShapeInit, JudgeInit DEF SenderInv
<1>2. (ComparesExactly /\ SenderInv) /\ [CheckNext]_checkVars => (ComparesExactly /\ SenderInv)'
  <2> SUFFICES ASSUME ComparesExactly, SenderInv, [CheckNext]_checkVars
               PROVE  ComparesExactly' /\ SenderInv'
    OBVIOUS
  <2>1. ShapeInv' /\ PermitInv' /\ JudgeInv'
    BY ShapeNext, PermitNext, JudgeNext DEF SenderInv
  <2> QED
    BY <2>1 DEF SenderInv, ComparesExactly
<1> QED
  BY <1>1, <1>2, PTL DEF CheckSpec

\* A message goes to an inbox, and a client is taken for one of our own servers, only
\* if a policy the domain hands the decision to names the client.
THEOREM CleanMailIsAuthorised == ComparesExactly /\ CheckSpec => []CleanIsAuthorised
<1>1. SenderInv => CleanIsAuthorised
  BY DEF SenderInv, PermitInv, JudgeInv, CleanIsAuthorised
<1> QED
  BY <1>1, SenderCorrect, PTL

\* A message is rejected, and said to pass, as the DMARC record asks.
THEOREM TheRecordIsFollowed == ComparesExactly /\ CheckSpec => []DmarcFollowed
<1>1. SenderInv => DmarcFollowed
  <2> SUFFICES ASSUME SenderInv PROVE DmarcFollowed
    OBVIOUS
  <2>1. JudgeInv /\ PermitInv
    BY DEF SenderInv
  <2>2. dmarc = "reject" =>
           \E i \in DOMAIN published : \E j \in DOMAIN published[i] :
              published[i][j] = [key |-> "p", val |-> "reject"]
    <3>1. published \in Seq(Seq([key : STRING, val : STRING]))
      BY <2>1, PublishedIs
    <3>2. dmarc = DmarcFromDNS(published)
      BY <2>1 DEF JudgeInv
    <3> QED
      BY <3>1, <3>2, DmarcSays
  <2> QED
    BY <2>1, <2>2 DEF JudgeInv, PermitInv, DmarcFollowed
<1> QED
  BY <1>1, SenderCorrect, PTL

-----------------------------------------------------------------------------
(* Who is not                                                              *)

\* Nobody the domain's policy hands the decision to names the client by address.
Clean(d) == \E S \in SUBSET Domains :
    d \in S /\ Closed(S) /\ \A e \in S : ~ (Decides(e) /\ Listed(e))
Settled(c) == IF c.kind \in Asked THEN Clean(c.arg) ELSE ~Matches(c)
\* What a call has done of its policy came to nothing; the one at the top may be about
\* to make the calls in w.
Progress(s, w) ==
    \A i \in DOMAIN s : s[i].fetched => \A c \in ToSet(Policy(s[i].domain)) :
        \/ c \in ToSet(s[i].todo)
        \/ Settled(c)
        \/ i = Len(s) /\ c \in w
        \/ i # Len(s) /\ c = Check(s[i + 1].via, s[i + 1].domain)

LEMMA StaticProgress ==
    ASSUME UNCHANGED <<zone, client, query>>
    PROVE  /\ \A d : Clean(d)' <=> Clean(d)
           /\ \A s, w : Progress(s, w)' <=> Progress(s, w)
<1>1. /\ \A d : Policy(d)' = Policy(d)
      /\ \A d : Refers(d)' = Refers(d)
      /\ \A d : Decides(d)' <=> Decides(d)
      /\ \A d : Listed(d)' <=> Listed(d)
      /\ \A c : Matches(c)' <=> Matches(c)
  BY Static
<1>2. \A S : Closed(S)' <=> Closed(S)
  BY <1>1 DEF Closed
<1>3. \A d : Clean(d)' <=> Clean(d)
  BY <1>1, <1>2 DEF Clean
<1>4. \A c : Settled(c)' <=> Settled(c)
  BY <1>1, <1>3 DEF Settled
<1> QED
  BY <1>1, <1>3, <1>4 DEF Progress

\* A policy all of whose checks came to nothing.
LEMMA DoneIsClean ==
    ASSUME ComparesExactly, Parties, NEW d \in Domains, HasRecord(d),
           \A c \in ToSet(Policy(d)) : Settled(c)
    PROVE  Clean(d)
<1> DEFINE S == {d} \cup {e \in Domains : Clean(e)}
<1>1. ~ (Decides(d) /\ Listed(d))
  <2>1. SUFFICES ASSUME Decides(d), Listed(d) PROVE FALSE
    OBVIOUS
  <2>2. PICK c \in ToSet(Policy(d)) : c.kind \in Tried /\ Matches(c)
    BY <2>1, ListedIsTried
  <2>3. c.kind \notin Asked
    BY <2>2 DEF Tried, Asked
  <2> QED
    BY <2>2, <2>3 DEF Settled
<1>2. ASSUME NEW e \in Refers(d)
      PROVE  e \in Domains /\ Clean(e)
  <2>1. PICK kind \in Asked : Check(kind, e) \in ToSet(Policy(d))
    BY PolicyChecks
  <2>2. Settled(Check(kind, e)) /\ Check(kind, e).kind = kind /\ Check(kind, e).arg = e
    BY <2>1 DEF Check
  <2>3. Clean(e)
    BY <2>1, <2>2 DEF Settled
  <2> QED
    BY <2>3, PolicyChecks
<1>3. ASSUME NEW e \in Domains, Clean(e)
      PROVE  Refers(e) \subseteq S /\ ~ (Decides(e) /\ Listed(e))
  <2>1. PICK T \in SUBSET Domains :
           e \in T /\ Closed(T) /\ \A x \in T : ~ (Decides(x) /\ Listed(x))
    BY <1>3 DEF Clean
  <2>2. \A x \in T : Clean(x)
    BY <2>1 DEF Clean
  <2> QED
    BY <2>1, <2>2 DEF Closed
<1>4. S \in SUBSET Domains /\ d \in S
  OBVIOUS
<1>5. Closed(S)
  BY <1>2, <1>3 DEF Closed
<1> QED
  BY <1>1, <1>3, <1>4, <1>5 DEF Clean

\* Redirects that end at a domain without a record.
LEMMA NowhereIsClean ==
    ASSUME Parties, NEW s, Chain(s), s # <<>>, ~HasRecord(Last(s).domain),
           NEW k \in 1 .. Len(s), \A j \in DOMAIN s : j > k => s[j].via # "include"
    PROVE  Clean(s[k].domain)
<1> DEFINE n == Len(s)
           S == {s[j].domain : j \in k .. n}
<1>1. n \in Nat \ {0} /\ DOMAIN s = 1 .. n /\ Last(s) = s[n] /\ k \in 1 .. n
  BY TopOf DEF Chain
<1> HIDE DEF n
<1>2. ASSUME NEW j \in k .. n
      PROVE  /\ s[j].domain \in Domains
             /\ Refers(s[j].domain) \subseteq S /\ ~Decides(s[j].domain)
  <2>1. s[j].domain \in Domains
    BY <1>1 DEF Chain, IsCall
  <2>2. CASE j = n
    BY <1>1, <2>1, <2>2 DEF Refers, Decides
  <2>3. CASE j # n
    <3> DEFINE c == Check(s[j + 1].via, s[j + 1].domain)
    <3>1. /\ j \in DOMAIN s /\ j + 1 \in DOMAIN s
          /\ j + 1 > k /\ j + 1 \in k .. n
      BY <1>1, <2>3
    <3>2. s[j + 1].via \in Asked /\ HasRecord(s[j].domain)
      BY <3>1, ChainRefers
    <3>3. s[j + 1].via = "redirect"
      BY <3>1, <3>2 DEF Asked
    <3>4. Calls(s[j], s[j + 1])
      BY <3>1, ChainRefers
    <3>5. c \in ToSet(Policy(s[j].domain)) /\ c.kind = "redirect" /\ c.arg = s[j + 1].domain
      BY <3>3, <3>4 DEF Calls, Check
    <3>6. Refers(s[j].domain) = {s[j + 1].domain} /\ ~Decides(s[j].domain)
      BY <2>1, <3>2, <3>5, PolicyChecks
    <3> QED
      BY <2>1, <3>1, <3>6
  <2> QED
    BY <2>2, <2>3
<1>3. s[k].domain \in S
  BY <1>1
<1>4. S \in SUBSET Domains /\ Closed(S) /\ \A e \in S : ~ (Decides(e) /\ Listed(e))
  BY <1>2 DEF Closed
<1> QED
  BY <1>3, <1>4 DEF Clean

\* A call whose domain is clean goes, and those above it.
LEMMA ProgressCut ==
    ASSUME Parties, NEW s, Chain(s), Progress(s, {}), NEW k \in 1 .. Len(s), Clean(s[k].domain)
    PROVE  /\ Progress(SubSeq(s, 1, k - 1), {})
           /\ k = 1 => Clean(query)
<1> DEFINE n == k - 1
           t == SubSeq(s, 1, n)
<1>1. /\ IsSeq(s) /\ Len(s) \in Nat /\ DOMAIN s = 1 .. Len(s)
      /\ n \in Nat /\ n <= Len(s) /\ k = n + 1 /\ k \in DOMAIN s
  BY SeqOfSet DEF Chain
<1>2. Len(t) = n /\ DOMAIN t = 1 .. n /\ \A i \in 1 .. n : i \in DOMAIN s /\ t[i] = s[i]
  BY <1>1, CutTo
<1>3. k = 1 => Clean(query)
  BY <1>1 DEF Chain
<1> HIDE DEF n, t
<1>4. ASSUME NEW i \in DOMAIN t, t[i].fetched, NEW c \in ToSet(Policy(t[i].domain))
      PROVE  \/ c \in ToSet(t[i].todo)
             \/ Settled(c)
             \/ i = Len(t) /\ c \in {}
             \/ i # Len(t) /\ c = Check(t[i + 1].via, t[i + 1].domain)
  <2>1. /\ i \in DOMAIN s /\ t[i] = s[i] /\ i # Len(s)
        /\ i # n => i + 1 \in 1 .. n
    BY <1>1, <1>2
  <2>2. \/ c \in ToSet(s[i].todo)
        \/ Settled(c)
        \/ c = Check(s[i + 1].via, s[i + 1].domain)
    BY <1>4, <2>1 DEF Progress
  <2>3. CASE c = Check(s[i + 1].via, s[i + 1].domain) /\ i = n
    <3>1. i \in DOMAIN s /\ k = i + 1
      BY <1>1, <1>2, <2>1, <2>3
    <3>2. s[k].via \in Asked
      BY <1>1, <3>1, ChainRefers
    <3>3. c.kind = s[k].via /\ c.arg = s[k].domain
      BY <2>3, <3>1 DEF Check
    <3> QED
      BY <3>2, <3>3 DEF Settled
  <2>4. CASE c = Check(s[i + 1].via, s[i + 1].domain) /\ i # n
    BY <1>2, <2>1, <2>4
  <2> QED
    BY <2>1, <2>2, <2>3, <2>4
<1>5. Progress(t, {})
  BY <1>4 DEF Progress
<1> QED
  BY <1>3, <1>5 DEF t, n

LEMMA ProgressReplaced ==
    ASSUME NEW s, IsSeq(s), s # <<>>, Progress(s, {}), NEW f, NEW w,
           f.via = Last(s).via, f.domain = Last(s).domain,
           \A c \in ToSet(Policy(f.domain)) : c \in ToSet(f.todo) \/ Settled(c) \/ c \in w
    PROVE  Progress(Append(Front(s), f), w)
<1> DEFINE t == Append(Front(s), f)
           n == Len(s)
<1>1. n \in Nat \ {0} /\ DOMAIN s = 1 .. n /\ Last(s) = s[n]
  BY TopOf
<1>2. /\ Len(t) = n /\ DOMAIN t = 1 .. n /\ t[n] = f
      /\ \A i \in 1 .. n - 1 : t[i] = s[i]
  BY Replaced
<1> HIDE DEF t, n
<1>3. ASSUME NEW i \in 1 .. n
      PROVE  t[i].via = s[i].via /\ t[i].domain = s[i].domain
  <2>1. i = n \/ i \in 1 .. n - 1
    BY <1>1
  <2> QED
    BY <1>1, <1>2, <2>1
<1>4. ASSUME NEW i \in DOMAIN t, t[i].fetched, NEW c \in ToSet(Policy(t[i].domain))
      PROVE  \/ c \in ToSet(t[i].todo)
             \/ Settled(c)
             \/ i = Len(t) /\ c \in w
             \/ i # Len(t) /\ c = Check(t[i + 1].via, t[i + 1].domain)
  <2>1. CASE i = n
    BY <1>2, <1>4, <2>1
  <2>2. CASE i # n
    <3>1. i \in 1 .. n - 1 /\ i \in DOMAIN s /\ i + 1 \in 1 .. n
      BY <1>1, <1>2, <2>2
    <3>2. t[i] = s[i]
      BY <1>2, <3>1
    <3>3. \/ c \in ToSet(s[i].todo)
          \/ Settled(c)
          \/ c = Check(s[i + 1].via, s[i + 1].domain)
      BY <1>4, <2>2, <3>1, <3>2 DEF Progress
    <3>4. Check(s[i + 1].via, s[i + 1].domain) = Check(t[i + 1].via, t[i + 1].domain)
      BY <1>3, <3>1
    <3> QED
      BY <1>2, <2>2, <3>2, <3>3, <3>4
  <2> QED
    BY <2>1, <2>2
<1>5. Progress(t, w)
  BY <1>4 DEF Progress
<1> QED
  BY <1>5 DEF t, n

LEMMA ProgressAdded ==
    ASSUME NEW s, IsSeq(s), NEW g, Progress(s, {Check(g.via, g.domain)}), ~g.fetched
    PROVE  Progress(Append(s, g), {})
<1> DEFINE t == Append(s, g)
           n == Len(s)
<1>1. n \in Nat /\ DOMAIN s = 1 .. n
  BY SeqOfSet
<1>2. /\ Len(t) = n + 1 /\ DOMAIN t = 1 .. n + 1 /\ t[n + 1] = g
      /\ \A i \in 1 .. n : t[i] = s[i]
  BY Added
<1> HIDE DEF t
<1>3. ASSUME NEW i \in DOMAIN t, t[i].fetched, NEW c \in ToSet(Policy(t[i].domain))
      PROVE  \/ c \in ToSet(t[i].todo)
             \/ Settled(c)
             \/ i = Len(t) /\ c \in {}
             \/ i # Len(t) /\ c = Check(t[i + 1].via, t[i + 1].domain)
  <2>1. i # n + 1
    BY <1>2, <1>3
  <2>2. i \in 1 .. n /\ i \in DOMAIN s
    BY <1>1, <1>2, <2>1
  <2>3. t[i] = s[i]
    BY <1>2, <2>2
  <2>4. \/ c \in ToSet(s[i].todo)
        \/ Settled(c)
        \/ i = n /\ c = Check(g.via, g.domain)
        \/ i # n /\ c = Check(s[i + 1].via, s[i + 1].domain)
    BY <1>3, <2>2, <2>3 DEF Progress
  <2>5. i # n => i + 1 \in 1 .. n
    BY <1>1, <2>2
  <2>6. i # n => t[i + 1] = s[i + 1]
    BY <1>2, <2>5
  <2> QED
    BY <1>2, <2>1, <2>3, <2>4, <2>6
<1>4. Progress(t, {})
  BY <1>3 DEF Progress
<1> QED
  BY <1>4 DEF t

DenyInv ==
    /\ lost \in Nat
    /\ lost = 0 => Progress(stack, {})
    /\ run = "spf" /\ stack = <<>> /\ spf # "allowed" /\ lost = 0 => Clean(query)

LEMMA DenyInit == CheckInit => DenyInv
<1> SUFFICES ASSUME CheckInit PROVE DenyInv
  OBVIOUS
<1>1. stack = <<>> /\ lost = 0 /\ run = "begin"
  BY DEF CheckInit, SpfInit
<1>2. DOMAIN <<>> = {}
  BY NoneSet, EmptySeq
<1>3. Progress(<<>>, {})
  BY <1>2 DEF Progress
<1> QED
  BY <1>1, <1>3 DEF DenyInv

LEMMA DenyStep ==
    ASSUME ComparesExactly, ShapeInv, DenyInv, SpfStep
    PROVE  DenyInv'
<1>1. UNCHANGED <<zone, client, query>> /\ lost' \in Nat /\ (lost' = 0 => lost = 0)
  BY DEF SpfStep, Fetch, FetchFails, Try, TryFails, CallAgain, StackOverflow, Nothing, DenyInv
<1>2. /\ Clean(query)' <=> Clean(query)
      /\ Progress(stack, {})' <=> Progress(stack', {})
  BY <1>1, StaticProgress
<1>3. SUFFICES ASSUME lost' = 0
               PROVE  /\ Progress(stack', {})
                      /\ run' = "spf" /\ stack' = <<>> /\ spf' # "allowed" => Clean(query)
  BY <1>1, <1>2 DEF DenyInv
<1>4. lost = 0 /\ Progress(stack, {})
  BY <1>1, <1>3 DEF DenyInv
<1>5. Parties /\ Chain(stack) /\ IsSeq(stack)
  BY DEF ShapeInv, Chain
<1>6. stack # <<>>
  BY DEF SpfStep, Fetch, FetchFails, Try, TryFails, CallAgain, StackOverflow, Nothing, At,
         Running
<1>7. /\ Len(stack) \in Nat \ {0} /\ DOMAIN stack = 1 .. Len(stack)
      /\ Top = stack[Len(stack)] /\ Top = Last(stack) /\ IsCall(Top)
  <2>1. /\ Len(stack) \in Nat \ {0} /\ DOMAIN stack = 1 .. Len(stack)
        /\ Top = stack[Len(stack)] /\ Top = Last(stack) /\ Len(stack) \in DOMAIN stack
    BY <1>5, <1>6, TopOf DEF Top
  <2> QED
    BY <1>5, <2>1 DEF Chain
<1>8. Top.domain \in Domains
  BY <1>7 DEF IsCall
<1>9. Top.fetched => \A c \in ToSet(Policy(Top.domain)) : c \in ToSet(Top.todo) \/ Settled(c)
  <2>1. Len(stack) \in DOMAIN stack
    BY <1>7
  <2> QED
    BY <1>4, <1>7, <2>1 DEF Progress
\* What was above the k-th call is given up.
<1>10. ASSUME NEW k \in 1 .. Len(stack), stack' = SubSeq(stack, 1, k - 1), Clean(stack[k].domain)
       PROVE  Progress(stack', {}) /\ (stack' = <<>> => Clean(query))
  <2>1. Progress(stack', {}) /\ (k = 1 => Clean(query))
    BY <1>4, <1>5, <1>10, ProgressCut
  <2>2. stack' = <<>> => k = 1
    <3>1. k - 1 \in Nat /\ k - 1 <= Len(stack)
      BY <1>7
    <3>2. Len(stack') = k - 1
      BY <1>5, <1>10, <3>1, CutTo
    <3> QED
      BY <3>1, <3>2, EmptySeq
  <2> QED
    BY <2>1, <2>2
\* The call at the top is one check further.
<1>11. ASSUME NEW f, NEW w, f.via = Top.via, f.domain = Top.domain,
              \A c \in ToSet(Policy(f.domain)) : c \in ToSet(f.todo) \/ Settled(c) \/ c \in w
       PROVE  Progress(WithTop(f), w) /\ WithTop(f) # <<>> /\ IsSeq(WithTop(f))
  <2>1. Progress(WithTop(f), w)
    BY <1>4, <1>5, <1>6, <1>7, <1>11, ProgressReplaced DEF WithTop
  <2>2. IsSeq(WithTop(f)) /\ Len(WithTop(f)) # 0
    BY <1>5, <1>6, <1>7, Replaced DEF WithTop
  <2> QED
    BY <2>1, <2>2, EmptySeq
<1>12. CASE Fetch
  <2>1. CASE HasRecord(Top.domain)
    <3> DEFINE f == [Top EXCEPT !.fetched = TRUE, !.todo = Policy(Top.domain)]
    <3>1. stack' = WithTop(f)
      BY <1>12, <2>1 DEF Fetch, Policy
    <3>2. f.via = Top.via /\ f.domain = Top.domain /\ f.todo = Policy(Top.domain)
      BY <1>5, <1>7, <2>1, FetchedCall
    <3> HIDE DEF f
    <3> QED
      BY <1>11, <3>1, <3>2
  <2>2. CASE ~HasRecord(Top.domain)
    <3> DEFINE k == Catcher(stack)
    <3>1. stack' = SubSeq(stack, 1, k - 1)
      BY <1>12, <2>2, ThrowsCuts DEF Fetch
    <3>2. k \in 1 .. Len(stack) /\ \A j \in DOMAIN stack : j > k => stack[j].via # "include"
      BY <1>5, <1>6, CatcherIs
    <3> HIDE DEF k
    <3>3. Clean(stack[k].domain)
      BY <1>5, <1>6, <1>7, <2>2, <3>2, NowhereIsClean
    <3> QED
      BY <1>10, <3>1, <3>2, <3>3
  <2> QED
    BY <2>1, <2>2
<1>13. ~FetchFails /\ ~TryFails
  BY <1>3, <1>4 DEF FetchFails, TryFails
<1>14. CASE Try
  <2>1. CASE Matches(Head(Top.todo))
    <3>1. stack' = <<>> /\ spf' = "allowed"
      BY <1>14, <2>1 DEF Try
    <3>2. DOMAIN <<>> = {}
      BY NoneSet, EmptySeq
    <3> QED
      BY <3>1, <3>2 DEF Progress
  <2>2. CASE ~Matches(Head(Top.todo))
    <3> DEFINE f == [Top EXCEPT !.todo = Tail(@)]
    <3>1. stack' = WithTop(f) /\ Top.fetched /\ Top.todo # <<>> /\ Head(Top.todo).kind \in Tried
      BY <1>14, <2>2 DEF Try, At, Tried
    <3>2. f.via = Top.via /\ f.domain = Top.domain /\ f.todo = Tail(Top.todo)
      BY <1>7, <3>1, TriedCall
    <3>3. ToSet(Top.todo) = {Head(Top.todo)} \cup ToSet(Tail(Top.todo))
      BY <1>7, <3>1, HeadSet DEF IsCall
    <3>4. Settled(Head(Top.todo))
      BY <2>2, <3>1 DEF Settled, Tried, Asked
    <3> HIDE DEF f
    <3>5. \A c \in ToSet(Policy(f.domain)) : c \in ToSet(f.todo) \/ Settled(c) \/ c \in {}
      BY <1>9, <3>1, <3>2, <3>3, <3>4
    <3> QED
      BY <1>11, <3>1, <3>2, <3>5
  <2> QED
    BY <2>1, <2>2
<1>15. CASE CallAgain
  <2> DEFINE c == Head(Top.todo)
             f == [Top EXCEPT !.todo = Tail(@)]
             g == Call(c.kind, c.arg)
             w == {Check(g.via, g.domain)}
  <2>1. /\ stack' = Append(WithTop(f), g) /\ Top.fetched /\ Top.todo # <<>>
        /\ c.kind \in Asked
    BY <1>15 DEF CallAgain, At, Asked
  <2>2. f.via = Top.via /\ f.domain = Top.domain /\ f.todo = Tail(Top.todo)
    BY <1>7, <2>1, TriedCall
  <2>3. ToSet(Top.todo) = {c} \cup ToSet(Tail(Top.todo))
    BY <1>7, <2>1, HeadSet DEF IsCall
  <2>4. Check(g.via, g.domain) = c /\ ~g.fetched
    BY <1>5, <1>7, <2>1, NewCall
  <2> HIDE DEF c, f, g
  <2>5. \A x \in ToSet(Policy(f.domain)) : x \in ToSet(f.todo) \/ Settled(x) \/ x \in w
    BY <1>9, <2>1, <2>2, <2>3, <2>4
  <2> HIDE DEF w
  <2>6. Progress(WithTop(f), w) /\ IsSeq(WithTop(f))
    BY <1>11, <2>2, <2>5
  <2>7. Progress(stack', {})
    BY <2>1, <2>4, <2>6, ProgressAdded DEF w
  <2>8. stack' # <<>>
    <3>1. Len(stack') = Len(WithTop(f)) + 1 /\ Len(WithTop(f)) \in Nat
      BY <2>1, <2>6, Added
    <3> QED
      BY <3>1, EmptySeq
  <2> QED
    BY <2>7, <2>8
<1>16. CASE StackOverflow
  BY <1>4, <1>6, <1>16 DEF StackOverflow
<1>17. CASE Nothing
  <2>1. stack' = SubSeq(stack, 1, Len(stack) - 1) /\ Top.fetched /\ Top.todo = <<>>
    BY <1>17 DEF Nothing, ReturnFalse, Front
  <2>2. \A c \in ToSet(Policy(Top.domain)) : Settled(c)
    BY <1>9, <2>1, NoneSet
  <2>3. Clean(Top.domain)
    BY <1>5, <1>7, <1>8, <2>1, <2>2, DoneIsClean DEF IsCall
  <2>4. Len(stack) \in 1 .. Len(stack)
    BY <1>7
  <2> QED
    BY <1>7, <1>10, <2>1, <2>3, <2>4
<1> QED
  BY <1>12, <1>13, <1>14, <1>15, <1>16, <1>17 DEF SpfStep

LEMMA DenyNext ==
    ASSUME ComparesExactly, ShapeInv, DenyInv, [CheckNext]_checkVars
    PROVE  DenyInv'
<1>1. lost' \in Nat /\ (lost' = 0 => lost = 0)
  BY DEF CheckNext, checkVars, spfVars, AskDmarc, AskSu, Check_SPF, JudgeSpf, JudgeDkim,
         JudgeThrows, JudgeSu, CheckEnded, SpfStep, Fetch, FetchFails, Try, TryFails,
         CallAgain, StackOverflow, Nothing, DenyInv
<1>2. CASE Starts
  <2>1. UNCHANGED <<zone, client, query>> /\ stack' = <<Call("query", query)>>
    BY <1>2 DEF Starts, Begin
  <2>2. DOMAIN stack' = {1} /\ stack'[1] = Call("query", query)
    BY <2>1, FirstCall DEF ShapeInv
  <2>3. Progress(stack', {})
    BY <2>2 DEF Progress, Call
  <2>4. stack' # <<>>
    <3>1. Len(stack') = 1
      BY <2>1, FirstCall DEF ShapeInv
    <3> QED
      BY <3>1, EmptySeq
  <2> QED
    BY <1>1, <2>1, <2>3, <2>4, StaticProgress DEF DenyInv
<1>3. CASE SpfStep
  BY <1>3, DenyStep
<1>4. CASE Judges
  <2>1. UNCHANGED <<zone, client, query>> /\ stack' = stack /\ lost' = lost /\ run' # "spf"
    BY <1>4 DEF Judges
  <2> QED
    BY <2>1, StaticProgress DEF DenyInv
<1>5. CASE UNCHANGED spfVars
  <2>1. UNCHANGED <<zone, client, query>> /\ UNCHANGED <<stack, lost, run, spf>>
    BY <1>5 DEF spfVars
  <2> QED
    BY <2>1, StaticProgress DEF DenyInv
<1> QED
  BY <1>2, <1>3, <1>4, <1>5, Steps

\* With all look-ups answered, a sender is not allowed only if nobody its domain hands
\* the decision to names it by address; circles make no difference to that.
THEOREM DenialsAreEarned == ComparesExactly /\ CheckSpec => []DenialIsEarned
<1> DEFINE Inv == ComparesExactly /\ ShapeInv /\ DenyInv
<1>1. ComparesExactly /\ CheckInit => Inv
  BY ShapeInit, DenyInit
<1>2. Inv /\ [CheckNext]_checkVars => Inv'
  <2> SUFFICES ASSUME ComparesExactly, ShapeInv, DenyInv, [CheckNext]_checkVars
               PROVE  ComparesExactly' /\ ShapeInv' /\ DenyInv'
    OBVIOUS
  <2>1. ShapeInv' /\ DenyInv'
    BY ShapeNext, DenyNext
  <2> QED
    BY <2>1 DEF ComparesExactly
<1>3. Inv => DenialIsEarned
  <2> SUFFICES ASSUME DenyInv, run = "spf", stack = <<>>, spf # "allowed", lost = 0
               PROVE  ~Reaches(LAMBDA d : Decides(d) /\ Listed(d))
    BY DEF DenialIsEarned
  <2>1. Clean(query)
    BY DEF DenyInv
  <2> QED
    BY <2>1 DEF Clean, Reaches
<1> QED
  BY <1>1, <1>2, <1>3, PTL DEF CheckSpec
=============================================================================
