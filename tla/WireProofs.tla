----------------------------- MODULE WireProofs -----------------------------
(* Theorems about Wire, for every set of commands and messages, every reply *)
(* and every cut of what is sent into pieces.  A reader is somewhere in one *)
(* text (Within).  At a command or a last line (Midway) each round of       *)
(* readToDelim either finds the end of it, all of it in sight, or stays     *)
(* short of it (Looks), whatever arrives meanwhile; at any other text the   *)
(* round may fail, and the sides that did are astray.  The two take turns,  *)
(* so that until then there is never another text (Turns).                  *)
EXTENDS Wire, OrderLemmas, SequenceTheorems, TLAPS

\* The beginning of a text and the rest of it.
LEMMA Parts ==
    ASSUME NEW S, NEW t \in Seq(S), NEW n \in Nat
    PROVE  /\ UpTo(t, n) \in Seq(S) /\ From(t, n + 1) \in Seq(S)
           /\ Len(UpTo(t, n)) = IF n < Len(t) THEN n ELSE Len(t)
           /\ \A i \in 1 .. Len(UpTo(t, n)) : UpTo(t, n)[i] = t[i]
           /\ UpTo(t, n) \o From(t, n + 1) = t
<1> DEFINE m == IF n < Len(t) THEN n ELSE Len(t)
<1>1. Len(t) \in Nat /\ m \in Nat /\ m <= Len(t) /\ m \in 0 .. Len(t)
  OBVIOUS
<1>2. \A i \in 1 .. Len(t) : t[i] \in S
  OBVIOUS
<1>3. UpTo(t, n) \in Seq(S) /\ Len(UpTo(t, n)) = m
      /\ \A i \in 1 .. m : UpTo(t, n)[i] = t[i]
  <2>1. \A i \in 1 .. m : t[i] \in S
    BY <1>1, <1>2
  <2> QED
    BY <1>1, <2>1, SubSeqProperties DEF UpTo
<1>4. From(t, n + 1) = SubSeq(t, m + 1, Len(t))
  <2>1. CASE n < Len(t)
    BY <2>1 DEF From
  <2>2. CASE ~ (n < Len(t))
    BY <1>1, <2>2, SubSeqEmpty DEF From
  <2> QED
    BY <2>1, <2>2
<1>5. From(t, n + 1) \in Seq(S)
  <2>1. \A i \in m + 1 .. Len(t) : t[i] \in S
    BY <1>1, <1>2
  <2>2. m + 1 \in Int /\ Len(t) \in Int
    BY <1>1
  <2> HIDE DEF m
  <2> QED
    BY <1>4, <2>1, <2>2, SubSeqProperties
<1>6. UpTo(t, n) \o From(t, n + 1) = t
  <2>1. UpTo(t, n) = SubSeq(t, 1, m)
    BY DEF UpTo
  <2>2. 1 \in 1 .. Len(t) + 1 /\ m \in 1 - 1 .. Len(t) /\ Len(t) \in m .. Len(t)
    BY <1>1
  <2> HIDE DEF m
  <2> QED
    BY <1>4, <2>1, <2>2, ConcatAdjacentSubSeq, SubSeqFull
<1> QED
  BY <1>3, <1>5, <1>6

\* A part occurs in a text at a place.
Occurs(text, part, i) == \A j \in 1 .. Len(part) : text[i + j - 1] = part[j]

\* A part occurs where Find looks for it.
LEMMA PositionsOccur ==
    ASSUME NEW S, NEW t \in Seq(S), NEW p \in Seq(S)
    PROVE  \A i : i \in Positions(t, p) <=> i \in 1 .. Len(t) - Len(p) + 1 /\ Occurs(t, p, i)
<1> SUFFICES ASSUME NEW i \in 1 .. Len(t) - Len(p) + 1
             PROVE  SubSeq(t, i, i + Len(p) - 1) = p <=> Occurs(t, p, i)
  BY DEF Positions
<1> DEFINE s == SubSeq(t, i, i + Len(p) - 1)
<1>1. Len(t) \in Nat /\ Len(p) \in Nat /\ i \in Int /\ i + Len(p) - 1 \in Int
      /\ i >= 1 /\ i + Len(p) - 1 <= Len(t)
  OBVIOUS
<1>2. \A j \in i .. i + Len(p) - 1 : t[j] \in S
  BY <1>1
<1>3. s \in Seq(S) /\ Len(s) = Len(p) /\ \A j \in 1 .. Len(p) : s[j] = t[i + j - 1]
  BY <1>1, <1>2, SubSeqProperties
<1> HIDE DEF s
<1>4. s = p <=> \A j \in 1 .. Len(p) : s[j] = p[j]
  BY <1>3, SeqEqual
<1> QED
  BY <1>3, <1>4 DEF Occurs, s

\* find returns the first place, if there is one.
LEMMA FindsFirst ==
    ASSUME NEW S, NEW t \in Seq(S), NEW p \in Seq(S)
    PROVE  IF \E i \in 1 .. Len(t) - Len(p) + 1 : Occurs(t, p, i)
           THEN /\ Find(t, p) \in 1 .. Len(t) - Len(p) + 1
                /\ Occurs(t, p, Find(t, p))
                /\ \A i \in 1 .. Len(t) - Len(p) + 1 : Occurs(t, p, i) => Find(t, p) <= i
           ELSE Find(t, p) = NotFound
<1> DEFINE places == Positions(t, p)
<1>1. \A i : i \in places <=> i \in 1 .. Len(t) - Len(p) + 1 /\ Occurs(t, p, i)
  BY PositionsOccur
<1>2. places \in SUBSET Nat
  BY <1>1
<1>3. Find(t, p) = IF places = {} THEN NotFound
                   ELSE CHOOSE i \in places : \A j \in places : i <= j
  BY DEF Find
<1> HIDE DEF places
<1>4. CASE places = {}
  BY <1>1, <1>3, <1>4
<1>5. CASE places # {}
  <2>1. \E i \in places : \A j \in places : i <= j
    BY <1>2, <1>5, MinOfNaturals
  <2>2. Find(t, p) \in places /\ \A j \in places : Find(t, p) <= j
    BY <1>3, <1>5, <2>1
  <2> QED
    BY <1>1, <1>5, <2>2
<1> QED
  BY <1>4, <1>5

\* A window shows what there is of a text and its delimiter from some place on.
Shows(window, start, text, delim) ==
    \A i \in 1 .. Len(window) :
        start + i <= Len(text) + Len(delim) => window[i] = (text \o delim)[start + i]

\* If the window starts no later than the delimiter, the delimiter is found when the
\* window reaches to its end.
LEMMA Window ==
    ASSUME NEW S, NEW text \in Seq(S), NEW delim \in Seq(S),
           delim # <<>>, Delimits(delim, text),
           NEW sight \in Seq(S), NEW start \in Nat, start <= Len(text),
           Shows(sight, start, text, delim)
    PROVE  Find(sight, delim) = IF Len(text) + Len(delim) <= start + Len(sight)
                               THEN Len(text) + 1 - start ELSE NotFound
<1> DEFINE n == Len(text)
           d == Len(delim)
           w == Len(sight)
           plain == text \o delim
<1>1. n \in Nat /\ d \in Nat /\ w \in Nat /\ d > 0
  OBVIOUS
<1>2. plain \in Seq(S) /\ Len(plain) = n + d
  BY ConcatProperties
<1>3. \A i \in 1 .. w : start + i <= n + d => sight[i] = plain[start + i]
  BY DEF Shows
<1>4. Find(plain, delim) = n + 1
  BY DEF Delimits
<1> HIDE DEF plain
<1>5. n + 1 # NotFound
  BY <1>1 DEF NotFound
<1>6. Occurs(plain, delim, n + 1)
      /\ \A i \in 1 .. n + 1 : Occurs(plain, delim, i) => n + 1 <= i
  <2>1. Len(plain) - d + 1 = n + 1
    BY <1>1, <1>2
  <2> QED
    BY <1>2, <1>4, <1>5, <2>1, FindsFirst
<1>7. \A i \in 1 .. w - d + 1 : i + start <= n + 1 =>
         (Occurs(sight, delim, i) <=> Occurs(plain, delim, i + start))
  <2> SUFFICES ASSUME NEW i \in 1 .. w - d + 1, i + start <= n + 1, NEW j \in 1 .. d
               PROVE  sight[i + j - 1] = plain[i + start + j - 1]
    BY DEF Occurs
  <2>1. /\ i + j - 1 \in 1 .. w /\ i + start + j - 1 \in 1 .. n + d
        /\ start + (i + j - 1) = i + start + j - 1
    BY <1>1
  <2> QED
    BY <1>3, <2>1
<1>8. CASE n + d <= start + w
  <2>1. n + 1 - start \in 1 .. w - d + 1 /\ (n + 1 - start) + start = n + 1
    BY <1>1, <1>8
  <2>2. Occurs(sight, delim, n + 1 - start)
    BY <1>1, <1>6, <1>7, <2>1, SMTT(30)
  <2>3. \A i \in 1 .. w - d + 1 : Occurs(sight, delim, i) => n + 1 - start <= i
    <3> SUFFICES ASSUME NEW i \in 1 .. w - d + 1, Occurs(sight, delim, i), i < n + 1 - start
                 PROVE  FALSE
      BY <1>1
    <3>1. i + start \in 1 .. n + 1 /\ i + start <= n + 1 /\ i + start < n + 1
      BY <1>1
    <3> QED
      BY <1>1, <1>6, <1>7, <3>1
  <2>4. Find(sight, delim) \in 1 .. w - d + 1
        /\ Find(sight, delim) <= n + 1 - start /\ n + 1 - start <= Find(sight, delim)
    BY <2>1, <2>2, <2>3, FindsFirst
  <2> QED
    BY <1>1, <1>8, <2>4
<1>9. CASE ~ (n + d <= start + w)
  <2>1. \A i \in 1 .. w - d + 1 : ~ Occurs(sight, delim, i)
    <3> SUFFICES ASSUME NEW i \in 1 .. w - d + 1, Occurs(sight, delim, i)
                 PROVE  FALSE
      OBVIOUS
    <3>1. i + start \in 1 .. n + 1 /\ i + start <= n + 1 /\ i + start < n + 1
      BY <1>1, <1>9
    <3> QED
      BY <1>1, <1>6, <1>7, <3>1
  <2> QED
    BY <1>9, <2>1, FindsFirst
<1> QED
  BY <1>8, <1>9

\* Three texts in a row.
LEMMA InARow ==
    ASSUME NEW S, NEW s \in Seq(S), NEW t \in Seq(S), NEW u \in Seq(S)
    PROVE  /\ s \o (t \o u) \in Seq(S)
           /\ Len(s \o (t \o u)) = Len(s) + Len(t) + Len(u)
           /\ \A i \in 1 .. Len(s) + Len(t) + Len(u) :
                 (s \o (t \o u))[i] = IF i <= Len(s) THEN s[i]
                                      ELSE IF i <= Len(s) + Len(t) THEN t[i - Len(s)]
                                      ELSE u[i - Len(s) - Len(t)]
<1> DEFINE v == t \o u
<1>1. /\ v \in Seq(S) /\ Len(v) = Len(t) + Len(u)
      /\ \A i \in 1 .. Len(t) + Len(u) : v[i] = IF i <= Len(t) THEN t[i] ELSE u[i - Len(t)]
  BY ConcatProperties
<1> HIDE DEF v
<1>2. /\ s \o v \in Seq(S) /\ Len(s \o v) = Len(s) + Len(v)
      /\ \A i \in 1 .. Len(s) + Len(v) : (s \o v)[i] = IF i <= Len(s) THEN s[i] ELSE v[i - Len(s)]
  <2>1. v \in Seq(S)
    BY <1>1
  <2> QED
    BY <2>1, ConcatProperties
<1>3. Len(s) \in Nat /\ Len(t) \in Nat /\ Len(u) \in Nat
  BY LenProperties
<1>4. ASSUME NEW i \in 1 .. Len(s) + Len(t) + Len(u)
      PROVE  (s \o v)[i] = IF i <= Len(s) THEN s[i]
                           ELSE IF i <= Len(s) + Len(t) THEN t[i - Len(s)]
                           ELSE u[i - Len(s) - Len(t)]
  <2>1. i \in 1 .. Len(s) + Len(v)
    BY <1>1, <1>3
  <2>2. ~ (i <= Len(s)) => i - Len(s) \in 1 .. Len(t) + Len(u)
    BY <1>3
  <2>3. i - Len(s) <= Len(t) <=> i <= Len(s) + Len(t)
    BY <1>3
  <2> QED
    BY <1>1, <1>2, <2>1, <2>2, <2>3
<1> QED
  BY <1>1, <1>2, <1>3, <1>4 DEF v

\* The end of a text.
LEMMA End ==
    ASSUME NEW S, NEW t \in Seq(S), NEW d \in Nat, d <= Len(t)
    PROVE  /\ From(t, Len(t) - d + 1) \in Seq(S) /\ Len(From(t, Len(t) - d + 1)) = d
           /\ \A i \in 1 .. d : From(t, Len(t) - d + 1)[i] = t[Len(t) - d + i]
<1> DEFINE m == Len(t) - d + 1
           n == Len(t)
<1>1. n \in Nat /\ m \in Int /\ n \in Int /\ m >= 1 /\ n - m + 1 = d /\ m <= n + 1
  BY LenProperties
<1>2. \A i \in m .. n : t[i] \in S
  BY <1>1
<1>3. From(t, m) = SubSeq(t, m, n)
  BY DEF From
<1>4. \A i \in 1 .. d : m + i - 1 = n - d + i
  BY <1>1
<1>5. m <= n \/ d = 0
  BY <1>1
<1> HIDE DEF m, n
<1>6. /\ SubSeq(t, m, n) \in Seq(S) /\ Len(SubSeq(t, m, n)) = IF m <= n THEN n - m + 1 ELSE 0
      /\ \A i \in 1 .. n - m + 1 : SubSeq(t, m, n)[i] = t[m + i - 1]
  BY <1>1, <1>2, SubSeqProperties
<1>7. Len(SubSeq(t, m, n)) = d
  BY <1>1, <1>5, <1>6
<1> QED
  BY <1>1, <1>3, <1>4, <1>6, <1>7 DEF m, n

\* A reader that has collected r of a text and its delimiter, with a in its socket and f
\* on its way.
Sight(S, text, delim, more, r, a, f) ==
    /\ text \in Seq(S) /\ delim \in Seq(S) /\ more \in Seq(S)
    /\ r \in Seq(S) /\ a \in Seq(S) /\ f \in Seq(S)
    /\ delim # <<>> /\ Ends(delim, text)
    /\ r \o (a \o f) = text \o (delim \o more)
    /\ Len(r) < Len(text) + Len(delim)
    /\ more = <<>> \/ (Len(r) <= Len(delim) /\ f = <<>>)

\* What a round of readToDelim sees and is about to take, for a text of which less
\* than the whole is in the result: the text and its delimiter, all of it there; or
\* no delimiter, and then less than the whole is in sight.
LEMMA Looks ==
    ASSUME NEW S, NEW text, NEW delim, NEW more, NEW r, NEW a, NEW f,
           Sight(S, text, delim, more, r, a, f)
    PROVE  LET before == IF Len(r) > Len(delim) THEN From(r, Len(r) - Len(delim) + 1) ELSE <<>>
               seen == UpTo(a, Len(delim) + Room)
               index == Find(before \o seen, delim)
           IN IF index # NotFound
              THEN /\ f = <<>> /\ index - 1 + Len(delim) \in Nat /\ index - 1 + Len(delim) > 0
                   /\ r \o UpTo(a, index - 1 + Len(delim)) = text \o delim
              ELSE Len(r) + Len(seen) < Len(text) + Len(delim)
<1> /\ text \in Seq(S) /\ delim \in Seq(S) /\ more \in Seq(S)
    /\ r \in Seq(S) /\ a \in Seq(S) /\ f \in Seq(S)
  BY DEF Sight
<1> DEFINE n == Len(text)
           d == Len(delim)
           lr == Len(r)
           la == Len(a)
           lf == Len(f)
           lm == Len(more)
           before == IF lr > d THEN From(r, lr - d + 1) ELSE <<>>
           seen == UpTo(a, d + Room)
           window == before \o seen
           index == Find(window, delim)
           all == text \o (delim \o more)
           b == Len(before)
           ls == Len(seen)
           off == lr - b
<1>1. /\ n \in Nat /\ d \in Nat /\ lr \in Nat /\ la \in Nat /\ lf \in Nat /\ lm \in Nat
      /\ Room \in Nat /\ d + Room \in Nat
  BY LenProperties, WireConstants
<1>2. /\ all \in Seq(S) /\ Len(all) = n + d + lm
      /\ text \o delim \in Seq(S) /\ Len(text \o delim) = n + d
      /\ \A i \in 1 .. n + d : all[i] = (text \o delim)[i]
  <2>1. /\ all \in Seq(S) /\ Len(all) = n + d + lm
        /\ \A i \in 1 .. n + d + lm : all[i] = IF i <= n THEN text[i]
                                      ELSE IF i <= n + d THEN delim[i - n]
                                      ELSE more[i - n - d]
    BY InARow
  <2>2. /\ text \o delim \in Seq(S) /\ Len(text \o delim) = n + d
        /\ \A i \in 1 .. n + d : (text \o delim)[i] = IF i <= n THEN text[i] ELSE delim[i - n]
    BY ConcatProperties
  <2> HIDE DEF all, n, d, lm
  <2> QED
    BY <1>1, <2>1, <2>2, SMTT(30)
<1>3. /\ r \o (a \o f) \in Seq(S) /\ Len(r \o (a \o f)) = lr + la + lf
      /\ \A i \in 1 .. lr + la + lf :
            (r \o (a \o f))[i] = IF i <= lr THEN r[i] ELSE IF i <= lr + la THEN a[i - lr]
                                 ELSE f[i - lr - la]
  BY InARow
<1>4. /\ before \in Seq(S) /\ b \in {0, d} /\ b \in Nat /\ b <= lr
      /\ (b = d => d = 0 \/ d < lr) /\ (b = 0 => d = 0 \/ lr <= d)
      /\ off \in Nat
      /\ \A i \in 1 .. b : before[i] = r[off + i]
  <2>1. CASE lr > d
    <3>1. before = From(r, lr - d + 1)
      BY <2>1
    <3>2. d <= lr
      BY <1>1, <2>1
    <3>3. before \in Seq(S) /\ b = d /\ \A i \in 1 .. d : before[i] = r[lr - d + i]
      BY <1>1, <3>1, <3>2, End
    <3> HIDE DEF before, n, d, lr
    <3> QED
      BY <1>1, <2>1, <3>3
  <2>2. CASE ~ (lr > d)
    <3>1. before = <<>> /\ b = 0
      BY <2>2
    <3> HIDE DEF n, d, lr, b, before
    <3> QED
      BY <1>1, <2>2, <3>1
  <2> QED
    BY <2>1, <2>2
<1>5. /\ seen \in Seq(S) /\ ls \in Nat /\ ls <= la /\ ls = IF d + Room < la THEN d + Room ELSE la
      /\ \A i \in 1 .. ls : seen[i] = a[i]
  <2>1. /\ seen \in Seq(S) /\ ls = IF d + Room < la THEN d + Room ELSE la
        /\ \A i \in 1 .. ls : seen[i] = a[i]
    BY <1>1, Parts
  <2> HIDE DEF seen, la, ls, d
  <2> QED
    BY <1>1, <2>1
<1>6. /\ window \in Seq(S) /\ Len(window) = b + ls
      /\ \A i \in 1 .. b + ls : window[i] = IF i <= b THEN before[i] ELSE seen[i - b]
  <2>1. before \in Seq(S) /\ seen \in Seq(S)
    BY <1>4, <1>5
  <2> HIDE DEF before, seen
  <2> QED
    BY <2>1, ConcatProperties
<1>a. /\ delim # <<>> /\ Ends(delim, text) /\ r \o (a \o f) = all /\ lr < n + d
      /\ more = <<>> \/ (before = <<>> /\ f = <<>>)
  <2>1. Len(r) <= Len(delim) => before = <<>>
    BY <1>1
  <2> QED
    BY <2>1 DEF Sight
<1>7. ASSUME delim # <<>>, Ends(delim, text), r \o (a \o f) = all, lr < n + d,
             more = <<>> \/ (before = <<>> /\ f = <<>>)
      PROVE  IF index # NotFound
             THEN /\ f = <<>> /\ index - 1 + d \in Nat /\ index - 1 + d > 0
                  /\ r \o UpTo(a, index - 1 + d) = text \o delim
             ELSE lr + ls < n + d
  <2>1. d > 0 /\ d <= n /\ Delimits(delim, text) /\ lr + la + lf = n + d + lm
    <3>1. d # 0
      BY <1>7
    <3>2. d <= n /\ Delimits(delim, text)
      BY <1>1, <1>7 DEF Ends
    <3>3. lr + la + lf = n + d + lm
      BY <1>2, <1>3, <1>7
    <3> HIDE DEF n, d
    <3> QED
      BY <1>1, <3>1, <3>2, <3>3
  <2>2. (more = <<>> => lm = 0) /\ (before = <<>> => b = 0) /\ (f = <<>> <=> lf = 0)
    BY EmptySeq
  <2>3. lm = 0 \/ (b = 0 /\ lf = 0)
    BY <1>7, <2>2
  <2>4. \A i \in 1 .. lr + la + lf :
            all[i] = IF i <= lr THEN r[i] ELSE IF i <= lr + la THEN a[i - lr]
                                 ELSE f[i - lr - la]
    BY <1>3, <1>7
  <2> HIDE DEF all, window, index, n, d, lr, la, lf, lm, before, seen, b, ls
  <2>0. /\ b \in Nat /\ b <= lr /\ off \in Nat /\ off = lr - b
        /\ ls \in Nat /\ ls <= la /\ ls = IF d + Room < la THEN d + Room ELSE la
    BY <1>4, <1>5
  <2>5. off <= n /\ off + (b + ls) = lr + ls /\ off + (b + ls) <= n + d + lm
    <3>1. b = d \/ (b = 0 /\ lr <= d)
      BY <1>1, <1>4, <2>1
    <3>2. lr < n + d
      BY <1>7
    <3> QED
      BY <1>1, <2>0, <2>1, <3>1, <3>2
  <2>6. \A i \in 1 .. b + ls : window[i] = all[off + i]
    <3> SUFFICES ASSUME NEW i \in 1 .. b + ls
                 PROVE  window[i] = all[off + i]
      OBVIOUS
    <3>1. off + i \in 1 .. lr + la + lf
      BY <1>1, <2>0
    <3>2. CASE i <= b
      <4>1. off + i <= lr /\ i \in 1 .. b
        BY <1>1, <1>4, <3>2
      <4> QED
        BY <1>4, <1>6, <2>4, <3>1, <3>2, <4>1
    <3>3. CASE ~ (i <= b)
      <4>1. /\ ~ (off + i <= lr) /\ off + i <= lr + la
            /\ (off + i) - lr = i - b /\ i - b \in 1 .. ls
        BY <1>1, <2>0, <3>3
      <4> HIDE DEF off
      <4>2. window[i] = seen[i - b]
        BY <1>6, <3>3
      <4>3. all[off + i] = a[(off + i) - lr]
        <5> DEFINE j == off + i
        <5>1. j \in 1 .. lr + la + lf /\ ~ (j <= lr) /\ j <= lr + la
          BY <3>1, <4>1
        <5> HIDE DEF j
        <5>2. all[j] = a[j - lr]
          BY <2>4, <5>1
        <5> QED
          BY <5>2 DEF j
      <4>4. seen[i - b] = a[i - b]
        BY <1>5, <4>1
      <4> QED
        BY <4>1, <4>2, <4>3, <4>4
    <3> QED
      BY <3>2, <3>3
  <2>7. index = IF n + d <= lr + ls THEN n + 1 - off ELSE NotFound
    <3> HIDE DEF off
    <3>1. index = IF n + d <= off + (b + ls) THEN n + 1 - off ELSE NotFound
      <4>1. /\ window \in Seq(S) /\ off \in Nat /\ Len(window) = b + ls
            /\ off <= n
            /\ \A i \in 1 .. Len(window) :
                  off + i <= n + d => window[i] = (text \o delim)[off + i]
        <5>1. ASSUME NEW i \in 1 .. b + ls, off + i <= n + d
              PROVE  window[i] = (text \o delim)[off + i]
          <6>1. off + i \in 1 .. n + d
            BY <1>1, <2>0, <5>1
          <6> QED
            BY <1>2, <2>6, <6>1
        <5> QED
          BY <1>6, <2>0, <2>5, <5>1
      <4>2. delim # <<>> /\ Delimits(delim, text)
        BY <1>7, <2>1
      <4>3. off <= Len(text) /\ Shows(window, off, text, delim)
        BY <4>1 DEF n, d, Shows
      <4>4. /\ window \in Seq(S) /\ off \in Nat
        BY <4>1
      <4>5. Find(window, delim) = IF Len(text) + Len(delim) <= off + Len(window)
                                  THEN Len(text) + 1 - off ELSE NotFound
        BY <4>2, <4>3, <4>4, Window
      <4> QED
        BY <4>1, <4>5 DEF index, n, d
    <3> QED
      BY <2>5, <3>1
  <2>8. CASE n + d <= lr + ls
    <3> DEFINE wants == index - 1 + d
               u == UpTo(a, wants)
               taken == r \o u
    <3>1. wants = n + d - off /\ wants \in Nat /\ wants > 0 /\ index # NotFound
      <4> HIDE DEF off
      <4>1. index = n + 1 - off
        BY <2>7, <2>8
      <4> QED
        BY <1>1, <2>0, <2>1, <2>5, <4>1 DEF NotFound
    <3>2. lf = 0
      BY <1>1, <2>0, <2>1, <2>3, <2>8
    <3> HIDE DEF wants
    <3>3. u \in Seq(S) /\ Len(u) = (IF wants < la THEN wants ELSE la)
          /\ \A i \in 1 .. Len(u) : u[i] = a[i]
      BY <3>1, Parts DEF la
    <3> HIDE DEF u
    <3>4. Len(u) = n + d - lr
      BY <1>1, <2>0, <2>1, <2>3, <2>8, <3>1, <3>2, <3>3
    <3>5. taken \in Seq(S) /\ Len(taken) = n + d
          /\ \A i \in 1 .. n + d : taken[i] = IF i <= lr THEN r[i] ELSE u[i - lr]
      <4>1. taken \in Seq(S) /\ Len(taken) = lr + Len(u)
            /\ \A i \in 1 .. lr + Len(u) : taken[i] = IF i <= lr THEN r[i] ELSE u[i - lr]
        BY <3>3, ConcatProperties DEF lr
      <4>2. lr + Len(u) = n + d
        BY <1>1, <3>4
      <4> QED
        BY <4>1, <4>2
    <3> HIDE DEF taken
    <3>6. ASSUME NEW i \in 1 .. n + d
          PROVE  taken[i] = all[i]
      <4>1. i \in 1 .. lr + la + lf
        BY <1>1, <2>1
      <4>2. ~ (i <= lr) => i - lr \in 1 .. Len(u) /\ i <= lr + la
        <5>1. Len(u) <= la
          BY <1>1, <3>1, <3>3, SMTT(30)
        <5> QED
          BY <1>1, <2>1, <3>4, <5>1
      <4> QED
        BY <2>4, <3>3, <3>5, <4>1, <4>2
    <3>7. taken = text \o delim
      BY <1>2, <3>5, <3>6, SeqEqual
    <3> QED
      BY <2>2, <3>1, <3>2, <3>7 DEF taken, u, wants
  <2>9. CASE ~ (n + d <= lr + ls)
    BY <1>1, <2>0, <2>7, <2>9
  <2> QED
    BY <2>8, <2>9
<1> QED
  BY <1>7, <1>a

-----------------------------------------------------------------------------
(* What FlattenSeq returns *)

\* The texts up to each, one after the other.
Joins(g, s, n) == g = [i \in 1 .. n |-> IF i = 1 THEN s[i] ELSE g[i - 1] \o s[i]]

\* FlattenSeq is a function that joins the texts from left to right. What it joins is
\* text: by the least place where it is not.
LEMMA JoinsAreTexts ==
    ASSUME NEW S, NEW s \in Seq(Seq(S)), NEW n \in 0 .. Len(s), NEW g, Joins(g, s, n)
    PROVE  \A i \in 1 .. n : g[i] \in Seq(S)
<1> DEFINE bad == {i \in Nat : i \in 1 .. n /\ g[i] \notin Seq(S)}
           i == Min(bad)
<1> SUFFICES ASSUME bad # {}
             PROVE  FALSE
  OBVIOUS
<1>1. i \in bad /\ \A j \in bad : i <= j
  <2>1. bad \in SUBSET Nat
    OBVIOUS
  <2> HIDE DEF bad
  <2> QED
    BY <2>1, MinOfNaturals
<1> HIDE DEF i
<1>2. i \in 1 .. n /\ g[i] \notin Seq(S) /\ i \in Nat /\ i \in 1 .. Len(s)
  BY <1>1
<1>3. g[i] = IF i = 1 THEN s[i] ELSE g[i - 1] \o s[i]
  BY <1>2 DEF Joins
<1>4. s[i] \in Seq(S)
  BY <1>2, ElementOfSeq
<1>5. CASE i = 1
  BY <1>2, <1>3, <1>4, <1>5
<1>6. CASE i # 1
  <2>1. i - 1 \in 1 .. n /\ i - 1 \in Nat /\ ~ (i <= i - 1)
    BY <1>2, <1>6
  <2>2. g[i - 1] \in Seq(S)
    BY <1>1, <2>1
  <2> QED
    BY <1>2, <1>3, <1>4, <1>6, <2>2, ConcatProperties
<1> QED
  BY <1>5, <1>6

\* There is such a function: by the least length without one.
LEMMA JoinsExist ==
    ASSUME NEW s, NEW n \in Nat
    PROVE  \E g : Joins(g, s, n)
<1> DEFINE bad == {m \in Nat : ~ \E g : Joins(g, s, m)}
           m == Min(bad)
<1> SUFFICES ASSUME bad # {}
             PROVE  FALSE
  OBVIOUS
<1>1. m \in bad /\ \A j \in bad : m <= j
  <2>1. bad \in SUBSET Nat
    OBVIOUS
  <2> HIDE DEF bad
  <2> QED
    BY <2>1, MinOfNaturals
<1> HIDE DEF m
<1>2. m \in Nat /\ ~ \E g : Joins(g, s, m)
  BY <1>1
<1>3. m # 0
  <2>1. Joins([i \in 1 .. 0 |-> 0], s, 0)
    BY DEF Joins
  <2> QED
    BY <1>2, <2>1
<1>4. m - 1 \in Nat /\ ~ (m <= m - 1)
  BY <1>2, <1>3
<1>5. PICK g : Joins(g, s, m - 1)
  BY <1>1, <1>4
<1> DEFINE h == [i \in 1 .. m |-> IF i < m THEN g[i] ELSE IF m = 1 THEN s[m] ELSE g[m - 1] \o s[m]]
<1>6. \A i \in 1 .. m : i < m => i \in 1 .. m - 1 /\ (i # 1 => i - 1 \in 1 .. m /\ i - 1 < m)
  BY <1>2
<1>7. m # 1 => m - 1 \in 1 .. m /\ m - 1 < m
  BY <1>2, <1>3
<1>8. ASSUME NEW i \in 1 .. m
      PROVE  h[i] = IF i = 1 THEN s[i] ELSE h[i - 1] \o s[i]
  <2>1. CASE i < m
    <3>1. h[i] = g[i]
      BY <2>1
    <3>2. g[i] = IF i = 1 THEN s[i] ELSE g[i - 1] \o s[i]
      BY <1>5, <1>6, <2>1 DEF Joins
    <3>3. i # 1 => h[i - 1] = g[i - 1]
      BY <1>6, <2>1
    <3> HIDE DEF h
    <3> QED
      BY <3>1, <3>2, <3>3
  <2>2. CASE ~ (i < m)
    <3>1. i = m
      BY <1>2, <2>2
    <3>2. h[m] = IF m = 1 THEN s[m] ELSE g[m - 1] \o s[m]
      BY <2>2, <3>1
    <3>3. m # 1 => h[m - 1] = g[m - 1]
      BY <1>7
    <3> HIDE DEF h
    <3> QED
      BY <3>1, <3>2, <3>3
  <2> QED
    BY <2>1, <2>2
<1>9. h = [i \in 1 .. m |-> h[i]]
  OBVIOUS
<1> HIDE DEF h
<1>10. Joins(h, s, m)
  BY <1>8, <1>9, Zenon DEF Joins
<1> QED
  BY <1>2, <1>10

\* Two of them agree as far as the texts do: by the least place where they differ.
LEMMA JoinsAgree ==
    ASSUME NEW s, NEW t, NEW m \in Nat, NEW n \in Nat, m <= n,
           \A i \in 1 .. m : s[i] = t[i],
           NEW g, Joins(g, s, m), NEW h, Joins(h, t, n)
    PROVE  \A i \in 1 .. m : g[i] = h[i]
<1> DEFINE bad == {i \in Nat : i \in 1 .. m /\ g[i] # h[i]}
           i == Min(bad)
<1> SUFFICES ASSUME bad # {}
             PROVE  FALSE
  OBVIOUS
<1>1. i \in bad /\ \A j \in bad : i <= j
  <2>1. bad \in SUBSET Nat
    OBVIOUS
  <2> HIDE DEF bad
  <2> QED
    BY <2>1, MinOfNaturals
<1> HIDE DEF i
<1>2. i \in Nat /\ i \in 1 .. m /\ i \in 1 .. n /\ 1 \in 1 .. m /\ g[i] # h[i]
  BY <1>1
<1>3. /\ g[i] = IF i = 1 THEN s[i] ELSE g[i - 1] \o s[i]
      /\ h[i] = IF i = 1 THEN t[i] ELSE h[i - 1] \o t[i]
  BY <1>2 DEF Joins
<1>4. i # 1
  BY <1>2, <1>3
<1>5. i - 1 \in Nat /\ i - 1 \in 1 .. m /\ ~ (i <= i - 1)
  BY <1>2, <1>4
<1>6. g[i - 1] = h[i - 1]
  BY <1>1, <1>5
<1> QED
  BY <1>2, <1>3, <1>4, <1>6

\* FlattenSeq returns what one of them has at the end.
LEMMA FlattenJoins ==
    ASSUME NEW S, NEW s \in Seq(S), s # <<>>
    PROVE  \E g : Joins(g, s, Len(s)) /\ FlattenSeq(s) = g[Len(s)]
<1> DEFINE n == Len(s)
           flatten == CHOOSE g : Joins(g, s, n)
<1>1. n \in Nat /\ n # 0
  BY EmptySeq
<1>2. FlattenSeq(s) = flatten[n]
  BY <1>1 DEF FlattenSeq, Joins
<1>3. \E g : Joins(g, s, n)
  BY <1>1, JoinsExist
<1>4. Joins(flatten, s, n)
  BY <1>3
<1> HIDE DEF flatten
<1> QED
  BY <1>2, <1>4

-----------------------------------------------------------------------------
(* Texts.  The provers do not know that a string written out is a string, *)
(* so a byte is a string or one of those that Wire writes out.             *)

Digits == {"0", "1", "2", "3", "4", "5", "6"}
Literals ==
    Digits \cup DOMAIN Code
    \cup {"CR", "LF", ".", ":", " ", "-", ",", "+", "OK", "ERR", "text", "6.x.x", "2.x.x", "5.x.x",
          "node", "ESMTP", "ready", "domain", "service", "fsmtp"}
    \cup {"he", "lo", "eh", "lp", "start", "tls", "s", "u", "mail", "from", "rcpt", "to", "da",
          "ta", "qu", "it", "au", "th", "f", "capa"}
    \cup {"top", "st", "ls", "at", "us", "er", "ui", "dl", "pa", "ss", "li", "re", "tr", "rs", "et",
          "de", "le", "quit", "implemen", "tation"}
Byte == STRING \cup Literals
ByteSeq == Seq(Byte)

\* The texts of the constants are texts here.
LEMMA BytesAreByteSeq == Bytes \subseteq ByteSeq /\ Seq(Bytes) \subseteq Seq(ByteSeq)
<1>1. STRING \subseteq Byte
  BY DEF Byte
<1>2. Bytes \subseteq ByteSeq
  BY <1>1, SeqMonotonic DEF Bytes, ByteSeq
<1> HIDE DEF Bytes, ByteSeq
<1> QED
  BY <1>2, SeqMonotonic

\* Joining texts.
LEMMA Joined ==
    ASSUME NEW s \in ByteSeq, NEW t \in ByteSeq
    PROVE  s \o t \in ByteSeq /\ Len(s \o t) = Len(s) + Len(t)
BY ConcatProperties DEF ByteSeq

LEMMA JoinedInOrder ==
    ASSUME NEW s \in ByteSeq, NEW t \in ByteSeq, NEW u \in ByteSeq
    PROVE  (s \o t) \o u = s \o (t \o u)
BY ConcatAssociative DEF ByteSeq

LEMMA JoinedWithNothing ==
    /\ <<>> \in ByteSeq
    /\ \A s \in ByteSeq : s \o <<>> = s /\ <<>> \o s = s
    /\ \A s, t \in ByteSeq : s \o t = <<>> => s = <<>> /\ t = <<>>
BY EmptySeq, ConcatEmptySeq, ConcatSimplifications DEF ByteSeq

LEMMA SameRest ==
    ASSUME NEW s \in ByteSeq, NEW t \in ByteSeq, NEW u \in ByteSeq, s \o t = s \o u
    PROVE  t = u
BY ConcatSimplifications DEF ByteSeq

LEMMA ShortTexts ==
    ASSUME NEW S, NEW a \in S, NEW b \in S, NEW c \in S, NEW d \in S, NEW e \in S
    PROVE  /\ <<>> \in Seq(S) /\ <<a>> \in Seq(S) /\ <<a, b>> \in Seq(S)
           /\ <<a, b, c>> \in Seq(S) /\ <<a, b, c, d>> \in Seq(S) /\ <<a, b, c, d, e>> \in Seq(S)
           /\ Len(<<a>>) = 1 /\ Len(<<a, b>>) = 2 /\ Len(<<a, b, c>>) = 3
OBVIOUS

\* The delimiters.
LEMMA CrlfIsText == Crlf \in ByteSeq /\ Len(Crlf) = 2 /\ Crlf # <<>>
<1>1. "CR" \in Byte /\ "LF" \in Byte
  BY DEF Byte, Literals
<1>2. <<"CR", "LF">> \in Seq(Byte) /\ Len(<<"CR", "LF">>) = 2
  BY <1>1, ShortTexts
<1> QED
  BY <1>2, EmptySeq DEF Crlf, ByteSeq

LEMMA EndOfDataIsText == EndOfData \in ByteSeq /\ Len(EndOfData) = 5 /\ EndOfData # <<>>
<1>1. "." \in Byte
  BY DEF Byte, Literals
<1>2. <<".">> \in Seq(Byte) /\ Len(<<".">>) = 1
  BY <1>1, ShortTexts
<1>3. <<".">> \in ByteSeq
  BY <1>2 DEF ByteSeq
<1> DEFINE dot == <<".">>
<1>4. dot \in ByteSeq /\ Len(dot) = 1
  BY <1>2, <1>3
<1> HIDE DEF dot
<1>5. Crlf \o dot \in ByteSeq /\ Len(Crlf \o dot) = 3
  <2>1. Crlf \in ByteSeq /\ dot \in ByteSeq
    BY <1>4, CrlfIsText
  <2>2. Crlf \o dot \in ByteSeq /\ Len(Crlf \o dot) = Len(Crlf) + Len(dot)
    BY <2>1, Joined
  <2> QED
    BY <1>4, <2>2, CrlfIsText
<1>6. EndOfData \in ByteSeq /\ Len(EndOfData) = 5
  BY <1>5, CrlfIsText, Joined DEF EndOfData, dot
<1> QED
  BY <1>6, EmptySeq DEF ByteSeq

-----------------------------------------------------------------------------
(* The lines of a reply, as they are sent *)

Sent(lines, k) == FlattenSeq([i \in 1 .. k |-> lines[i] \o Crlf])

\* One line more is sent after those before it.
LEMMA SentGrows ==
    ASSUME NEW lines \in Seq(ByteSeq)
    PROVE  /\ Sent(lines, 0) = <<>>
           /\ \A k \in 0 .. Len(lines) : Sent(lines, k) \in ByteSeq
           /\ \A k \in 0 .. Len(lines) - 1 :
                 Sent(lines, k + 1) = Sent(lines, k) \o (lines[k + 1] \o Crlf)
<1> DEFINE piece(i) == lines[i] \o Crlf
           pieces(k) == [i \in 1 .. k |-> piece(i)]
<1>1. \A i \in 1 .. Len(lines) : piece(i) \in ByteSeq
  <2> SUFFICES ASSUME NEW i \in 1 .. Len(lines)
               PROVE  lines[i] \o Crlf \in ByteSeq
    OBVIOUS
  <2>1. lines[i] \in ByteSeq
    BY ElementOfSeq
  <2> QED
    BY <2>1, CrlfIsText, ConcatProperties DEF ByteSeq
<1>2. \A k : Sent(lines, k) = FlattenSeq(pieces(k))
  BY DEF Sent
<1> HIDE DEF piece
<1>3. \A k \in 0 .. Len(lines) :
         /\ pieces(k) \in Seq(ByteSeq) /\ Len(pieces(k)) = k
         /\ \A i \in 1 .. k : pieces(k)[i] = piece(i)
  <2> SUFFICES ASSUME NEW k \in 0 .. Len(lines)
               PROVE  /\ pieces(k) \in Seq(ByteSeq) /\ Len(pieces(k)) = k
                      /\ \A i \in 1 .. k : pieces(k)[i] = piece(i)
    OBVIOUS
  <2>1. \A i \in 1 .. k : i \in 1 .. Len(lines)
    OBVIOUS
  <2>2. pieces(k) \in [1 .. k -> ByteSeq] /\ k \in Nat
    BY <1>1, <2>1
  <2> QED
    BY <2>2
<1> HIDE DEF pieces
<1>4. Sent(lines, 0) = <<>>
  <2>1. Len(pieces(0)) = 0 /\ pieces(0) \in Seq(ByteSeq)
    BY <1>3
  <2>2. pieces(0) = <<>>
    BY <2>1, EmptySeq
  <2>3. FlattenSeq(pieces(0)) = pieces(0)
    BY <2>1 DEF FlattenSeq
  <2> QED
    BY <1>2, <2>2, <2>3
<1>5. ASSUME NEW k \in 1 .. Len(lines)
      PROVE  \E g : Joins(g, pieces(k), k) /\ Sent(lines, k) = g[k]
  <2>1. pieces(k) \in Seq(ByteSeq) /\ Len(pieces(k)) = k /\ k # 0
    BY <1>3
  <2>2. pieces(k) # <<>>
    BY <2>1, EmptySeq
  <2> QED
    BY <1>2, <2>1, <2>2, FlattenJoins
<1>6. ASSUME NEW k \in 1 .. Len(lines)
      PROVE  Sent(lines, k) \in ByteSeq
  <2>1. PICK g : Joins(g, pieces(k), k) /\ Sent(lines, k) = g[k]
    BY <1>5
  <2>2. pieces(k) \in Seq(Seq(Byte)) /\ Len(pieces(k)) = k
        /\ k \in 0 .. Len(pieces(k)) /\ k \in 1 .. k
    BY <1>3 DEF ByteSeq
  <2> QED
    BY <2>1, <2>2, JoinsAreTexts DEF ByteSeq
<1>7. ASSUME NEW k \in 0 .. Len(lines) - 1
      PROVE  Sent(lines, k + 1) = Sent(lines, k) \o piece(k + 1)
  <2>1. k + 1 \in 1 .. Len(lines) /\ k + 1 \in 1 .. k + 1 /\ k \in Nat /\ k + 1 \in Nat
        /\ k <= k + 1 /\ (k + 1) - 1 = k /\ (k = 0 <=> k + 1 = 1)
    OBVIOUS
  <2>2. PICK h : Joins(h, pieces(k + 1), k + 1) /\ Sent(lines, k + 1) = h[k + 1]
    BY <1>5, <2>1
  <2>3. pieces(k + 1)[k + 1] = piece(k + 1)
    BY <1>3, <2>1
  <2>4. h[k + 1] = IF k + 1 = 1 THEN piece(k + 1) ELSE h[k] \o piece(k + 1)
    BY <2>1, <2>2, <2>3 DEF Joins
  <2>5. CASE k = 0
    <3>1. piece(k + 1) \in ByteSeq
      BY <1>1, <2>1
    <3> QED
      BY <1>4, <2>2, <2>4, <2>5, <3>1, ConcatEmptySeq DEF ByteSeq
  <2>6. CASE k # 0
    <3>1. k \in 1 .. Len(lines) /\ k \in 1 .. k
      BY <2>6
    <3>2. PICK g : Joins(g, pieces(k), k) /\ Sent(lines, k) = g[k]
      BY <1>5, <3>1
    <3>3. \A i \in 1 .. k : pieces(k)[i] = pieces(k + 1)[i]
      <4>1. \A i \in 1 .. k : i \in 1 .. k + 1
        BY <2>1
      <4>2. k \in 0 .. Len(lines) /\ k + 1 \in 0 .. Len(lines)
        BY <2>1, <3>1
      <4> QED
        BY <1>3, <4>1, <4>2
    <3>4. g[k] = h[k]
      <4>1. \A i \in 1 .. k : g[i] = h[i]
        <5>1. Joins(g, pieces(k), k)
          BY <3>2
        <5>2. Joins(h, pieces(k + 1), k + 1)
          BY <2>2
        <5> QED
          BY <2>1, <3>3, <5>1, <5>2, JoinsAgree
      <4> QED
        BY <3>1, <4>1
    <3> QED
      BY <2>1, <2>2, <2>4, <2>6, <3>2, <3>4
  <2> QED
    BY <2>5, <2>6
<1>8. \A k \in 0 .. Len(lines) : Sent(lines, k) \in ByteSeq
  <2>1. <<>> \in ByteSeq
    BY DEF ByteSeq
  <2>2. \A k \in 0 .. Len(lines) : k = 0 \/ k \in 1 .. Len(lines)
    OBVIOUS
  <2> QED
    BY <1>4, <1>6, <2>1, <2>2
<1> QED
  BY <1>4, <1>7, <1>8 DEF piece

\* And what is sent in all begins with what is sent up to any line.
LEMMA SentRest ==
    ASSUME NEW lines \in Seq(ByteSeq), NEW k \in 0 .. Len(lines)
    PROVE  \E more \in ByteSeq : Sent(lines, Len(lines)) = Sent(lines, k) \o more
<1> DEFINE bad == {m \in Nat : /\ k <= m /\ m <= Len(lines)
                               /\ ~ \E more \in ByteSeq : Sent(lines, m) = Sent(lines, k) \o more}
           m == Min(bad)
<1> SUFFICES ASSUME bad # {}
             PROVE  FALSE
  <2>1. Len(lines) \in Nat /\ k <= Len(lines) /\ Len(lines) <= Len(lines)
    OBVIOUS
  <2> QED
    BY <2>1, Zenon
<1>1. m \in bad /\ \A j \in bad : m <= j
  <2>1. bad \in SUBSET Nat
    OBVIOUS
  <2> HIDE DEF bad
  <2> QED
    BY <2>1, MinOfNaturals
<1> HIDE DEF m
<1>2. /\ m \in Nat /\ k <= m /\ m <= Len(lines)
      /\ ~ \E more \in ByteSeq : Sent(lines, m) = Sent(lines, k) \o more
  BY <1>1
<1>3. Sent(lines, k) \in Seq(Byte) /\ <<>> \in ByteSeq
  BY SentGrows, EmptySeq DEF ByteSeq
<1>4. m # k
  BY <1>2, <1>3, ConcatEmptySeq
<1>5. m - 1 \in Nat /\ ~ (m <= m - 1) /\ k <= m - 1 /\ m - 1 <= Len(lines)
      /\ m - 1 \in 0 .. Len(lines) - 1 /\ (m - 1) + 1 = m /\ m \in 1 .. Len(lines)
  BY <1>2, <1>4
<1>6. m - 1 \notin bad
  BY <1>1, <1>5
<1>7. PICK more \in ByteSeq : Sent(lines, m - 1) = Sent(lines, k) \o more
  BY <1>5, <1>6
<1>8. Sent(lines, m) = Sent(lines, m - 1) \o (lines[m] \o Crlf)
  BY <1>5, SentGrows
<1> DEFINE line == lines[m] \o Crlf
<1>9. line \in Seq(Byte)
  <2>1. lines[m] \in ByteSeq
    BY <1>5, ElementOfSeq
  <2> QED
    BY <2>1, CrlfIsText, ConcatProperties DEF ByteSeq
<1> HIDE DEF line
<1>10. more \in Seq(Byte)
  BY DEF ByteSeq
<1>11. Sent(lines, m) = Sent(lines, k) \o (more \o line)
  <2>1. (Sent(lines, k) \o more) \o line = Sent(lines, k) \o (more \o line)
    BY <1>3, <1>9, <1>10, JoinedInOrder DEF ByteSeq
  <2> QED
    BY <1>7, <1>8, <2>1 DEF line
<1>12. more \o line \in ByteSeq
  BY <1>9, <1>10, ConcatProperties DEF ByteSeq
<1> QED
  BY <1>2, <1>11, <1>12

-----------------------------------------------------------------------------
(* What is sent is text *)

\* Texts that are joined make a text.
LEMMA FlattenIsText ==
    ASSUME NEW S, NEW s \in Seq(Seq(S))
    PROVE  FlattenSeq(s) \in Seq(S)
<1>1. CASE s = <<>>
  <2>1. FlattenSeq(s) = s
    BY <1>1 DEF FlattenSeq
  <2> QED
    BY <1>1, <2>1, EmptySeq
<1>2. CASE s # <<>>
  <2>1. PICK g : Joins(g, s, Len(s)) /\ FlattenSeq(s) = g[Len(s)]
    BY <1>2, FlattenJoins
  <2>2. Len(s) \in 0 .. Len(s) /\ Len(s) \in 1 .. Len(s)
    BY <1>2, EmptySeq
  <2> QED
    BY <2>1, <2>2, JoinsAreTexts
<1> QED
  BY <1>1, <1>2

\* Words, each after some blanks.
LEMMA WordsAreText ==
    ASSUME NEW words \in Seq(Bytes), NEW blanks \in ByteSeq
    PROVE  FlattenSeq([i \in 1 .. Len(words) |-> blanks \o words[i]]) \in ByteSeq
<1> DEFINE s == [i \in 1 .. Len(words) |-> blanks \o words[i]]
<1>1. words \in Seq(ByteSeq) /\ Len(words) \in Nat
  BY BytesAreByteSeq
<1>2. \A i \in 1 .. Len(words) : blanks \o words[i] \in ByteSeq
  BY <1>1, ElementOfSeq, Joined
<1>3. s \in [1 .. Len(words) -> ByteSeq]
  BY <1>2
<1>4. s \in Seq(ByteSeq)
  BY <1>1, <1>3
<1> HIDE DEF s
<1>5. FlattenSeq(s) \in ByteSeq
  BY <1>4, FlattenIsText DEF ByteSeq
<1> QED
  BY <1>5 DEF s

\* So are the keywords.
LEMMA KeywordsAreText ==
    /\ \A type \in DOMAIN Keyword : Keyword[type] \in ByteSeq
    /\ \A type \in DOMAIN P3Keyword : P3Keyword[type] \in ByteSeq
<1>1. \A b \in Literals : b \in Byte
  BY DEF Byte
<1>2. \A a \in Literals : <<a>> \in ByteSeq
  BY <1>1, ShortTexts DEF ByteSeq
<1>3. \A a, b \in Literals : <<a, b>> \in ByteSeq
  BY <1>1, ShortTexts DEF ByteSeq
<1>4. \A a, b, c \in Literals : <<a, b, c>> \in ByteSeq
  BY <1>1, ShortTexts DEF ByteSeq
<1>5. ASSUME NEW type \in DOMAIN Keyword
      PROVE  Keyword[type] \in ByteSeq
  <2>1. type \in {"HELO", "EHLO", "HELP", "START_TLS", "SU", "MAIL_FROM", "RCPT_TO",
                "DATA", "QUIT", "AUTH", "FCAPA"}
    BY DEF Keyword
  <2>2. {" ", "au", "capa", "da", "eh", "f", "from", "he", "it", "lo", "lp",
        "mail", "qu", "rcpt", "s", "start", "ta", "th", "tls", "to", "u"} \subseteq Literals
    BY DEF Literals
  <2>3. /\ Keyword["HELO"] = <<"he", "lo">>
        /\ Keyword["EHLO"] = <<"eh", "lo">>
        /\ Keyword["HELP"] = <<"he", "lp">>
    BY DEF Keyword
  <2>4. type \in {"HELO", "EHLO", "HELP"} => Keyword[type] \in ByteSeq
    BY <1>3, <2>2, <2>3
  <2>5. /\ Keyword["START_TLS"] = <<"start", "tls">>
        /\ Keyword["SU"] = <<"s", "u">>
        /\ Keyword["DATA"] = <<"da", "ta">>
        /\ Keyword["QUIT"] = <<"qu", "it">>
    BY DEF Keyword
  <2>6. type \in {"START_TLS", "SU", "DATA", "QUIT"} => Keyword[type] \in ByteSeq
    BY <1>3, <2>2, <2>5
  <2>7. /\ Keyword["MAIL_FROM"] = <<"mail", " ", "from">>
        /\ Keyword["RCPT_TO"] = <<"rcpt", " ", "to">>
    BY DEF Keyword
  <2>8. type \in {"MAIL_FROM", "RCPT_TO"} => Keyword[type] \in ByteSeq
    <3>1. "mail" \in Literals /\ "rcpt" \in Literals /\ " " \in Literals
          /\ "from" \in Literals /\ "to" \in Literals
      BY <2>2
    <3>2. <<"mail", " ", "from">> \in ByteSeq
      BY <1>4, <3>1
    <3>3. <<"rcpt", " ", "to">> \in ByteSeq
      BY <1>4, <3>1
    <3> QED
      BY <2>7, <3>2, <3>3
  <2>9. /\ Keyword["AUTH"] = <<"au", "th">>
        /\ Keyword["FCAPA"] = <<"f", "capa">>
    BY DEF Keyword
  <2>10. type \in {"AUTH", "FCAPA"} => Keyword[type] \in ByteSeq
    BY <1>3, <2>2, <2>9
  <2> QED
    BY <2>1, <2>4, <2>6, <2>8, <2>10
<1>6. ASSUME NEW type \in DOMAIN P3Keyword
      PROVE  P3Keyword[type] \in ByteSeq
  <2>1. type \in {"CAPA", "TOP", "QUIT", "STLS", "STAT", "USER", "UIDL", "PASS",
                "LIST", "RETR", "RSET", "DELE", "IMPLEMENTATION"}
    BY DEF P3Keyword
  <2>2. {"at", "capa", "de", "dl", "er", "et", "implemen", "le", "li",
        "ls", "pa", "quit", "re", "rs", "ss", "st", "tation", "top", "tr", "ui", "us"}
       \subseteq Literals
    BY DEF Literals
  <2>3. /\ P3Keyword["CAPA"] = <<"capa">>
        /\ P3Keyword["TOP"] = <<"top">>
        /\ P3Keyword["QUIT"] = <<"quit">>
    BY DEF P3Keyword
  <2>4. type \in {"CAPA", "TOP", "QUIT"} => P3Keyword[type] \in ByteSeq
    BY <1>2, <2>2, <2>3
  <2>5. /\ P3Keyword["STLS"] = <<"st", "ls">>
        /\ P3Keyword["STAT"] = <<"st", "at">>
        /\ P3Keyword["USER"] = <<"us", "er">>
    BY DEF P3Keyword
  <2>6. type \in {"STLS", "STAT", "USER"} => P3Keyword[type] \in ByteSeq
    BY <1>3, <2>2, <2>5
  <2>7. /\ P3Keyword["UIDL"] = <<"ui", "dl">>
        /\ P3Keyword["PASS"] = <<"pa", "ss">>
        /\ P3Keyword["LIST"] = <<"li", "st">>
    BY DEF P3Keyword
  <2>8. type \in {"UIDL", "PASS", "LIST"} => P3Keyword[type] \in ByteSeq
    BY <1>3, <2>2, <2>7
  <2>9. /\ P3Keyword["RETR"] = <<"re", "tr">>
        /\ P3Keyword["RSET"] = <<"rs", "et">>
        /\ P3Keyword["DELE"] = <<"de", "le">>
    BY DEF P3Keyword
  <2>10. type \in {"RETR", "RSET", "DELE"} => P3Keyword[type] \in ByteSeq
    BY <1>3, <2>2, <2>9
  <2>11. /\ P3Keyword["IMPLEMENTATION"] = <<"implemen", "tation">>
    BY DEF P3Keyword
  <2>12. type \in {"IMPLEMENTATION"} => P3Keyword[type] \in ByteSeq
    BY <1>3, <2>2, <2>11
  <2> QED
    BY <2>1, <2>4, <2>6, <2>8, <2>10, <2>12
<1> QED
  BY <1>5, <1>6

\* And so is every command and message a client sends.
LEMMA RequestsAreText ==
    /\ \A command \in Commands : CommandText(command) \in ByteSeq
    /\ \A request \in P3Requests : P3Text(request) \in ByteSeq
    /\ Messages \subseteq ByteSeq
<1>1. " " \in Byte /\ ":" \in Byte
  BY DEF Byte, Literals
<1>2. <<" ">> \in ByteSeq /\ <<":">> \in ByteSeq /\ <<" ", " ">> \in ByteSeq /\ <<>> \in ByteSeq
  BY <1>1, ShortTexts DEF ByteSeq
<1>3. ASSUME NEW command \in Commands
      PROVE  CommandText(command) \in ByteSeq
  <2> DEFINE key == Keyword[command[1]]
             colon == IF command[1] \in {"MAIL_FROM", "RCPT_TO"} THEN <<":">> ELSE <<>>
             args == FlattenSeq([i \in 1 .. Len(command[2]) |-> <<" ">> \o command[2][i]])
  <2>1. command[1] \in DOMAIN Keyword /\ command[2] \in Seq(Bytes)
    BY WireConstants
  <2>2. key \in ByteSeq
    BY <2>1, KeywordsAreText
  <2>3. colon \in ByteSeq
    BY <1>2
  <2>4. args \in ByteSeq
    BY <1>2, <2>1, WordsAreText
  <2>5. CommandText(command) = (key \o colon) \o args
    BY DEF CommandText
  <2> HIDE DEF key, colon, args
  <2> QED
    BY <2>2, <2>3, <2>4, <2>5, Joined
<1>4. ASSUME NEW request \in P3Requests
      PROVE  P3Text(request) \in ByteSeq
  <2> DEFINE key == P3Keyword[request[1]]
             args == FlattenSeq([i \in 1 .. Len(request[2]) |-> <<" ", " ">> \o request[2][i]])
             blank == <<" ">>
  <2>1. request[1] \in DOMAIN P3Keyword /\ request[2] \in Seq(Bytes)
    BY WireConstants
  <2>2. key \in ByteSeq /\ blank \in ByteSeq
    BY <1>2, <2>1, KeywordsAreText
  <2>3. args \in ByteSeq
    BY <1>2, <2>1, WordsAreText
  <2>4. P3Text(request) = (key \o args) \o blank
    BY DEF P3Text
  <2> HIDE DEF key, blank, args
  <2> QED
    BY <2>2, <2>3, <2>4, Joined
<1>5. Messages \subseteq ByteSeq
  BY WireConstants, BytesAreByteSeq
<1> QED
  BY <1>3, <1>4, <1>5

-----------------------------------------------------------------------------
(* Replies are lines of text *)

\* Three digits.
LEMMA CodesAreDigits ==
    \A type \in DOMAIN Code : Code[type] \in ByteSeq /\ Len(Code[type]) = 3
<1> DEFINE IsCode(type) == Code[type] \in ByteSeq /\ Len(Code[type]) = 3
<1>1. \A a, b, c \in Digits : <<a, b, c>> \in ByteSeq /\ Len(<<a, b, c>>) = 3
  <2>1. Digits \subseteq Byte
    BY DEF Byte, Literals
  <2> QED
    BY <2>1, ShortTexts DEF ByteSeq
<1>2. {"0", "1", "2", "3", "4", "5", "6"} \subseteq Digits
  BY DEF Digits
<1>3. DOMAIN Code = {"SPAM_ALERT", "GREETING", "EHLO", "HELO", "MAIL_FROM", "RCPT_TO",
                     "DATA_START", "DATA_END", "QUIT_GOODBYE", "SYNTAX_ERR", "ORDER_ERR",
                     "INVALID_COMMAND", "START_TLS", "REC_NOT_LOCAL", "AUTH_SUCCESS",
                     "AUTH_FAIL", "RELAY_FAIL", "HELP_RESP", "AUTH_NOT_ALLOWED", "SU_ACC",
                     "SU_DENIED", "FCAPA_RESP", "SPF_REJECT", "MESSAGE_TOO_LARGE"}
  BY DEF Code
<1>4. {"SPAM_ALERT", "GREETING", "EHLO", "HELO"}
        \subseteq {type \in DOMAIN Code : IsCode(type)}
  <2>1. /\ Code["SPAM_ALERT"] = <<"5", "5", "4">>
        /\ Code["GREETING"] = <<"2", "2", "0">>
        /\ Code["EHLO"] = <<"2", "5", "0">>
        /\ Code["HELO"] = <<"2", "5", "0">>
    BY DEF Code
  <2> QED
    BY <1>1, <1>2, <1>3, <2>1
<1>5. {"MAIL_FROM", "RCPT_TO", "DATA_START", "DATA_END"}
        \subseteq {type \in DOMAIN Code : IsCode(type)}
  <2>1. /\ Code["MAIL_FROM"] = <<"2", "5", "0">>
        /\ Code["RCPT_TO"] = <<"2", "5", "0">>
        /\ Code["DATA_START"] = <<"3", "5", "4">>
        /\ Code["DATA_END"] = <<"2", "5", "0">>
    BY DEF Code
  <2> QED
    BY <1>1, <1>2, <1>3, <2>1
<1>6. {"QUIT_GOODBYE", "SYNTAX_ERR", "ORDER_ERR", "INVALID_COMMAND"}
        \subseteq {type \in DOMAIN Code : IsCode(type)}
  <2>1. /\ Code["QUIT_GOODBYE"] = <<"2", "2", "1">>
        /\ Code["SYNTAX_ERR"] = <<"5", "0", "1">>
        /\ Code["ORDER_ERR"] = <<"5", "0", "3">>
        /\ Code["INVALID_COMMAND"] = <<"5", "0", "2">>
    BY DEF Code
  <2> QED
    BY <1>1, <1>2, <1>3, <2>1, SMTT(30)
<1>7. {"START_TLS", "REC_NOT_LOCAL", "AUTH_SUCCESS", "AUTH_FAIL"}
        \subseteq {type \in DOMAIN Code : IsCode(type)}
  <2>1. /\ Code["START_TLS"] = <<"2", "2", "0">>
        /\ Code["REC_NOT_LOCAL"] = <<"5", "5", "1">>
        /\ Code["AUTH_SUCCESS"] = <<"2", "3", "5">>
        /\ Code["AUTH_FAIL"] = <<"5", "3", "0">>
    BY DEF Code
  <2> QED
    BY <1>1, <1>2, <1>3, <2>1
<1>8. {"RELAY_FAIL", "HELP_RESP", "AUTH_NOT_ALLOWED", "SU_ACC"}
        \subseteq {type \in DOMAIN Code : IsCode(type)}
  <2>1. /\ Code["RELAY_FAIL"] = <<"5", "5", "1">>
        /\ Code["HELP_RESP"] = <<"2", "1", "4">>
        /\ Code["AUTH_NOT_ALLOWED"] = <<"5", "5", "1">>
        /\ Code["SU_ACC"] = <<"6", "0", "0">>
    BY DEF Code
  <2> QED
    BY <1>1, <1>2, <1>3, <2>1
<1>9. {"SU_DENIED", "FCAPA_RESP", "SPF_REJECT", "MESSAGE_TOO_LARGE"}
        \subseteq {type \in DOMAIN Code : IsCode(type)}
  <2>1. /\ Code["SU_DENIED"] = <<"6", "5", "1">>
        /\ Code["FCAPA_RESP"] = <<"6", "0", "1">>
        /\ Code["SPF_REJECT"] = <<"5", "5", "0">>
        /\ Code["MESSAGE_TOO_LARGE"] = <<"5", "5", "6">>
    BY DEF Code
  <2> QED
    BY <1>1, <1>2, <1>3, <2>1
<1> HIDE DEF IsCode
<1>10. \A type \in DOMAIN Code : IsCode(type)
  BY <1>3, <1>4, <1>5, <1>6, <1>7, <1>8, <1>9
<1> QED
  BY <1>10 DEF IsCode

LEMMA ResponsePartsAreText ==
    ASSUME NEW type \in DOMAIN Code
    PROVE  Enhanced(type) \in ByteSeq /\ Message(type) \in ByteSeq
<1>1. \A b \in Literals : b \in Byte
  BY DEF Byte
<1>2. /\ <<>> \in ByteSeq
      /\ \A a, b \in Literals : <<a, b>> \in ByteSeq
      /\ \A a, b, c \in Literals : <<a, b, c>> \in ByteSeq
      /\ \A a, b, c, d \in Literals : <<a, b, c, d>> \in ByteSeq
      /\ \A a, b, c, d, e \in Literals : <<a, b, c, d, e>> \in ByteSeq
  BY <1>1, ShortTexts DEF ByteSeq
<1>3. Enhanced(type) \in ByteSeq
  <2>1. {"6.x.x", "2.x.x", "5.x.x", " "} \subseteq Literals
    BY DEF Literals
  <2>2. Enhanced(type) \in {<<>>, <<"6.x.x", " ">>, <<"2.x.x", " ">>, <<"5.x.x", " ">>}
    BY DEF Enhanced
  <2> QED
    BY <1>2, <2>1, <2>2
<1>4. Message(type) \in ByteSeq
  <2>1. {"node", " ", "ESMTP", "ready", "domain", ",", "service", "text"} \subseteq Literals
        /\ type \in Literals
    BY DEF Literals
  <2>2. Message(type) \in {<<"node", " ", "ESMTP", " ", "ready">>,
                           <<"domain", ",", " ", "service">>, <<type, " ", "text">>}
    BY DEF Message
  <2>3. <<"node", " ", "ESMTP", " ", "ready">> \in ByteSeq
    BY <1>2, <2>1
  <2>4. <<"domain", ",", " ", "service">> \in ByteSeq /\ <<type, " ", "text">> \in ByteSeq
    BY <1>2, <2>1
  <2> QED
    BY <2>2, <2>3, <2>4
<1> QED
  BY <1>3, <1>4

\* Every reply but EHLO's is one line.
LEMMA ResponsesAreLines ==
    ASSUME NEW type \in DOMAIN Code, type # "EHLO"
    PROVE  Response(type) \in Seq(ByteSeq) /\ Len(Response(type)) = 1
<1> DEFINE code == Code[type]
           blank == <<" ">>
           enhanced == Enhanced(type)
           message == Message(type)
           last == <<" ", "-", " ", "fsmtp">>
           line == code \o blank \o enhanced \o message \o last
<1>1. code \in ByteSeq /\ enhanced \in ByteSeq /\ message \in ByteSeq
  BY CodesAreDigits, ResponsePartsAreText
<1>2. blank \in ByteSeq /\ last \in ByteSeq
  <2>1. " " \in Byte /\ "-" \in Byte /\ "fsmtp" \in Byte
    BY DEF Byte, Literals
  <2> QED
    BY <2>1, ShortTexts DEF ByteSeq
<1>3. Response(type) = <<line>>
  BY DEF Response, OneLine
<1> HIDE DEF code, blank, enhanced, message, last
<1>4. line \in ByteSeq
  BY <1>1, <1>2, Joined
<1> HIDE DEF line
<1> QED
  BY <1>3, <1>4, ShortTexts

\* EHLO's is one line and one per service, and a dash follows the code in all lines
\* but the last.
LEMMA EhloIsLines ==
    /\ Response("EHLO") \in Seq(ByteSeq)
    /\ Len(Response("EHLO")) = 1 + Len(Services)
    /\ \A i \in 1 .. Len(Services) :
          Len(Response("EHLO")[i]) >= 4 /\ Response("EHLO")[i][4] = "-"
<1> DEFINE n == Len(Services)
           code == Code["EHLO"]
           dash == <<"-">>
           first == (code \o dash) \o Message("EHLO")
           tail == [i \in 1 .. n |-> (code \o <<IF i = n THEN " " ELSE "-">>) \o Services[i]]
<1>1. "EHLO" \in DOMAIN Code
  BY DEF Code
<1>2. code \in ByteSeq /\ Len(code) = 3 /\ Message("EHLO") \in ByteSeq
  BY <1>1, CodesAreDigits, ResponsePartsAreText
<1>3. Services \in Seq(ByteSeq) /\ n \in Nat
  BY WireConstants, BytesAreByteSeq
<1>4. <<"-">> \in ByteSeq /\ Len(<<"-">>) = 1 /\ <<" ">> \in ByteSeq /\ Len(<<" ">>) = 1
  <2>1. " " \in Byte /\ "-" \in Byte
    BY DEF Byte, Literals
  <2> QED
    BY <2>1, ShortTexts DEF ByteSeq
<1>5. Response("EHLO") = <<first>> \o tail
  BY DEF Response
<1> HIDE DEF code
<1>6. ASSUME NEW s \in ByteSeq
      PROVE  /\ (code \o <<"-">>) \o s \in ByteSeq
             /\ Len((code \o <<"-">>) \o s) >= 4 /\ ((code \o <<"-">>) \o s)[4] = "-"
             /\ (code \o <<" ">>) \o s \in ByteSeq
  <2> DEFINE head == code \o dash
  <2>1. head \in ByteSeq /\ Len(head) = 4 /\ head[4] = "-"
    <3>1. code \in Seq(Byte) /\ dash \in Seq(Byte) /\ Len(dash) = 1 /\ dash[1] = "-"
      BY <1>2, <1>4 DEF ByteSeq
    <3> HIDE DEF dash
    <3>2. head \in Seq(Byte) /\ Len(head) = Len(code) + Len(dash)
          /\ \A i \in 1 .. Len(code) + Len(dash) :
                head[i] = IF i <= Len(code) THEN code[i] ELSE dash[i - Len(code)]
      BY <3>1, ConcatProperties
    <3> QED
      BY <1>2, <3>1, <3>2 DEF ByteSeq
  <2>2. head \o s \in ByteSeq /\ Len(head \o s) >= 4 /\ (head \o s)[4] = "-"
    <3> HIDE DEF head
    <3>1. head \in Seq(Byte) /\ s \in Seq(Byte) /\ Len(s) \in Nat
      BY <2>1 DEF ByteSeq
    <3>2. head \o s \in Seq(Byte) /\ Len(head \o s) = Len(head) + Len(s)
          /\ \A i \in 1 .. Len(head) + Len(s) :
                (head \o s)[i] = IF i <= Len(head) THEN head[i] ELSE s[i - Len(head)]
      BY <3>1, ConcatProperties
    <3> QED
      BY <2>1, <3>1, <3>2 DEF ByteSeq
  <2>3. (code \o <<" ">>) \o s \in ByteSeq
    BY <1>2, <1>4, Joined
  <2> QED
    BY <2>2, <2>3
<1>7. first \in ByteSeq /\ Len(first) >= 4 /\ first[4] = "-"
  BY <1>2, <1>6
<1>8. ASSUME NEW i \in 1 .. n
      PROVE  /\ tail[i] \in ByteSeq
             /\ i # n => Len(tail[i]) >= 4 /\ tail[i][4] = "-"
  <2>1. Services[i] \in ByteSeq
    BY <1>3, ElementOfSeq
  <2>2. tail[i] = IF i = n THEN (code \o <<" ">>) \o Services[i]
                  ELSE (code \o <<"-">>) \o Services[i]
    OBVIOUS
  <2> HIDE DEF tail
  <2> QED
    BY <1>6, <2>1, <2>2
<1> HIDE DEF first
<1>9. tail \in Seq(ByteSeq) /\ Len(tail) = n
  <2>1. tail \in [1 .. n -> ByteSeq] /\ n \in Nat
    BY <1>3, <1>8
  <2> HIDE DEF tail, n
  <2> QED
    BY <2>1
<1> HIDE DEF tail, n
<1>10. <<first>> \in Seq(ByteSeq) /\ Len(<<first>>) = 1 /\ <<first>>[1] = first
  BY <1>7, ShortTexts
<1> DEFINE lines == <<first>> \o tail
<1>11. lines \in Seq(ByteSeq) /\ Len(lines) = 1 + n
       /\ \A i \in 1 .. 1 + n : lines[i] = IF i <= 1 THEN <<first>>[i] ELSE tail[i - 1]
  BY <1>9, <1>10, ConcatProperties
<1>12. ASSUME NEW i \in 1 .. n
       PROVE  Len(lines[i]) >= 4 /\ lines[i][4] = "-"
  <2> HIDE DEF lines
  <2>1. CASE i = 1
    BY <1>3, <1>7, <1>10, <1>11, <2>1
  <2>2. CASE i # 1
    <3>1. i - 1 \in 1 .. n /\ i - 1 # n /\ ~ (i <= 1) /\ i \in 1 .. 1 + n
      BY <1>3, <2>2
    <3> QED
      BY <1>8, <1>11, <3>1
  <2> QED
    BY <2>1, <2>2
<1> QED
  BY <1>5, <1>11, <1>12 DEF n

\* The dot after a list is found where it ends.
LEMMA DotEnds == Delimits(Crlf, <<".">>)
<1> DEFINE t == <<".", "CR", "LF">>
<1>1. {".", "CR", "LF"} \subseteq Byte
  BY DEF Byte, Literals
<1>2. t \in Seq(Byte) /\ Len(t) = 3 /\ Crlf \in Seq(Byte) /\ Len(Crlf) = 2
  BY <1>1, ShortTexts, CrlfIsText DEF ByteSeq
<1> DEFINE dot == <<".">>
<1>3. dot \in Seq(Byte) /\ Len(dot) = 1 /\ dot[1] = "."
  BY <1>1, ShortTexts
<1>4. t[1] = "." /\ t[2] = "CR" /\ t[3] = "LF" /\ Crlf[1] = "CR" /\ Crlf[2] = "LF"
  BY DEF Crlf
<1> HIDE DEF t
<1>5. Occurs(t, Crlf, 2) /\ ~ Occurs(t, Crlf, 1)
  <2>1. \A j \in 1 .. 2 : j = 1 \/ j = 2
    OBVIOUS
  <2>2. 1 \in 1 .. 2
    OBVIOUS
  <2> QED
    BY <1>2, <1>4, <2>1, <2>2 DEF Occurs
<1>6. Len(t) - Len(Crlf) + 1 = 2 /\ 2 \in 1 .. 2 /\ \A i \in 1 .. 2 : i = 1 \/ i = 2
  BY <1>2
<1>7. Find(t, Crlf) = 2
  BY <1>2, <1>5, <1>6, FindsFirst
<1> HIDE DEF dot
<1>8. dot \o Crlf = t
  <2> DEFINE u == dot \o Crlf
  <2>1. u \in Seq(Byte) /\ Len(u) = 1 + 2
        /\ \A i \in 1 .. 1 + 2 : u[i] = IF i <= 1 THEN dot[i] ELSE Crlf[i - 1]
    <3>1. u \in Seq(Byte) /\ Len(u) = Len(dot) + Len(Crlf)
          /\ \A i \in 1 .. Len(dot) + Len(Crlf) :
                u[i] = IF i <= Len(dot) THEN dot[i] ELSE Crlf[i - Len(dot)]
      BY <1>2, <1>3, ConcatProperties
    <3> HIDE DEF u
    <3> QED
      BY <1>2, <1>3, <3>1
  <2> HIDE DEF u
  <2>2. u[1] = t[1] /\ u[2] = t[2] /\ u[3] = t[3]
    BY <1>3, <1>4, <2>1
  <2>3. \A i \in 1 .. 3 : i = 1 \/ i = 2 \/ i = 3
    OBVIOUS
  <2>4. u = t
    BY <1>2, <2>1, <2>2, <2>3, SeqEqual
  <2> QED
    BY <2>4 DEF u
<1>9. Find(dot \o Crlf, Crlf) = Len(dot) + 1
  BY <1>3, <1>7, <1>8
<1> QED
  BY <1>9 DEF Delimits, dot

\* A POP3 reply is one line, or more of which only the last is a dot.
LEMMA P3ResponsesAreLines ==
    ASSUME TextsEnd, NEW ok \in BOOLEAN, NEW listed \in {"none"} \cup DOMAIN Lists,
           NEW lines, lines = P3Response(ok, listed)
    PROVE  /\ lines \in Seq(ByteSeq) /\ Len(lines) >= 1
           /\ \A i \in 1 .. Len(lines) : Delimits(Crlf, lines[i])
           /\ Len(lines) > 1 => \A i \in 1 .. Len(lines) - 1 : lines[i] # <<".">>
<1> DEFINE first == <<IF ok THEN "+" ELSE "-", IF ok THEN "OK" ELSE "ERR", " ", "text">>
           dot == <<".">>
<1>1. first \in ByteSeq /\ Len(first) = 4
  <2>1. {"+", "-", "OK", "ERR", " ", "text"} \subseteq Byte
    BY DEF Byte, Literals
  <2> QED
    BY <2>1, ShortTexts DEF ByteSeq
<1>2. dot \in ByteSeq /\ Len(dot) = 1
  <2>1. "." \in Byte
    BY DEF Byte, Literals
  <2> QED
    BY <2>1, ShortTexts DEF ByteSeq
<1>3. first # dot
  BY <1>1, <1>2
<1> HIDE DEF first, dot
<1>4. <<first>> \in Seq(ByteSeq) /\ Len(<<first>>) = 1 /\ <<first>>[1] = first
  BY <1>1, ShortTexts
<1>5. P3Response(ok, "none") = <<first>>
  <2>1. <<first>> \o <<>> = <<first>>
    BY <1>4, ConcatEmptySeq
  <2> QED
    BY <2>1 DEF P3Response, first
<1>6. Delimits(Crlf, first)
  BY <1>4, <1>5 DEF TextsEnd
<1>7. CASE listed = "none"
  <2>1. lines = <<first>>
    BY <1>5, <1>7
  <2> QED
    BY <1>4, <1>6, <2>1
<1>8. CASE listed # "none"
  <2> DEFINE list == Lists[listed]
             tail == Append(list, dot)
  <2>1. list \in Seq(ByteSeq) /\ Len(list) \in Nat
    BY <1>8, WireConstants, BytesAreByteSeq
  <2>2. \A i \in 1 .. Len(list) : Delimits(Crlf, list[i]) /\ list[i] # dot
    <3>1. DOMAIN list = 1 .. Len(list)
      BY <2>1
    <3> QED
      BY <1>8, <3>1 DEF TextsEnd, dot
  <2> HIDE DEF list
  <2>3. /\ tail \in Seq(ByteSeq) /\ Len(tail) = Len(list) + 1
        /\ \A i \in 1 .. Len(list) : tail[i] = list[i]
        /\ tail[Len(list) + 1] = dot
    BY <1>2, <2>1, AppendProperties
  <2>4. lines = <<first>> \o tail
    BY <1>8 DEF P3Response, first, dot, list
  <2>5. \A i \in 1 .. Len(list) + 1 :
           Delimits(Crlf, tail[i]) /\ (i # Len(list) + 1 => tail[i] # dot)
    <3>1. \A i \in 1 .. Len(list) + 1 : i \in 1 .. Len(list) \/ i = Len(list) + 1
      BY <2>1
    <3>2. Delimits(Crlf, dot)
      BY DotEnds DEF dot
    <3> HIDE DEF tail
    <3> QED
      BY <2>2, <2>3, <3>1, <3>2
  <2> HIDE DEF tail
  <2> DEFINE m == Len(list) + 1
  <2>6. lines \in Seq(ByteSeq) /\ Len(lines) = 1 + m
        /\ \A i \in 1 .. 1 + m : lines[i] = IF i <= 1 THEN <<first>>[i] ELSE tail[i - 1]
    <3>1. tail \in Seq(ByteSeq) /\ Len(tail) = m
      BY <2>3
    <3> HIDE DEF m
    <3> QED
      BY <1>4, <2>4, <3>1, ConcatProperties
  <2>7. m \in Nat /\ m >= 1
    BY <2>1
  <2>8. \A i \in 1 .. m : Delimits(Crlf, tail[i]) /\ (i # m => tail[i] # dot)
    BY <2>5
  <2> HIDE DEF m
  <2>9. ASSUME NEW i \in 1 .. 1 + m
        PROVE  Delimits(Crlf, lines[i]) /\ (i # 1 + m => lines[i] # dot)
    <3>1. CASE i = 1
      <4>1. lines[i] = first
        BY <1>4, <2>6, <2>7, <3>1
      <4> QED
        BY <1>3, <1>6, <4>1
    <3>2. CASE i # 1
      <4>1. i - 1 \in 1 .. m /\ ~ (i <= 1) /\ (i # 1 + m => i - 1 # m)
        BY <2>7, <3>2
      <4>2. lines[i] = tail[i - 1]
        BY <2>6, <4>1
      <4> QED
        BY <2>8, <4>1, <4>2
    <3> QED
      BY <3>1, <3>2
  <2>10. \A i \in 1 .. (1 + m) - 1 : i \in 1 .. 1 + m /\ i # 1 + m
    BY <2>7
  <2> QED
    BY <2>6, <2>7, <2>9, <2>10 DEF dot
<1> QED
  BY <1>7, <1>8

-----------------------------------------------------------------------------
(* Reading a text up to its delimiter *)

\* A reader that has collected r, with a in its socket and f on its way: it has read
\* less than the text and the delimiter, sees all of both when it has found the end, and
\* does not read as far when it has not.
Midway(r, a, f, w, e, text, delim, more) ==
    /\ text \in ByteSeq /\ delim \in ByteSeq /\ more \in ByteSeq
    /\ r \in ByteSeq /\ a \in ByteSeq /\ f \in ByteSeq /\ w \in Nat /\ e \in BOOLEAN
    /\ r \o (a \o f) = text \o (delim \o more)
    /\ Len(r) < Len(text) + Len(delim)
    /\ e => w > 0 /\ f = <<>> /\ r \o UpTo(a, w) = text \o delim
    /\ ~e /\ w > 0 => /\ w = Len(delim) - 1 /\ a # <<>>
                      /\ Len(r \o UpTo(a, w)) < Len(text) + Len(delim)

LEMMA Lengths ==
    /\ \A s \in ByteSeq : Len(s) \in Nat
    /\ \A s \in ByteSeq : s = <<>> <=> Len(s) = 0
BY EmptySeq DEF ByteSeq

LEMMA Cut ==
    ASSUME NEW t \in ByteSeq, NEW n \in Nat
    PROVE  /\ UpTo(t, n) \in ByteSeq /\ From(t, n + 1) \in ByteSeq
           /\ Len(UpTo(t, n)) = IF n < Len(t) THEN n ELSE Len(t)
           /\ UpTo(t, n) \o From(t, n + 1) = t
BY Parts DEF ByteSeq

\* The first byte stays the first when more arrive.
LEMMA FirstStays ==
    ASSUME NEW a \in ByteSeq, NEW x \in ByteSeq, a # <<>>
    PROVE  UpTo(a \o x, 1) = UpTo(a, 1)
<1> DEFINE t == a \o x
<1>1. a \in Seq(Byte) /\ t \in Seq(Byte) /\ Len(a) \in Nat /\ Len(x) \in Nat /\ Len(a) > 0
      /\ Len(t) = Len(a) + Len(x) /\ t[1] = a[1]
  <2>1. /\ a \in Seq(Byte) /\ x \in Seq(Byte) /\ Len(a) \in Nat /\ Len(x) \in Nat /\ Len(a) # 0
    BY Lengths DEF ByteSeq
  <2>2. /\ t \in Seq(Byte) /\ Len(t) = Len(a) + Len(x)
        /\ \A i \in 1 .. Len(a) + Len(x) : t[i] = IF i <= Len(a) THEN a[i] ELSE x[i - Len(a)]
    BY <2>1, ConcatProperties
  <2> HIDE DEF t
  <2> QED
    BY <2>1, <2>2
<1> HIDE DEF t
<1> DEFINE u == UpTo(a, 1)
           v == UpTo(t, 1)
<1>2. /\ u \in Seq(Byte) /\ Len(u) = (IF 1 < Len(a) THEN 1 ELSE Len(a))
      /\ \A i \in 1 .. Len(u) : u[i] = a[i]
  BY <1>1, Parts
<1>3. /\ v \in Seq(Byte) /\ Len(v) = (IF 1 < Len(t) THEN 1 ELSE Len(t))
      /\ \A i \in 1 .. Len(v) : v[i] = t[i]
  <2>1. t \in Seq(Byte)
    BY <1>1
  <2> QED
    BY <2>1, Parts
<1> HIDE DEF u, v
<1>4. Len(u) = 1 /\ Len(v) = 1 /\ u[1] = v[1]
  <2>0. Len(u) = (IF 1 < Len(a) THEN 1 ELSE Len(a)) /\ Len(v) = (IF 1 < Len(t) THEN 1 ELSE Len(t))
    BY <1>2, <1>3
  <2>b. Len(a) \in Nat /\ Len(x) \in Nat /\ Len(a) > 0 /\ Len(t) = Len(a) + Len(x)
    BY <1>1
  <2>a. (1 < Len(a) \/ Len(a) = 1) /\ (1 < Len(t) \/ Len(t) = 1)
    <3> DEFINE la == Len(a)
               lx == Len(x)
               lt == Len(t)
    <3>1. la \in Nat /\ lx \in Nat /\ la > 0 /\ lt = la + lx
      BY <2>b
    <3> HIDE DEF la, lx, lt
    <3>2. (1 < la \/ la = 1) /\ (1 < lt \/ lt = 1)
      BY <3>1
    <3> QED
      BY <3>2 DEF la, lt
  <2>1. Len(u) = 1 /\ Len(v) = 1
    BY <2>0, <2>a
  <2>2. 1 \in 1 .. 1
    OBVIOUS
  <2> QED
    BY <1>1, <1>2, <1>3, <2>1, <2>2
<1>5. u = v
  BY <1>2, <1>3, <1>4, SeqEqual
<1> QED
  BY <1>5 DEF u, v, t

LEMMA MidwayStarts ==
    ASSUME NEW text \in ByteSeq, NEW delim \in ByteSeq, NEW more \in ByteSeq,
           delim # <<>>, NEW a \in ByteSeq, NEW f \in ByteSeq,
           a \o f = text \o (delim \o more)
    PROVE  Midway(<<>>, a, f, 0, FALSE, text, delim, more)
<1>1. <<>> \o (a \o f) = a \o f
  BY JoinedWithNothing, Joined
<1>2. Len(text) \in Nat /\ Len(delim) \in Nat /\ Len(delim) # 0 /\ Len(<<>>) = 0
  BY Lengths, JoinedWithNothing
<1>3. Len(<<>>) < Len(text) + Len(delim)
  BY <1>2
<1>4. <<>> \in ByteSeq /\ 0 \in Nat
  BY JoinedWithNothing
<1> QED
  BY <1>1, <1>3, <1>4 DEF Midway

\* Bytes that arrive change nothing, not even between the peek and the read: a reader
\* that has not found a delimiter of two bytes takes one byte.
LEMMA MidwayArrives ==
    ASSUME NEW text, NEW delim, NEW more, NEW r, NEW a, NEW f, NEW w, NEW e,
           Midway(r, a, f, w, e, text, delim, more),
           NEW n \in 1 .. Len(f), Len(delim) = 2
    PROVE  Midway(r, a \o UpTo(f, n), From(f, n + 1), w, e, text, delim, more)
<1> r \in ByteSeq /\ a \in ByteSeq /\ f \in ByteSeq
  BY DEF Midway
<1> DEFINE x == UpTo(f, n)
           y == From(f, n + 1)
<1>1. n \in Nat /\ w \in Nat
  BY DEF Midway
<1>2. x \in ByteSeq /\ y \in ByteSeq /\ x \o y = f
  BY <1>1, Cut
<1> HIDE DEF x, y
<1>3. r \o ((a \o x) \o y) = r \o (a \o f)
  BY <1>2, JoinedInOrder
<1>4. f # <<>>
  BY Lengths
<1>5. ~e
  BY <1>4 DEF Midway
<1>6. ASSUME w > 0
      PROVE  w = 1 /\ a # <<>> /\ UpTo(a \o x, w) = UpTo(a, w) /\ a \o x # <<>>
  <2>1. w = Len(delim) - 1 /\ a # <<>>
    BY <1>5, <1>6 DEF Midway
  <2>2. w = 1
    BY <1>1, <1>6, <2>1
  <2>3. a \o x # <<>>
    BY <1>2, <2>1, JoinedWithNothing
  <2> QED
    BY <1>2, <2>1, <2>2, <2>3, FirstStays
<1>7. a \o x \in ByteSeq
  BY <1>2, Joined
<1>8. Midway(r, a \o x, y, w, e, text, delim, more)
  BY <1>2, <1>3, <1>5, <1>6, <1>7 DEF Midway
<1> QED
  BY <1>8 DEF x, y

\* A peek.
LEMMA MidwayPeeks ==
    ASSUME NEW text, NEW delim, NEW more, NEW r, NEW a, NEW f, NEW e,
           Midway(r, a, f, 0, e, text, delim, more),
           Ends(delim, text), Len(delim) >= 2, a # <<>>, more = <<>>,
           NEW before,
           before = IF Len(r) > Len(delim) THEN From(r, Len(r) - Len(delim) + 1) ELSE <<>>,
           NEW index, index = Find(before \o UpTo(a, Len(delim) + Room), delim),
           NEW w, w = IF index = NotFound THEN Len(delim) - 1 ELSE index - 1 + Len(delim),
           NEW ends \in BOOLEAN, ends <=> index # NotFound
    PROVE  Midway(r, a, f, w, ends, text, delim, more)
<1> /\ text \in ByteSeq /\ delim \in ByteSeq /\ more \in ByteSeq
    /\ r \in ByteSeq /\ a \in ByteSeq /\ f \in ByteSeq
  BY DEF Midway
<1> DEFINE d == Len(delim)
           n == Len(text)
           seen == UpTo(a, d + Room)
<1>1. /\ d \in Nat /\ n \in Nat /\ Len(r) \in Nat /\ Len(a) \in Nat /\ Len(a) > 0
      /\ Room \in Nat /\ d + Room \in Nat /\ delim # <<>> /\ d - 1 \in Nat /\ d - 1 > 0
  <2>1. d \in Nat /\ n \in Nat /\ Len(r) \in Nat /\ Len(a) \in Nat /\ Len(a) # 0
    BY Lengths
  <2>2. d - 1 \in Nat /\ d - 1 > 0 /\ d # 0
    BY <2>1
  <2> QED
    BY <2>1, <2>2, Lengths, WireConstants
<1>2. /\ r \o (a \o f) = text \o (delim \o more) /\ Len(r) < n + d
  BY DEF Midway
<1>3. Sight(Byte, text, delim, more, r, a, f)
  BY <1>1, <1>2 DEF Sight, ByteSeq
<1>4. IF index # NotFound
      THEN /\ f = <<>> /\ index - 1 + d \in Nat /\ index - 1 + d > 0
           /\ r \o UpTo(a, index - 1 + d) = text \o delim
      ELSE Len(r) + Len(seen) < n + d
  <2>1. LET b == IF Len(r) > Len(delim) THEN From(r, Len(r) - Len(delim) + 1) ELSE <<>>
            i == Find(b \o UpTo(a, Len(delim) + Room), delim)
        IN IF i # NotFound
           THEN /\ f = <<>> /\ i - 1 + Len(delim) \in Nat /\ i - 1 + Len(delim) > 0
                /\ r \o UpTo(a, i - 1 + Len(delim)) = text \o delim
           ELSE Len(r) + Len(UpTo(a, Len(delim) + Room)) < Len(text) + Len(delim)
    BY <1>3, Looks
  <2> QED
    BY <2>1
<1>5. CASE index # NotFound
  BY <1>2, <1>4, <1>5 DEF Midway
<1>6. CASE index = NotFound
  <2>1. w = d - 1 /\ Len(r) + Len(seen) < n + d
    BY <1>4, <1>6
  <2>2. Len(seen) = (IF d + Room < Len(a) THEN d + Room ELSE Len(a)) /\ seen \in ByteSeq
    BY <1>1, Cut
  <2>3. UpTo(a, d - 1) \in ByteSeq
        /\ Len(UpTo(a, d - 1)) = (IF d - 1 < Len(a) THEN d - 1 ELSE Len(a))
    BY <1>1, Cut
  <2> DEFINE u == UpTo(a, d - 1)
  <2>4. Len(r \o u) = Len(r) + Len(u)
    BY <2>3, Joined
  <2> HIDE DEF u, seen, n, d
  <2>5. Len(u) <= Len(seen) /\ Len(u) \in Nat /\ Len(seen) \in Nat
    BY <1>1, <2>2, <2>3, Lengths DEF u
  <2>6. Len(r \o u) < n + d
    BY <1>1, <2>1, <2>4, <2>5
  <2> QED
    BY <1>1, <1>2, <1>6, <2>1, <2>6 DEF Midway, u, n, d, seen
<1> QED
  BY <1>5, <1>6

\* A read that does not end the text.
LEMMA MidwayReadsOn ==
    ASSUME NEW text, NEW delim, NEW more, NEW r, NEW a, NEW f, NEW w,
           Midway(r, a, f, w, FALSE, text, delim, more), w > 0
    PROVE  Midway(r \o UpTo(a, w), From(a, w + 1), f, 0, FALSE, text, delim, more)
<1> r \in ByteSeq /\ a \in ByteSeq /\ f \in ByteSeq /\ w \in Nat
  BY DEF Midway
<1> DEFINE u == UpTo(a, w)
           v == From(a, w + 1)
<1>1. u \in ByteSeq /\ v \in ByteSeq /\ u \o v = a /\ Len(u) = IF w < Len(a) THEN w ELSE Len(a)
  BY Cut
<1> HIDE DEF u, v
<1>2. (r \o u) \o (v \o f) = r \o (a \o f)
  <2>1. (r \o u) \o (v \o f) = r \o ((u \o v) \o f)
    <3>1. u \in ByteSeq /\ v \in ByteSeq
      BY <1>1
    <3> DEFINE rest == v \o f
    <3>2. rest \in ByteSeq
      BY <3>1, Joined
    <3>3. (u \o v) \o f = u \o rest
      BY <3>1, JoinedInOrder
    <3> HIDE DEF rest
    <3>4. (r \o u) \o rest = r \o (u \o rest)
      BY <3>1, <3>2, JoinedInOrder
    <3> QED
      BY <3>3, <3>4 DEF rest
  <2> QED
    BY <1>1, <2>1
<1>3. w = Len(delim) - 1 /\ Len(r \o u) < Len(text) + Len(delim)
  BY DEF Midway, u
<1>5. Midway(r \o u, v, f, 0, FALSE, text, delim, more)
  <2>1. r \o u \in ByteSeq
    BY <1>1, Joined
  <2> QED
    BY <1>1, <1>2, <1>3, <2>1 DEF Midway
<1> QED
  BY <1>5 DEF u, v

-----------------------------------------------------------------------------
(* Any text, and what may lie behind it *)

\* What a reader has collected, r, is short of the text and its delimiter, and the rest
\* is still to come.
Within(r, a, f, text, delim, more) ==
    /\ text \in ByteSeq /\ delim \in ByteSeq /\ more \in ByteSeq
    /\ r \in ByteSeq /\ a \in ByteSeq /\ f \in ByteSeq
    /\ r \o (a \o f) = text \o (delim \o more)
    /\ Len(r) < Len(text) + Len(delim)

LEMMA MidwayIsWithin ==
    ASSUME NEW text, NEW delim, NEW more, NEW r, NEW a, NEW f, NEW w, NEW e,
           Midway(r, a, f, w, e, text, delim, more)
    PROVE  Within(r, a, f, text, delim, more)
BY DEF Midway, Within

LEMMA WithinArrives ==
    ASSUME NEW text, NEW delim, NEW more, NEW r, NEW a, NEW f,
           Within(r, a, f, text, delim, more), NEW n \in Nat
    PROVE  Within(r, a \o UpTo(f, n), From(f, n + 1), text, delim, more)
<1> r \in ByteSeq /\ a \in ByteSeq /\ f \in ByteSeq
  BY DEF Within
<1> DEFINE x == UpTo(f, n)
           y == From(f, n + 1)
<1>1. x \in ByteSeq /\ y \in ByteSeq /\ x \o y = f
  BY Cut
<1> HIDE DEF x, y
<1>2. r \o ((a \o x) \o y) = r \o (a \o f) /\ a \o x \in ByteSeq
  <2>1. (a \o x) \o y = a \o (x \o y)
    BY <1>1, JoinedInOrder
  <2> QED
    BY <1>1, <2>1, Joined
<1>3. Within(r, a \o x, y, text, delim, more)
  BY <1>1, <1>2 DEF Within
<1> QED
  BY <1>3 DEF x, y

\* What is in sight up to a delimiter is the text, and what is behind it is the rest.
Stretch(a, f, text, delim, more) ==
    /\ a \in ByteSeq /\ f \in ByteSeq /\ text \in ByteSeq /\ more \in ByteSeq
    /\ delim \in ByteSeq /\ delim # <<>>
    /\ a \o f = text \o (delim \o more) /\ Delimits(delim, text)

LEMMA Cuts ==
    ASSUME NEW a, NEW f, NEW text, NEW delim, NEW more, Stretch(a, f, text, delim, more)
    PROVE  LET index == Find(a, delim)
           IN  /\ index = NotFound <=> Len(a) < Len(text) + Len(delim)
               /\ index # NotFound =>
                     /\ UpTo(a, index - 1) = text /\ index = Len(text) + 1
                     /\ From(a, index + Len(delim)) \in ByteSeq
                     /\ From(a, index + Len(delim)) \o f = more
<1> /\ a \in ByteSeq /\ f \in ByteSeq /\ text \in ByteSeq /\ more \in ByteSeq
    /\ delim \in ByteSeq /\ delim # <<>>
  BY DEF Stretch
<1> SUFFICES ASSUME NEW index, index = Find(a, delim)
             PROVE  /\ index = NotFound <=> Len(a) < Len(text) + Len(delim)
                    /\ index # NotFound =>
                          /\ UpTo(a, index - 1) = text /\ index = Len(text) + 1
                          /\ From(a, index + Len(delim)) \in ByteSeq
                          /\ From(a, index + Len(delim)) \o f = more
  OBVIOUS
<1> DEFINE n == Len(text)
           d == Len(delim)
           plain == text \o delim
<1>1. /\ a \in Seq(Byte) /\ text \in Seq(Byte) /\ f \in Seq(Byte) /\ more \in Seq(Byte)
      /\ delim \in Seq(Byte) /\ d \in Nat
      /\ n \in Nat /\ Len(a) \in Nat /\ Len(f) \in Nat /\ Len(more) \in Nat
  BY Lengths DEF ByteSeq
<1>2. a \o f = text \o (delim \o more) /\ Delimits(delim, text)
  BY DEF Stretch
<1>3. \A j \in 1 .. Len(a) + Len(f) : (a \o f)[j] = IF j <= Len(a) THEN a[j] ELSE f[j - Len(a)]
  BY <1>1, ConcatProperties
<1>4. /\ plain \in Seq(Byte) /\ Len(plain) = n + d
      /\ \A j \in 1 .. n + d : plain[j] = IF j <= n THEN text[j] ELSE delim[j - n]
  BY <1>1, ConcatProperties
<1>5. text \o (delim \o more) = plain \o more
  BY JoinedInOrder
<1> HIDE DEF plain
<1>6. \A j \in 1 .. n + d + Len(more) :
          (plain \o more)[j] = IF j <= n + d THEN plain[j] ELSE more[j - (n + d)]
  BY <1>1, <1>4, ConcatProperties
<1>7. \A j \in 1 .. Len(a) : j <= n + d => a[j] = plain[j]
  <2> SUFFICES ASSUME NEW j \in 1 .. Len(a), j <= n + d
               PROVE  a[j] = plain[j]
    OBVIOUS
  <2>1. j \in 1 .. Len(a) + Len(f) /\ j <= Len(a) /\ j \in 1 .. n + d + Len(more)
    BY <1>1
  <2> QED
    BY <1>2, <1>3, <1>5, <1>6, <2>1
<1>8. Shows(a, 0, text, delim)
  <2>1. \A j \in 1 .. Len(a) : 0 + j = j
    OBVIOUS
  <2> QED
    BY <1>1, <1>7, <2>1 DEF Shows, plain
<1>9. index = IF n + d <= Len(a) THEN n + 1 ELSE NotFound
  <2>1. 0 \in Nat /\ 0 <= n
    BY <1>1
  <2>2. Find(a, delim) = IF n + d <= 0 + Len(a) THEN n + 1 - 0 ELSE NotFound
    BY <1>1, <1>2, <1>8, <2>1, Window
  <2> QED
    BY <1>1, <2>2
<1>10. index = NotFound <=> Len(a) < n + d
  BY <1>1, <1>9 DEF NotFound
<1>11. ASSUME index # NotFound
       PROVE  /\ UpTo(a, index - 1) = text /\ index = n + 1
              /\ From(a, index + d) \in ByteSeq /\ From(a, index + d) \o f = more
  <2>1. /\ index = n + 1 /\ index - 1 = n /\ index + d = (n + d) + 1 /\ n + d \in Nat
        /\ n + d <= Len(a)
    BY <1>1, <1>9, <1>11
  <2> DEFINE u == UpTo(a, n)
             head == UpTo(a, n + d)
             v == From(a, (n + d) + 1)
  <2>2. u = text
    <3>1. /\ u \in Seq(Byte) /\ Len(u) = (IF n < Len(a) THEN n ELSE Len(a))
          /\ \A j \in 1 .. Len(u) : u[j] = a[j]
      BY <1>1, Parts
    <3> HIDE DEF u
    <3>2. /\ Len(u) = n
          /\ \A j \in 1 .. n : j \in 1 .. Len(a) /\ j <= n + d /\ j \in 1 .. n + d /\ j <= n
      BY <1>1, <2>1, <3>1
    <3>3. \A j \in 1 .. n : u[j] = text[j]
      BY <1>4, <1>7, <3>1, <3>2
    <3> QED
      BY <1>1, <3>1, <3>2, <3>3, SeqEqual
  <2>3. head = plain
    <3>1. /\ head \in Seq(Byte) /\ Len(head) = (IF n + d < Len(a) THEN n + d ELSE Len(a))
          /\ \A j \in 1 .. Len(head) : head[j] = a[j]
      BY <1>1, <2>1, Parts
    <3> HIDE DEF head
    <3>2. Len(head) = n + d /\ \A j \in 1 .. n + d : j \in 1 .. Len(a) /\ j <= n + d
      BY <1>1, <2>1, <3>1
    <3>3. \A j \in 1 .. n + d : head[j] = plain[j]
      BY <1>7, <3>1, <3>2
    <3> QED
      BY <1>4, <3>1, <3>2, <3>3, SeqEqual
  <2>4. head \in ByteSeq /\ v \in ByteSeq /\ head \o v = a
    BY <2>1, Cut
  <2> HIDE DEF head, v
  <2>5. v \o f = more
    <3>1. (head \o v) \o f = head \o (v \o f)
      <4>1. head \in ByteSeq /\ v \in ByteSeq /\ f \in ByteSeq
        BY <2>4
      <4>2. \A p, q, s \in ByteSeq : (p \o q) \o s = p \o (q \o s)
        BY JoinedInOrder
      <4> QED
        BY ONLY <4>1, <4>2, Zenon
    <3>2. v \o f \in ByteSeq
      BY <2>4, Joined
    <3>3. (head \o v) \o f = head \o more
      BY <1>2, <1>5, <2>3, <2>4
    <3>4. head \o (v \o f) = head \o more
      BY <3>1, <3>3
    <3> QED
      BY <2>4, <3>2, <3>4, SameRest
  <2> QED
    BY <2>1, <2>2, <2>4, <2>5 DEF v
<1> QED
  BY <1>10, <1>11

\* What a read takes and what it leaves, before what is in flight, are what was
\* there.
LEMMA CutAndJoined ==
    ASSUME NEW a \in ByteSeq, NEW f \in ByteSeq, NEW w \in Nat
    PROVE  a \o f = UpTo(a, w) \o (From(a, w + 1) \o f)
<1>1. /\ UpTo(a, w) \in ByteSeq /\ From(a, w + 1) \in ByteSeq
      /\ UpTo(a, w) \o From(a, w + 1) = a
  BY Cut
<1>2. (UpTo(a, w) \o From(a, w + 1)) \o f = UpTo(a, w) \o (From(a, w + 1) \o f)
  BY <1>1, JoinedInOrder, Zenon
<1> QED
  BY <1>1, <1>2

\* The first line of what has arrived, and what follows it.
LEMMA FirstLineCut ==
    ASSUME NEW a, NEW f, NEW line, NEW more, Stretch(a, f, line, Crlf, more),
           Find(a, Crlf) # NotFound
    PROVE  /\ UpTo(a, Find(a, Crlf) - 1) = line
           /\ From(a, Find(a, Crlf) + 2) \in ByteSeq
           /\ From(a, Find(a, Crlf) + 2) \o f = more
<1>1. /\ UpTo(a, Find(a, Crlf) - 1) = line
      /\ From(a, Find(a, Crlf) + Len(Crlf)) \in ByteSeq
      /\ From(a, Find(a, Crlf) + Len(Crlf)) \o f = more
  BY Cuts, Zenon
<1>2. Len(Crlf) = 2
  BY CrlfIsText
<1> QED
  BY <1>1, <1>2

\* A text that ends with its delimiter, and that text without it.
EndsThere(t, delim) ==
    Find(t, delim) # NotFound /\ Find(t, delim) = Len(t) - Len(delim) + 1
Before(t, delim) == UpTo(t, Len(t) - Len(delim))

\* What a read has taken, and what it left.
Read(t, v, f, text, delim, more) ==
    /\ t \in ByteSeq /\ v \in ByteSeq
    /\ Find(t, delim) = NotFound <=> Len(t) < Len(text) + Len(delim)
    /\ Find(t, delim) = NotFound => Within(t, v, f, text, delim, more)
    /\ EndsThere(t, delim) => Before(t, delim) = text /\ v \o f = more

\* A read: what it takes is short of the delimiter and holds none, or it ends with the
\* delimiter and is the text; it is neither only if bytes behind the delimiter were taken.
LEMMA WithinReads ==
    ASSUME NEW text, NEW delim, NEW more, NEW r, NEW a, NEW f, NEW w \in Nat,
           Within(r, a, f, text, delim, more), delim # <<>>, Delimits(delim, text)
    PROVE  Read(r \o UpTo(a, w), From(a, w + 1), f, text, delim, more)
<1> /\ text \in ByteSeq /\ delim \in ByteSeq /\ more \in ByteSeq
    /\ r \in ByteSeq /\ a \in ByteSeq /\ f \in ByteSeq
  BY DEF Within
<1> DEFINE u == UpTo(a, w)
           v == From(a, w + 1)
           t == r \o u
           rest == v \o f
           index == Find(t, delim)
<1>1. u \in ByteSeq /\ v \in ByteSeq /\ u \o v = a
  BY Cut
<1>2. t = r \o u
  OBVIOUS
<1> HIDE DEF u, v, t
<1>3. t \in ByteSeq /\ rest \in ByteSeq
  BY <1>1, <1>2, Joined
<1>4. t \o rest = r \o (a \o f)
  <2>1. a \o f = u \o rest
    BY CutAndJoined DEF u, v
  <2> HIDE DEF rest
  <2>2. (r \o u) \o rest = r \o (u \o rest)
    <3>1. r \in ByteSeq /\ u \in ByteSeq /\ rest \in ByteSeq
      BY <1>1, <1>3
    <3> QED
      BY <3>1, JoinedInOrder, Zenon
  <2> QED
    BY <1>2, <2>1, <2>2
<1>5. t \o rest = text \o (delim \o more)
  BY <1>4 DEF Within
<1>6. Stretch(t, rest, text, delim, more)
  BY <1>3, <1>5 DEF Stretch
<1>7. /\ index = NotFound <=> Len(t) < Len(text) + Len(delim)
      /\ index # NotFound =>
            /\ UpTo(t, index - 1) = text /\ index = Len(text) + 1
            /\ From(t, index + Len(delim)) \in ByteSeq
            /\ From(t, index + Len(delim)) \o rest = more
  <2> HIDE DEF rest
  <2> QED
    BY <1>6, Cuts, Zenon
<1>8. index = NotFound => Within(t, v, f, text, delim, more)
  BY <1>1, <1>3, <1>5, <1>7 DEF Within
<1>9. ASSUME index # NotFound, index = Len(t) - Len(delim) + 1
      PROVE  UpTo(t, Len(t) - Len(delim)) = text /\ rest = more
  <2>1. Len(t) \in Nat /\ Len(delim) \in Nat
    BY <1>3, Lengths
  <2>2. index - 1 = Len(t) - Len(delim) /\ index + Len(delim) = Len(t) + 1
    BY <1>9, <2>1
  <2>3. From(t, Len(t) + 1) = <<>>
    <3>1. t \in Seq(Byte)
      BY <1>3 DEF ByteSeq
    <3> QED
      BY <2>1, <3>1, SubSeqEmpty DEF From
  <2> HIDE DEF index, rest
  <2>4. <<>> \o rest = more
    BY <1>7, <1>9, <2>2, <2>3
  <2> QED
    BY <1>3, <1>7, <1>9, <2>2, <2>4, JoinedWithNothing
<1>10. EndsThere(t, delim) => Before(t, delim) = text /\ v \o f = more
  BY <1>9 DEF EndsThere, Before
<1>11. Read(t, v, f, text, delim, more)
  BY <1>1, <1>3, <1>7, <1>8, <1>10 DEF Read
<1> QED
  BY <1>11 DEF t, v, u

-----------------------------------------------------------------------------
(* Whose turn it is *)

\* A side reads a text up to its delimiter, with more behind it.  At the last or only
\* line before the other side's turn the reader sees or stays short of the end; at any
\* other text nothing is said of what it is about to take.
Reading(side, text, delim, more) ==
    /\ Within(result[side], arrived[side], flight[side], text, delim, more)
    /\ delim = Crlf /\ more = <<>> =>
          Midway(result[side], arrived[side], flight[side], want[side], found[side],
                 text, delim, more)

\* Nothing is left to read.
Idle(side) ==
    /\ result[side] = <<>> /\ arrived[side] = <<>> /\ flight[side] = <<>>
    /\ want[side] = 0 /\ found[side] = FALSE

WireTypes ==
    /\ protocol \in {"smtp", "pop3"}
    /\ flight \in [Sides -> ByteSeq] /\ arrived \in [Sides -> ByteSeq]
    /\ result \in [Sides -> ByteSeq]
    /\ want \in [Sides -> Nat] /\ found \in [Sides -> BOOLEAN]
    /\ waits \in [Sides -> {"reply", "command", "message", "answer", "nothing", "end"}]
    /\ answer \in Seq(ByteSeq) /\ heard \in Seq(ByteSeq)

Requests == IF protocol = "smtp" THEN Commands ELSE P3Requests
RequestText == IF protocol = "smtp" THEN CommandText(said) ELSE P3Text(said)

\* What the server takes the last line or message for.
Meaning == IF said[1] \in {"NONE", "MESSAGE"} THEN said
           ELSE IF protocol = "smtp" THEN ParseCommand(RequestText) ELSE P3Parse(RequestText)
Understood == understood = Meaning /\ (said \in Requests \/ said[1] \in {"NONE", "MESSAGE"})

\* A command or message is on its way.
Asking ==
    /\ waits["client"] = "reply" /\ heard = <<>> /\ Idle("client")
    /\ \/ /\ waits["server"] = "command"
          /\ said \in Requests /\ Reading("server", RequestText, Crlf, <<>>)
       \/ /\ waits["server"] = "message" /\ protocol = "smtp"
          /\ \E message \in Messages :
                said = <<"MESSAGE", message>> /\ Reading("server", message, EndOfData, <<>>)

\* The server has read it.
Asked ==
    /\ waits["client"] = "reply" /\ waits["server"] = "answer" /\ heard = <<>>
    /\ Idle("client") /\ Idle("server")
    /\ Understood /\ said[1] # "NONE" /\ (said[1] = "MESSAGE" => protocol = "smtp")

ReplyOf(kind, lines) ==
    IF kind = "smtp" THEN \E type \in DOMAIN Code : lines = Response(type)
    ELSE \E ok \in BOOLEAN, listed \in {"none"} \cup DOMAIN Lists : lines = P3Response(ok, listed)
IsReply == ReplyOf(protocol, answer)

\* The server has dropped it, or the connection with it.
Unanswered ==
    /\ waits["client"] = "reply" /\ waits["server"] \in {"command", "end"} /\ heard = <<>>
    /\ Idle("client") /\ Idle("server") /\ answer = <<>>

\* The server has answered and reads the next command, or the message.
Served ==
    /\ waits["server"] \in {"command", "message", "end"}
    /\ waits["server"] = "message" => protocol = "smtp"
    /\ Idle("server") /\ Understood /\ IsReply

\* The client reads the reply's next line.  To a mail reader nothing but its socket
\* counts.
NextLineComes(more) ==
    /\ Sent(answer, Len(answer)) = Sent(answer, Len(heard) + 1) \o more
    /\ Reading("client", answer[Len(heard) + 1], Crlf, more)
SocketOnly ==
    protocol = "pop3" =>
        result["client"] = <<>> /\ want["client"] = 0 /\ found["client"] = FALSE
LineComes == SocketOnly /\ \E more \in ByteSeq : NextLineComes(more)

\* Lines of a reply are on their way.
Answering ==
    /\ waits["client"] = "reply" /\ Served
    /\ Len(heard) <= Len(answer) /\ \A i \in 1 .. Len(heard) : heard[i] = answer[i]
    /\ IF Len(heard) = Len(answer) THEN Idle("client") ELSE LineComes

\* Nothing is.
Quiet ==
    /\ waits["client"] = "nothing" /\ Served
    /\ Idle("client") /\ heard = answer

Turns == Asking \/ Asked \/ Unanswered \/ Answering \/ Quiet

\* A command ends at its delimiter and is none of the names kept for what is none.
LEMMA RequestsEnd ==
    ASSUME TextsEnd, said \in Requests
    PROVE  /\ RequestText \in ByteSeq /\ Ends(Crlf, RequestText)
           /\ said[1] # "NONE" /\ said[1] # "MESSAGE"
           /\ protocol = "smtp" => said[1] \in DOMAIN Keyword
<1>1. CASE protocol = "smtp"
  <2>1. said \in Commands /\ RequestText = CommandText(said)
    BY <1>1 DEF Requests, RequestText
  <2>2. CommandText(said) \in ByteSeq /\ Ends(Crlf, CommandText(said))
    BY <2>1, RequestsAreText DEF TextsEnd
  <2>3. said[1] \in DOMAIN Keyword
    BY <2>1, WireConstants
  <2>4. "NONE" \notin DOMAIN Keyword /\ "MESSAGE" \notin DOMAIN Keyword
    BY DEF Keyword
  <2> QED
    BY <2>1, <2>2, <2>3, <2>4
<1>2. CASE protocol # "smtp"
  <2>1. said \in P3Requests /\ RequestText = P3Text(said)
    BY <1>2 DEF Requests, RequestText
  <2>2. P3Text(said) \in ByteSeq /\ Ends(Crlf, P3Text(said))
    BY <2>1, RequestsAreText DEF TextsEnd
  <2>3. said[1] \in DOMAIN P3Keyword
    BY <2>1, WireConstants
  <2>4. "NONE" \notin DOMAIN P3Keyword /\ "MESSAGE" \notin DOMAIN P3Keyword
    BY DEF P3Keyword
  <2> QED
    BY <1>2, <2>1, <2>2, <2>3, <2>4
<1> QED
  BY <1>1, <1>2

\* A reply is lines that end at their delimiters and that show which of them is not the
\* last.
GoesOn(kind, line) == IF kind = "smtp" THEN Len(line) >= 4 /\ line[4] = "-" ELSE line # <<".">>

LEMMA RepliesAreLines ==
    ASSUME TextsEnd, NEW kind, NEW lines, ReplyOf(kind, lines)
    PROVE  /\ lines \in Seq(ByteSeq) /\ Len(lines) >= 1
           /\ \A i \in 1 .. Len(lines) :
                 /\ Delimits(Crlf, lines[i])
                 /\ kind = "smtp" => Ends(Crlf, lines[i])
                 /\ i # Len(lines) => GoesOn(kind, lines[i])
<1>1. ASSUME kind = "smtp", NEW type \in DOMAIN Code, lines = Response(type)
      PROVE  /\ lines \in Seq(ByteSeq) /\ Len(lines) >= 1
             /\ Len(lines) > 1 => type = "EHLO"
             /\ \A i \in 1 .. Len(lines) : i # Len(lines) => GoesOn(kind, lines[i])
  <2>1. CASE type = "EHLO"
    <3>1. /\ lines \in Seq(ByteSeq) /\ Len(lines) = 1 + Len(Services)
          /\ \A i \in 1 .. Len(Services) : Len(lines[i]) >= 4 /\ lines[i][4] = "-"
      BY <1>1, <2>1, EhloIsLines
    <3>2. Len(Services) \in Nat
      BY WireConstants
    <3>3. \A i \in 1 .. Len(lines) : i # Len(lines) => i \in 1 .. Len(Services)
      BY <3>1, <3>2
    <3>4. Len(lines) >= 1
      BY <3>1, <3>2
    <3> QED
      BY <1>1, <2>1, <3>1, <3>3, <3>4 DEF GoesOn
  <2>2. CASE type # "EHLO"
    <3>1. lines \in Seq(ByteSeq) /\ Len(lines) = 1
      BY <1>1, <2>2, ResponsesAreLines
    <3>2. \A i \in 1 .. Len(lines) : i = Len(lines)
      BY <3>1
    <3> QED
      BY <3>1, <3>2
  <2> QED
    BY <2>1, <2>2
<1>2. CASE kind = "smtp"
  <2>1. PICK type \in DOMAIN Code : lines = Response(type)
    BY <1>2 DEF ReplyOf
  <2>2. /\ lines \in Seq(ByteSeq) /\ Len(lines) >= 1
        /\ Len(lines) > 1 => type = "EHLO"
        /\ \A i \in 1 .. Len(lines) : i # Len(lines) => GoesOn(kind, lines[i])
    BY <1>1, <1>2, <2>1
  <2>3. DOMAIN lines = 1 .. Len(lines)
    BY <2>2
  <2>4. \A i \in 1 .. Len(lines) : Ends(Crlf, lines[i])
    BY <2>1, <2>3 DEF TextsEnd
  <2>6. \A i \in 1 .. Len(lines) : Delimits(Crlf, lines[i])
    BY <2>4 DEF Ends
  <2> QED
    BY <2>2, <2>4, <2>6
<1>3. CASE kind # "smtp"
  <2>1. PICK ok \in BOOLEAN, listed \in {"none"} \cup DOMAIN Lists : lines = P3Response(ok, listed)
    BY <1>3 DEF ReplyOf
  <2>2. /\ lines \in Seq(ByteSeq) /\ Len(lines) >= 1
        /\ \A i \in 1 .. Len(lines) : Delimits(Crlf, lines[i])
        /\ Len(lines) > 1 => \A i \in 1 .. Len(lines) - 1 : lines[i] # <<".">>
    BY <2>1, P3ResponsesAreLines
  <2>3. \A i \in 1 .. Len(lines) : i # Len(lines) => Len(lines) > 1 /\ i \in 1 .. Len(lines) - 1
    BY <2>2
  <2>4. \A i \in 1 .. Len(lines) : i # Len(lines) => GoesOn(kind, lines[i])
    BY <1>3, <2>2, <2>3 DEF GoesOn
  <2> QED
    BY <1>3, <2>2, <2>4
<1> QED
  BY <1>2, <1>3

\* After some lines of what is sent comes the next, or nothing.
LEMMA NextLine ==
    ASSUME NEW lines \in Seq(ByteSeq), NEW k \in 0 .. Len(lines) - 1, NEW rest \in ByteSeq,
           Sent(lines, Len(lines)) = Sent(lines, k) \o rest
    PROVE  \E more \in ByteSeq : /\ Sent(lines, Len(lines)) = Sent(lines, k + 1) \o more
                                 /\ rest = lines[k + 1] \o (Crlf \o more)
<1> DEFINE line == lines[k + 1]
           whole == line \o Crlf
           before == Sent(lines, k)
<1>1. k + 1 \in 0 .. Len(lines) /\ k + 1 \in 1 .. Len(lines) /\ k \in 0 .. Len(lines)
  OBVIOUS
<1>2. PICK more \in ByteSeq : Sent(lines, Len(lines)) = Sent(lines, k + 1) \o more
  BY <1>1, SentRest
<1>3. line \in ByteSeq /\ before \in ByteSeq /\ Sent(lines, k + 1) = before \o whole
  <2>1. line \in ByteSeq
    BY <1>1, ElementOfSeq
  <2> QED
    BY <1>1, <2>1, SentGrows
<1>4. whole \in ByteSeq
  BY <1>3, CrlfIsText, Joined
<1> HIDE DEF line, before
<1>5. whole \o more = line \o (Crlf \o more)
  BY <1>3, CrlfIsText, JoinedInOrder
<1> HIDE DEF whole
<1> DEFINE next == whole \o more
<1>6. next \in ByteSeq
  BY <1>4, Joined
<1>7. (before \o whole) \o more = before \o next
  BY <1>3, <1>4, JoinedInOrder
<1>8. before \o rest = before \o next
  BY <1>2, <1>3, <1>7 DEF before
<1> HIDE DEF next
<1>9. rest = next
  BY <1>3, <1>6, <1>8, SameRest
<1>10. rest = line \o (Crlf \o more)
  BY <1>5, <1>9 DEF next
<1> QED
  BY <1>2, <1>10 DEF line

\* After all of what is sent comes nothing.
LEMMA NoLine ==
    ASSUME NEW lines \in Seq(ByteSeq), NEW rest \in ByteSeq,
           Sent(lines, Len(lines)) = Sent(lines, Len(lines)) \o rest
    PROVE  rest = <<>>
<1> DEFINE all == Sent(lines, Len(lines))
<1>1. all \in ByteSeq
  <2>1. Len(lines) \in 0 .. Len(lines)
    OBVIOUS
  <2> QED
    BY <2>1, SentGrows
<1> HIDE DEF all
<1>2. all \o <<>> = all \o rest
  BY <1>1, JoinedWithNothing DEF all
<1> QED
  BY <1>1, <1>2, JoinedWithNothing, SameRest

-----------------------------------------------------------------------------
(* Steps *)

Same(side) ==
    /\ result'[side] = result[side] /\ arrived'[side] = arrived[side]
    /\ flight'[side] = flight[side] /\ want'[side] = want[side] /\ found'[side] = found[side]

\* What a step leaves alone stays as it was.
LEMMA IdleStays ==
    ASSUME NEW side, Idle(side), Same(side)
    PROVE  Idle(side)'
BY DEF Idle, Same

LEMMA UnderstoodStays ==
    ASSUME Understood, UNCHANGED <<protocol, said, understood>>
    PROVE  Understood'
<1>1. RequestText' = RequestText /\ Requests' = Requests
  BY DEF RequestText, Requests
<1>2. Meaning' = Meaning
  BY <1>1 DEF Meaning
<1> QED
  BY <1>1, <1>2 DEF Understood

LEMMA ServedStays ==
    ASSUME Served, UNCHANGED <<protocol, said, understood, answer>>, Same("server"),
           waits'["server"] = waits["server"]
    PROVE  Served'
<1>1. Idle("server")' /\ Understood'
  BY IdleStays, UnderstoodStays DEF Served
<1>2. IsReply'
  BY DEF Served, IsReply
<1> QED
  BY <1>1, <1>2 DEF Served

\* Who has something to read reads a command or message, or a line of a reply.
LEMMA WhoReads ==
    ASSUME Turns, NEW side \in Sides, ~Idle(side)
    PROVE  \/ Asking /\ side = "server"
           \/ Answering /\ LineComes /\ Len(heard) # Len(answer) /\ side = "client"
<1>1. side = "client" \/ side = "server"
  BY DEF Sides
<1> QED
  BY <1>1 DEF Turns, Asking, Asked, Unanswered, Answering, Quiet, Served

LEMMA SidesDiffer == "client" \in Sides /\ "server" \in Sides
BY DEF Sides

\* While the reader is at work only its own state changes; what it reads stays.
LEMMA AskingGoesOn ==
    ASSUME Asking, UNCHANGED <<protocol, waits, said, answer, understood, heard>>, Same("client"),
           \A text, delim :
               Reading("server", text, delim, <<>>)
                   /\ (IF waits["server"] = "message"
                       THEN text \in Messages /\ delim = EndOfData
                       ELSE text = RequestText /\ delim = Crlf /\ said \in Requests)
               => Reading("server", text, delim, <<>>)'
    PROVE  Turns'
<1>1. RequestText' = RequestText /\ Requests' = Requests
  BY DEF RequestText, Requests
<1>2. Idle("client")'
  BY IdleStays DEF Asking
<1>3. CASE /\ waits["server"] = "command" /\ said \in Requests
           /\ Reading("server", RequestText, Crlf, <<>>)
  <2>1. Reading("server", RequestText, Crlf, <<>>)'
    <3> DEFINE text == RequestText
    <3>1. Reading("server", text, Crlf, <<>>) => Reading("server", text, Crlf, <<>>)'
      BY <1>1, <1>3
    <3> QED
      BY <1>3, <3>1
  <2> QED
    BY <1>1, <1>2, <1>3, <2>1 DEF Asking, Turns
<1>4. ASSUME waits["server"] = "message", protocol = "smtp", NEW message \in Messages,
             said = <<"MESSAGE", message>>, Reading("server", message, EndOfData, <<>>)
      PROVE  Turns'
  <2>1. Reading("server", message, EndOfData, <<>>)'
    BY <1>4
  <2> QED
    BY <1>2, <1>4, <2>1 DEF Asking, Turns
<1> QED
  BY <1>3, <1>4 DEF Asking

LEMMA AnsweringGoesOn ==
    ASSUME Answering, Len(heard) # Len(answer),
           UNCHANGED <<protocol, waits, said, answer, understood, heard>>, Same("server"),
           \A more : NextLineComes(more) => Reading("client", answer[Len(heard) + 1], Crlf, more)',
           SocketOnly'
    PROVE  Turns'
<1>1. Served'
  BY ServedStays DEF Answering
<1>2. PICK more \in ByteSeq : NextLineComes(more)
  BY DEF Answering, LineComes
<1>3. NextLineComes(more)'
  BY <1>2 DEF NextLineComes
<1>4. LineComes'
  BY <1>3 DEF LineComes
<1> QED
  BY <1>1, <1>4 DEF Answering, Turns

LEMMA ArriveKeeps ==
    ASSUME TextsEnd, WireTypes, Turns, NEW side \in Sides, Arrive(side)
    PROVE  WireTypes' /\ Turns'
<1>1. PICK n \in 1 .. Len(flight[side]) :
          /\ arrived' = [arrived EXCEPT ![side] = @ \o UpTo(flight[side], n)]
          /\ flight' = [flight EXCEPT ![side] = From(@, n + 1)]
  BY DEF Arrive
<1>2. UNCHANGED <<protocol, result, want, found, waits, said, answer, understood, heard>>
  BY DEF Arrive
<1>3. /\ flight \in [Sides -> ByteSeq] /\ arrived \in [Sides -> ByteSeq]
      /\ arrived[side] \in ByteSeq /\ flight[side] \in ByteSeq /\ n \in Nat
  BY DEF WireTypes
<1>4. UpTo(flight[side], n) \in ByteSeq /\ From(flight[side], n + 1) \in ByteSeq
  BY <1>3, Cut
<1>5. arrived[side] \o UpTo(flight[side], n) \in ByteSeq
  BY <1>3, <1>4, Joined
<1>6. WireTypes'
  BY <1>1, <1>2, <1>3, <1>4, <1>5 DEF WireTypes
<1>7. /\ arrived'[side] = arrived[side] \o UpTo(flight[side], n)
      /\ flight'[side] = From(flight[side], n + 1)
      /\ result'[side] = result[side] /\ want'[side] = want[side] /\ found'[side] = found[side]
  BY <1>1, <1>2, <1>3
<1>8. \A other \in Sides : other # side => Same(other)
  BY <1>1, <1>2, <1>3 DEF Same
<1>9. ASSUME NEW text, NEW delim, NEW more, Reading(side, text, delim, more)
      PROVE  Reading(side, text, delim, more)'
  <2>1. Within(result[side], arrived[side] \o UpTo(flight[side], n), From(flight[side], n + 1),
               text, delim, more)
    BY <1>3, <1>9, WithinArrives DEF Reading
  <2>2. ASSUME delim = Crlf, more = <<>>
        PROVE  Midway(result[side], arrived[side] \o UpTo(flight[side], n),
                      From(flight[side], n + 1), want[side], found[side], text, delim, more)
    <3>1. Midway(result[side], arrived[side], flight[side], want[side], found[side],
                 text, delim, more)
      BY <1>9, <2>2 DEF Reading
    <3>2. Len(delim) = 2
      BY <2>2, CrlfIsText
    <3> QED
      BY <3>1, <3>2, MidwayArrives
  <2> QED
    BY <1>7, <2>1, <2>2 DEF Reading
<1>10. ~ Idle(side)
  BY DEF Idle, Arrive, Nothing
<1>11. CASE Asking /\ side = "server"
  <2>1. Same("client")
    BY <1>8, <1>11, SidesDiffer
  <2>2. \A text, delim :
           Reading("server", text, delim, <<>>)
               /\ (IF waits["server"] = "message"
                   THEN text \in Messages /\ delim = EndOfData
                   ELSE text = RequestText /\ delim = Crlf /\ said \in Requests)
           => Reading("server", text, delim, <<>>)'
    BY <1>9, <1>11
  <2>3. Turns'
    BY <1>2, <1>11, <2>1, <2>2, AskingGoesOn
  <2> QED
    BY <1>6, <2>3
<1>12. CASE Answering /\ LineComes /\ Len(heard) # Len(answer) /\ side = "client"
  <2>1. Same("server")
    BY <1>8, <1>12, SidesDiffer
  <2>2. \A more : NextLineComes(more) => Reading("client", answer[Len(heard) + 1], Crlf, more)'
    <3> SUFFICES ASSUME NEW more, NextLineComes(more)
                 PROVE  Reading("client", answer[Len(heard) + 1], Crlf, more)'
      OBVIOUS
    <3> DEFINE line == answer[Len(heard) + 1]
    <3>1. Reading("client", line, Crlf, more) => Reading("client", line, Crlf, more)'
      BY <1>2, <1>9, <1>12
    <3> QED
      BY <1>2, <3>1 DEF NextLineComes
  <2>3. SocketOnly'
    BY <1>2, <1>12 DEF LineComes, SocketOnly
  <2>4. Turns'
    BY <1>2, <1>12, <2>1, <2>2, <2>3, AnsweringGoesOn
  <2> QED
    BY <1>6, <2>4
<1> QED
  BY <1>6, <1>10, <1>11, <1>12, WhoReads

\* What lies behind the line a client reads: nothing, if the reply has no other.
LEMMA OnlyLine ==
    ASSUME WireTypes, Answering, Len(heard) # Len(answer), NEW more, NextLineComes(more)
    PROVE  /\ Len(heard) + 1 \in 1 .. Len(answer) /\ Len(heard) \in Nat /\ Len(answer) \in Nat
           /\ ~ (Len(answer) > 1) => more = <<>>
<1> DEFINE k == Len(heard)
<1>1. k \in Nat /\ Len(answer) \in Nat
  BY LenProperties DEF WireTypes
<1>2. k <= Len(answer) /\ k # Len(answer)
  BY DEF Answering
<1> HIDE DEF k
<1>3. k + 1 \in 1 .. Len(answer)
  BY <1>1, <1>2
<1>4. ASSUME ~ (Len(answer) > 1)
      PROVE  more = <<>>
  <2>1. Len(answer) = k + 1
    BY <1>1, <1>3, <1>4
  <2>2. more \in ByteSeq /\ answer \in Seq(ByteSeq)
    BY DEF NextLineComes, Reading, Within, WireTypes
  <2>3. Sent(answer, Len(answer)) = Sent(answer, Len(answer)) \o more
    BY <2>1 DEF NextLineComes, k
  <2> QED
    BY <2>2, <2>3, NoLine
<1> QED
  BY <1>1, <1>3, <1>4 DEF k

\* The lines of what is read are as TextsEnd has them.
LEMMA LineEnds ==
    ASSUME TextsEnd, WireTypes, Answering, Len(heard) # Len(answer)
    PROVE  /\ Delimits(Crlf, answer[Len(heard) + 1])
           /\ protocol = "smtp" => Ends(Crlf, answer[Len(heard) + 1])
<1>1. Len(heard) + 1 \in 1 .. Len(answer)
  <2>1. Len(heard) \in Nat /\ Len(answer) \in Nat /\ Len(heard) <= Len(answer)
    BY LenProperties DEF Answering, WireTypes
  <2> QED
    BY <2>1
<1> QED
  BY <1>1, RepliesAreLines DEF Answering, Served, IsReply

LEMMA PeekKeeps ==
    ASSUME TextsEnd, WireTypes, Turns, NEW side \in Sides, Peek(side)
    PROVE  WireTypes' /\ Turns'
<1> DEFINE r == result[side]
           a == arrived[side]
           f == flight[side]
           delim == Delimiter(side)
           before == IF Len(r) > Len(delim) THEN From(r, Len(r) - Len(delim) + 1) ELSE <<>>
           index == Find(before \o UpTo(a, Len(delim) + Room), delim)
           w == IF index = NotFound THEN Len(delim) - 1 ELSE index - 1 + Len(delim)
           ends == index # NotFound
<1>1. /\ protocol = "smtp" \/ side = "server"
      /\ want[side] = 0 /\ a # <<>>
      /\ found' = [found EXCEPT ![side] = ends]
      /\ want' = [want EXCEPT ![side] = w]
      /\ UNCHANGED <<protocol, flight, arrived, result, waits, said, answer, understood, heard>>
  BY DEF Peek, Nothing
<1>2. /\ want \in [Sides -> Nat] /\ found \in [Sides -> BOOLEAN]
      /\ r \in ByteSeq /\ a \in ByteSeq /\ flight[side] \in ByteSeq
      /\ found[side] \in BOOLEAN
  BY DEF WireTypes
<1>3. ends \in BOOLEAN /\ (ends <=> index # NotFound)
  OBVIOUS
<1>4. delim \in ByteSeq /\ Len(delim) \in Nat /\ Len(delim) >= 2
  <2>1. delim = Crlf \/ delim = EndOfData
    BY DEF Delimiter
  <2> HIDE DEF delim
  <2>2. CASE delim = Crlf
    BY <2>2, CrlfIsText
  <2>3. CASE delim = EndOfData
    BY <2>3, EndOfDataIsText
  <2> QED
    BY <2>1, <2>2, <2>3
<1>5. w \in Nat
  <2> DEFINE sight == before \o UpTo(a, Len(delim) + Room)
  <2>1. before \in ByteSeq
    <3>1. CASE Len(r) > Len(delim)
      <4>1. r \in Seq(Byte) /\ Len(r) \in Nat
        BY <1>2 DEF ByteSeq
      <4>2. Len(delim) <= Len(r)
        BY <1>4, <3>1, <4>1
      <4> HIDE DEF r, delim
      <4>3. From(r, Len(r) - Len(delim) + 1) \in Seq(Byte)
        BY <1>4, <4>1, <4>2, End
      <4> QED
        BY <3>1, <4>3 DEF ByteSeq
    <3> QED
      BY <3>1, JoinedWithNothing
  <2>2. UpTo(a, Len(delim) + Room) \in ByteSeq
    BY <1>2, <1>4, WireConstants, Cut
  <2>3. sight \in ByteSeq
    BY <2>1, <2>2, Joined
  <2> HIDE DEF sight, before, delim
  <2>4. sight \in Seq(Byte) /\ delim \in Seq(Byte)
    BY <1>4, <2>3 DEF ByteSeq
  <2>5. Find(sight, delim) \in Nat \/ Find(sight, delim) = NotFound
    BY <2>4, FindsFirst
  <2>6. index = Find(sight, delim)
    BY DEF sight
  <2> HIDE DEF index
  <2> QED
    BY <1>4, <2>5, <2>6 DEF NotFound
<1> HIDE DEF index, w, ends
<1>6. want'[side] = w /\ found'[side] = ends
  BY <1>1, <1>2
<1>7. WireTypes'
  BY <1>1, <1>2, <1>3, <1>5 DEF WireTypes
<1>8. ASSUME NEW text, NEW d, NEW more, Reading(side, text, d, more), d = delim,
             d = Crlf => Ends(d, text)
      PROVE  Reading(side, text, d, more)'
  <2>1. /\ result'[side] = r /\ arrived'[side] = a /\ flight'[side] = f
        /\ want'[side] = w /\ found'[side] = ends
    BY <1>1, <1>6
  <2>2. Within(r, a, f, text, d, more)
    BY <1>8 DEF Reading
  <2>3. ASSUME d = Crlf, more = <<>>
        PROVE  Midway(r, a, f, w, ends, text, d, more)
    <3>1. Midway(r, a, f, 0, found[side], text, d, more)
      BY <1>1, <1>8, <2>3 DEF Reading
    <3>2. /\ index = Find((IF Len(r) > Len(d) THEN From(r, Len(r) - Len(d) + 1) ELSE <<>>)
                             \o UpTo(a, Len(d) + Room), d)
          /\ w = IF index = NotFound THEN Len(d) - 1 ELSE index - 1 + Len(d)
      BY <1>8 DEF index, w
    <3>3. Ends(d, text) /\ Len(d) >= 2
      BY <1>4, <1>8, <2>3
    <3> HIDE DEF before, r, a, f, delim
    <3> QED
      BY <1>1, <1>3, <2>3, <3>1, <3>2, <3>3, MidwayPeeks
  <2> HIDE DEF r, a, f
  <2> QED
    BY <2>1, <2>2, <2>3 DEF Reading
<1>9. ~ Idle(side)
  BY <1>1 DEF Idle
<1>10. \A other \in Sides : other # side => Same(other)
  BY <1>1, <1>2 DEF Same
<1>11. CASE Asking /\ side = "server"
  <2>1. Same("client")
    BY <1>10, <1>11, SidesDiffer
  <2>2. ASSUME NEW text, NEW d, Reading("server", text, d, <<>>),
               IF waits["server"] = "message" THEN text \in Messages /\ d = EndOfData
               ELSE text = RequestText /\ d = Crlf /\ said \in Requests
        PROVE  Reading("server", text, d, <<>>)'
    <3>1. d = delim
      BY <1>11, <2>2 DEF Delimiter
    <3>2. d = Crlf => Ends(d, text)
      <4>1. EndOfData # Crlf
        BY CrlfIsText, EndOfDataIsText
      <4> QED
        BY <2>2, <4>1, RequestsEnd
    <3> HIDE DEF delim, r, f, a
    <3> QED
      BY <1>8, <1>11, <2>2, <3>1, <3>2
  <2>3. \A text, d :
           Reading("server", text, d, <<>>)
               /\ (IF waits["server"] = "message" THEN text \in Messages /\ d = EndOfData
                   ELSE text = RequestText /\ d = Crlf /\ said \in Requests)
           => Reading("server", text, d, <<>>)'
    BY <2>2
  <2>4. Turns'
    BY <1>1, <1>11, <2>1, <2>3, AskingGoesOn
  <2> QED
    BY <1>7, <2>4
<1>12. CASE Answering /\ LineComes /\ Len(heard) # Len(answer) /\ side = "client"
  <2>1. Same("server")
    BY <1>10, <1>12, SidesDiffer
  <2>2. protocol = "smtp" /\ delim = Crlf
    BY <1>1, <1>12 DEF Delimiter, Answering
  <2>3. ASSUME NEW more, NextLineComes(more)
        PROVE  Reading("client", answer[Len(heard) + 1], Crlf, more)'
    <3>1. PICK text, d : text = answer[Len(heard) + 1] /\ d = Crlf
      OBVIOUS
    <3>2. Reading(side, text, d, more)
      BY <1>12, <2>3, <3>1 DEF NextLineComes
    <3>3. d = delim /\ Ends(d, text)
      BY <1>12, <2>2, <3>1, LineEnds
    <3>4. Reading(side, text, d, more)'
      BY <1>8, <3>2, <3>3
    <3>5. answer'[Len(heard') + 1] = text
      BY <1>1, <3>1
    <3> QED
      BY <1>12, <3>1, <3>4, <3>5 DEF Reading
  <2>4. SocketOnly'
    BY <1>1, <2>2 DEF SocketOnly
  <2>5. Turns'
    BY <1>1, <1>12, <2>1, <2>3, <2>4, AnsweringGoesOn
  <2> QED
    BY <1>7, <2>5
<1> QED
  BY <1>9, <1>11, <1>12, WhoReads

LEMMA ReadOnKeeps ==
    ASSUME TextsEnd, WireTypes, Turns, NEW side \in Sides, ReadOn(side), WellRead(side)
    PROVE  WireTypes' /\ Turns'
<1> DEFINE r == result[side]
           a == arrived[side]
           f == flight[side]
           w == want[side]
           taken == r \o UpTo(a, w)
           left == From(a, w + 1)
<1>1. /\ w > 0 /\ ~found[side]
      /\ arrived' = [arrived EXCEPT ![side] = left]
      /\ want' = [want EXCEPT ![side] = 0]
      /\ found' = [found EXCEPT ![side] = FALSE]
      /\ result' = [result EXCEPT ![side] = taken]
      /\ UNCHANGED <<protocol, flight, waits, said, answer, understood, heard>>
  BY DEF ReadOn, Consume, Taken
<1>2. /\ want \in [Sides -> Nat] /\ found \in [Sides -> BOOLEAN]
      /\ result \in [Sides -> ByteSeq] /\ arrived \in [Sides -> ByteSeq]
      /\ r \in ByteSeq /\ a \in ByteSeq /\ w \in Nat /\ found[side] \in BOOLEAN
  BY DEF WireTypes
<1>3. taken \in ByteSeq /\ left \in ByteSeq
  BY <1>2, Cut, Joined
<1>4. Find(taken, Delimiter(side)) = NotFound
  BY <1>1 DEF WellRead, Taken
<1>5. ASSUME NEW text, NEW delim, NEW more, Reading(side, text, delim, more),
             delim = Delimiter(side), delim # <<>>, Delimits(delim, text)
      PROVE  /\ Within(taken, left, f, text, delim, more)
             /\ delim = Crlf /\ more = <<>> =>
                   Midway(taken, left, f, 0, FALSE, text, delim, more)
  <2>1. found[side] = FALSE
    BY <1>1, <1>2
  <2>2. Within(r, a, f, text, delim, more)
    BY <1>5 DEF Reading
  <2>3. Within(taken, left, f, text, delim, more)
    <3> HIDE DEF r, a, f, w
    <3>1. PICK t, v : t = taken /\ v = left
      OBVIOUS
    <3>2. t = r \o UpTo(a, w) /\ v = From(a, w + 1) /\ Find(t, delim) = NotFound
      BY <1>4, <1>5, <3>1
    <3> HIDE DEF taken, left
    <3>3. Within(t, v, f, text, delim, more)
      <4>1. Read(r \o UpTo(a, w), From(a, w + 1), f, text, delim, more)
        BY <1>2, <1>5, <2>2, WithinReads
      <4> QED
        BY <3>2, <4>1 DEF Read
    <3> QED
      BY <3>1, <3>3
  <2>4. delim = Crlf /\ more = <<>> => Midway(r, a, f, w, FALSE, text, delim, more)
    BY <1>5, <2>1 DEF Reading
  <2> QED
    BY <1>1, <2>3, <2>4, MidwayReadsOn
<1> HIDE DEF taken, left
<1>6. WireTypes'
  BY <1>1, <1>2, <1>3 DEF WireTypes
<1>7. /\ result'[side] = taken /\ arrived'[side] = left /\ flight'[side] = f
      /\ want'[side] = 0 /\ found'[side] = FALSE
  BY <1>1, <1>2
<1>8. \A other \in Sides : other # side => Same(other)
  BY <1>1, <1>2 DEF Same
<1>9. ASSUME NEW text, NEW delim, NEW more, Reading(side, text, delim, more),
             delim = Delimiter(side), delim # <<>>, Delimits(delim, text)
      PROVE  Reading(side, text, delim, more)'
  BY <1>5, <1>7, <1>9 DEF Reading
<1>10. ~ Idle(side)
  BY <1>1, <1>2 DEF Idle
<1>11. CASE Asking /\ side = "server"
  <2>1. Same("client")
    BY <1>8, <1>11, SidesDiffer
  <2>2. ASSUME NEW text, NEW delim, Reading("server", text, delim, <<>>),
               IF waits["server"] = "message" THEN text \in Messages /\ delim = EndOfData
               ELSE text = RequestText /\ delim = Crlf /\ said \in Requests
        PROVE  Reading("server", text, delim, <<>>)'
    <3>1. delim = Delimiter(side) /\ delim # <<>>
      BY <1>11, <2>2, CrlfIsText, EndOfDataIsText DEF Delimiter
    <3>2. Delimits(delim, text)
      BY <2>2, RequestsEnd DEF TextsEnd, Ends
    <3> QED
      BY <1>9, <1>11, <2>2, <3>1, <3>2
  <2>3. \A text, delim :
           Reading("server", text, delim, <<>>)
               /\ (IF waits["server"] = "message"
                   THEN text \in Messages /\ delim = EndOfData
                   ELSE text = RequestText /\ delim = Crlf /\ said \in Requests)
           => Reading("server", text, delim, <<>>)'
    BY <2>2
  <2>4. Turns'
    BY <1>1, <1>11, <2>1, <2>3, AskingGoesOn
  <2> QED
    BY <1>6, <2>4
<1>12. CASE Answering /\ LineComes /\ Len(heard) # Len(answer) /\ side = "client"
  <2>1. Same("server")
    BY <1>8, <1>12, SidesDiffer
  <2>2. ASSUME NEW more, NextLineComes(more)
        PROVE  Reading("client", answer[Len(heard) + 1], Crlf, more)'
    <3>1. PICK text, delim : text = answer[Len(heard) + 1] /\ delim = Crlf
      OBVIOUS
    <3>2. Reading(side, text, delim, more)
      BY <1>12, <2>2, <3>1 DEF NextLineComes
    <3>3. delim = Delimiter(side) /\ delim # <<>> /\ Delimits(delim, text)
      BY <1>12, <3>1, CrlfIsText, LineEnds DEF Delimiter, Answering
    <3>4. Reading(side, text, delim, more)'
      BY <1>9, <3>2, <3>3
    <3>5. answer'[Len(heard') + 1] = text
      BY <1>1, <3>1
    <3> QED
      BY <1>12, <3>1, <3>4, <3>5 DEF Reading
  <2>3. SocketOnly'
    BY <1>1, <1>2, <1>12 DEF LineComes, SocketOnly
  <2>4. Turns'
    BY <1>1, <1>12, <2>1, <2>2, <2>3, AnsweringGoesOn
  <2> QED
    BY <1>6, <2>4
<1> QED
  BY <1>10, <1>11, <1>12, WhoReads

\* A read that ends well at the delimiter: readToDelim returns the text without it and
\* leaves what is behind.
LEMMA Takes ==
    ASSUME WireTypes, NEW side \in Sides, Consume(side), found[side], WellRead(side),
           NEW text, NEW delim, NEW more, delim = Delimiter(side), delim # <<>>,
           Delimits(delim, text), Reading(side, text, delim, more)
    PROVE  /\ Line(side) = text
           /\ arrived'[side] \in ByteSeq /\ arrived'[side] \o flight[side] = more
           /\ result'[side] = <<>> /\ want'[side] = 0 /\ found'[side] = FALSE
           /\ \A other \in Sides : other # side =>
                 /\ result'[other] = result[other] /\ arrived'[other] = arrived[other]
                 /\ want'[other] = want[other] /\ found'[other] = found[other]
           /\ result' \in [Sides -> ByteSeq] /\ arrived' \in [Sides -> ByteSeq]
           /\ want' \in [Sides -> Nat] /\ found' \in [Sides -> BOOLEAN]
<1> DEFINE taken == Taken(side)
           left == From(arrived[side], want[side] + 1)
<1>1. /\ want \in [Sides -> Nat] /\ found \in [Sides -> BOOLEAN]
      /\ result \in [Sides -> ByteSeq] /\ arrived \in [Sides -> ByteSeq]
      /\ found[side] = TRUE /\ want[side] \in Nat
  BY DEF WireTypes
<1>2. /\ Find(taken, delim) # NotFound
      /\ Find(taken, delim) = Len(taken) - Len(delim) + 1
  BY <1>1 DEF WellRead
<1>3. /\ UpTo(taken, Len(taken) - Len(delim)) = text
      /\ left \in ByteSeq /\ left \o flight[side] = more
  <2> DEFINE r == result[side]
             a == arrived[side]
             f == flight[side]
             w == want[side]
  <2>1. Within(r, a, f, text, delim, more) /\ w \in Nat
    BY <1>1 DEF Reading
  <2>2. EndsThere(r \o UpTo(a, w), delim)
    BY <1>2 DEF EndsThere, Taken
  <2> HIDE DEF r, a, f, w
  <2>3. /\ Before(r \o UpTo(a, w), delim) = text
        /\ From(a, w + 1) \in ByteSeq /\ From(a, w + 1) \o f = more
    <3>1. Read(r \o UpTo(a, w), From(a, w + 1), f, text, delim, more)
      BY <2>1, WithinReads
    <3> QED
      BY <2>2, <3>1 DEF Read
  <2> QED
    BY <2>3 DEF r, a, f, w, Before, Taken
<1>4. /\ arrived' = [arrived EXCEPT ![side] = left]
      /\ want' = [want EXCEPT ![side] = 0]
      /\ found' = [found EXCEPT ![side] = FALSE]
      /\ result' = [result EXCEPT ![side] = <<>>]
  BY DEF Consume, Nothing
<1>5. Line(side) = text
  BY <1>3 DEF Line
<1>6. <<>> \in ByteSeq
  BY JoinedWithNothing
<1> HIDE DEF taken, left
<1> QED
  BY <1>1, <1>3, <1>4, <1>5, <1>6

\* And a read of the last or only line does end well.
LEMMA LastLineWell ==
    ASSUME WireTypes, NEW side \in Sides, Consume(side), Delimiter(side) = Crlf,
           NEW text, Delimits(Crlf, text), Reading(side, text, Crlf, <<>>)
    PROVE  WellRead(side)
<1> DEFINE r == result[side]
           a == arrived[side]
           f == flight[side]
           w == want[side]
           e == found[side]
           t == r \o UpTo(a, w)
           delim == Crlf
<1>1. w \in Nat /\ w > 0 /\ e \in BOOLEAN
  BY DEF WireTypes, Consume
<1>2. Midway(r, a, f, w, e, text, delim, <<>>)
  BY DEF Reading
<1>3. Delimits(delim, text) /\ delim # <<>> /\ delim \in ByteSeq /\ Len(delim) = 2
  BY CrlfIsText
<1>4. t = Taken(side)
  BY DEF Taken
<1> HIDE DEF r, a, f, w, e, delim
<1>5. Within(r, a, f, text, delim, <<>>) /\ text \in ByteSeq
  BY <1>2, MidwayIsWithin DEF Midway
<1>6. /\ t \in ByteSeq
      /\ Find(t, delim) = NotFound <=> Len(t) < Len(text) + Len(delim)
  <2>1. Read(r \o UpTo(a, w), From(a, w + 1), f, text, delim, <<>>)
    BY <1>1, <1>3, <1>5, WithinReads
  <2> QED
    BY <2>1 DEF Read
<1>7. CASE e
  <2>1. t = text \o delim
    BY <1>2, <1>7 DEF Midway
  <2>2. Len(t) = Len(text) + Len(delim) /\ Len(text) \in Nat
    BY <1>3, <1>5, <2>1, Joined, Lengths
  <2>3. Find(t, delim) = Len(text) + 1
    BY <1>3, <2>1 DEF Delimits
  <2> HIDE DEF t
  <2>4. Find(t, delim) # NotFound /\ Find(t, delim) = Len(t) - Len(delim) + 1
    BY <1>3, <2>2, <2>3 DEF NotFound
  <2> QED
    BY <1>4, <1>7, <2>4 DEF WellRead, e, delim
<1>8. CASE ~e
  <2>1. Len(t) < Len(text) + Len(delim)
    BY <1>1, <1>2, <1>8 DEF Midway
  <2> HIDE DEF t
  <2>2. Find(t, delim) = NotFound
    BY <1>6, <2>1
  <2> QED
    BY <1>4, <1>8, <2>2 DEF WellRead, e, delim
<1> QED
  BY <1>1, <1>7, <1>8

\* The server takes a command.
LEMMA TakeCommandKeeps ==
    ASSUME TextsEnd, WireTypes, Turns, TakeCommand, WellRead("server")
    PROVE  WireTypes' /\ Turns'
<1>1. /\ waits["server"] = "command" /\ Consume("server") /\ found["server"]
      /\ understood' = (IF protocol = "smtp" THEN ParseCommand(Line("server"))
                        ELSE P3Parse(Line("server")))
      /\ waits' = [waits EXCEPT !["server"] = "answer"]
      /\ UNCHANGED <<protocol, flight, said, answer, heard>>
  BY DEF TakeCommand
<1>2. ~ Idle("server")
  BY <1>1 DEF Idle
<1>3. Asking
  BY <1>2, WhoReads, SidesDiffer
<1>4. /\ waits["client"] = "reply" /\ heard = <<>> /\ Idle("client")
      /\ said \in Requests /\ Reading("server", RequestText, Crlf, <<>>)
  BY <1>1, <1>3 DEF Asking
<1>5. Delimiter("server") = Crlf /\ Delimits(Crlf, RequestText) /\ Crlf # <<>>
  BY <1>1, <1>4, RequestsEnd, CrlfIsText DEF Delimiter, Ends
<1>6. /\ Line("server") = RequestText
      /\ arrived'["server"] \in ByteSeq /\ arrived'["server"] \o flight["server"] = <<>>
      /\ result'["server"] = <<>> /\ want'["server"] = 0 /\ found'["server"] = FALSE
      /\ \A other \in Sides : other # "server" =>
            /\ result'[other] = result[other] /\ arrived'[other] = arrived[other]
            /\ want'[other] = want[other] /\ found'[other] = found[other]
      /\ result' \in [Sides -> ByteSeq] /\ arrived' \in [Sides -> ByteSeq]
      /\ want' \in [Sides -> Nat] /\ found' \in [Sides -> BOOLEAN]
  BY <1>1, <1>4, <1>5, Takes, SidesDiffer
<1>7. waits'["client"] = "reply" /\ waits'["server"] = "answer"
      /\ waits' \in [Sides -> {"reply", "command", "message", "answer", "nothing", "end"}]
  BY <1>1, <1>4, SidesDiffer DEF WireTypes
<1>8. WireTypes'
  BY <1>1, <1>6, <1>7 DEF WireTypes
<1>9. Idle("server")'
  <2>1. flight["server"] \in ByteSeq /\ flight'["server"] = flight["server"]
    BY <1>1, SidesDiffer DEF WireTypes
  <2>2. arrived'["server"] = <<>> /\ flight["server"] = <<>>
    BY <1>6, <2>1, JoinedWithNothing
  <2> QED
    BY <1>6, <2>1, <2>2 DEF Idle
<1>10. Idle("client")'
  BY <1>1, <1>4, <1>6, SidesDiffer DEF Idle
<1>11. Understood' /\ said'[1] # "NONE" /\ said'[1] # "MESSAGE"
  <2>1. said[1] # "NONE" /\ said[1] # "MESSAGE"
    BY <1>4, RequestsEnd
  <2>2. RequestText' = RequestText /\ Requests' = Requests
    BY <1>1 DEF RequestText, Requests
  <2>3. understood' = (IF protocol = "smtp" THEN ParseCommand(RequestText)
                       ELSE P3Parse(RequestText))
    BY <1>1, <1>6
  <2> QED
    BY <1>1, <1>4, <2>1, <2>2, <2>3 DEF Understood, Meaning
<1>12. Asked'
  BY <1>1, <1>4, <1>7, <1>9, <1>10, <1>11 DEF Asked
<1> QED
  BY <1>8, <1>12 DEF Turns

\* And a message.
LEMMA TakeMessageKeeps ==
    ASSUME TextsEnd, WireTypes, Turns, TakeMessage, WellRead("server")
    PROVE  WireTypes' /\ Turns'
<1>1. /\ waits["server"] = "message" /\ Consume("server") /\ found["server"]
      /\ understood' = <<"MESSAGE", Line("server")>>
      /\ waits' = [waits EXCEPT !["server"] = "answer"]
      /\ UNCHANGED <<protocol, flight, said, answer, heard>>
  BY DEF TakeMessage
<1>2. ~ Idle("server")
  BY <1>1 DEF Idle
<1>3. Asking
  BY <1>2, WhoReads, SidesDiffer
<1>4. waits["client"] = "reply" /\ heard = <<>> /\ Idle("client") /\ protocol = "smtp"
  BY <1>1, <1>3 DEF Asking
<1>5. PICK message \in Messages :
          said = <<"MESSAGE", message>> /\ Reading("server", message, EndOfData, <<>>)
  BY <1>1, <1>3 DEF Asking
<1>6. Delimiter("server") = EndOfData /\ Delimits(EndOfData, message) /\ EndOfData # <<>>
  BY <1>1, EndOfDataIsText DEF Delimiter, TextsEnd
<1>7. /\ Line("server") = message
      /\ arrived'["server"] \in ByteSeq /\ arrived'["server"] \o flight["server"] = <<>>
      /\ result'["server"] = <<>> /\ want'["server"] = 0 /\ found'["server"] = FALSE
      /\ \A other \in Sides : other # "server" =>
            /\ result'[other] = result[other] /\ arrived'[other] = arrived[other]
            /\ want'[other] = want[other] /\ found'[other] = found[other]
      /\ result' \in [Sides -> ByteSeq] /\ arrived' \in [Sides -> ByteSeq]
      /\ want' \in [Sides -> Nat] /\ found' \in [Sides -> BOOLEAN]
  BY <1>1, <1>5, <1>6, Takes, SidesDiffer
<1>8. waits'["client"] = "reply" /\ waits'["server"] = "answer"
      /\ waits' \in [Sides -> {"reply", "command", "message", "answer", "nothing", "end"}]
  BY <1>1, <1>4, SidesDiffer DEF WireTypes
<1>9. WireTypes'
  BY <1>1, <1>7, <1>8 DEF WireTypes
<1>10. Idle("server")'
  <2>1. flight["server"] \in ByteSeq /\ flight'["server"] = flight["server"]
    BY <1>1, SidesDiffer DEF WireTypes
  <2>2. arrived'["server"] = <<>> /\ flight["server"] = <<>>
    BY <1>7, <2>1, JoinedWithNothing
  <2> QED
    BY <1>7, <2>1, <2>2 DEF Idle
<1>11. Idle("client")'
  BY <1>1, <1>4, <1>7, SidesDiffer DEF Idle
<1>12. said[1] = "MESSAGE" /\ understood' = said
  BY <1>1, <1>5, <1>7
<1>13. Understood'
  BY <1>1, <1>12 DEF Understood, Meaning
<1>14. Asked'
  BY <1>1, <1>4, <1>8, <1>10, <1>11, <1>12, <1>13 DEF Asked
<1> QED
  BY <1>9, <1>14 DEF Turns

\* The client sends a command; the server reads no message then.
LEMMA SayKeeps ==
    ASSUME TextsEnd, WireTypes, Turns, waits["server"] = "command", Say
    PROVE  WireTypes' /\ Turns'
<1>1. PICK command \in Requests :
          /\ said' = command
          /\ Write("client", IF protocol = "smtp" THEN BuildCommand(command) ELSE P3Line(command))
  BY DEF Say, Requests
<1>2. /\ waits["client"] = "nothing" /\ heard' = <<>>
      /\ waits' = [waits EXCEPT !["client"] = "reply"]
      /\ UNCHANGED <<protocol, arrived, result, want, found, answer, understood>>
  BY DEF Say
<1>3. Idle("client") /\ Idle("server")
  BY <1>2 DEF Turns, Asking, Asked, Unanswered, Answering, Quiet, Served
<1>4. said' \in Requests' /\ Requests' = Requests
  BY <1>1, <1>2 DEF Requests
<1>5. PICK text : text = RequestText'
  OBVIOUS
<1>6. text \in ByteSeq /\ Ends(Crlf, text)
      /\ flight' = [flight EXCEPT !["server"] = @ \o (text \o Crlf)]
  <2>1. CASE protocol = "smtp"
    <3>1. command \in Commands /\ text = CommandText(command)
      BY <1>1, <1>2, <1>5, <2>1 DEF Requests, RequestText
    <3> QED
      BY <1>1, <2>1, <3>1, RequestsAreText DEF Write, Other, BuildCommand, TextsEnd
  <2>2. CASE protocol # "smtp"
    <3>1. command \in P3Requests /\ text = P3Text(command)
      BY <1>1, <1>2, <1>5, <2>2 DEF Requests, RequestText
    <3> QED
      BY <1>1, <2>2, <3>1, RequestsAreText DEF Write, Other, P3Line, TextsEnd
  <2> QED
    BY <2>1, <2>2
<1>7. flight["server"] = <<>> /\ text \o Crlf \in ByteSeq
      /\ <<>> \o (text \o Crlf) = text \o Crlf
  <2>1. text \o Crlf \in ByteSeq
    BY <1>6, CrlfIsText, Joined
  <2> QED
    BY <1>3, <2>1, JoinedWithNothing DEF Idle
<1>8. /\ flight' \in [Sides -> ByteSeq] /\ flight'["server"] = text \o Crlf
      /\ flight'["client"] = flight["client"]
  BY <1>6, <1>7, SidesDiffer DEF WireTypes
<1>9. /\ waits' \in [Sides -> {"reply", "command", "message", "answer", "nothing", "end"}]
      /\ waits'["client"] = "reply" /\ waits'["server"] = "command"
  BY <1>2, SidesDiffer DEF WireTypes
<1>10. WireTypes'
  <2>1. <<>> \in Seq(ByteSeq)
    BY EmptySeq
  <2> QED
    BY <1>2, <1>8, <1>9, <2>1 DEF WireTypes
<1>11. Reading("server", RequestText, Crlf, <<>>)'
  <2>1. <<>> \o (text \o Crlf) = text \o (Crlf \o <<>>)
    BY <1>7, CrlfIsText, JoinedWithNothing
  <2>2. /\ Midway(<<>>, <<>>, text \o Crlf, 0, FALSE, text, Crlf, <<>>)
        /\ Within(<<>>, <<>>, text \o Crlf, text, Crlf, <<>>)
    BY <1>6, <1>7, <2>1, CrlfIsText, JoinedWithNothing, MidwayStarts, MidwayIsWithin
  <2>3. /\ result'["server"] = <<>> /\ arrived'["server"] = <<>>
        /\ want'["server"] = 0 /\ found'["server"] = FALSE
    BY <1>2, <1>3 DEF Idle
  <2> QED
    BY <1>5, <1>8, <2>2, <2>3 DEF Reading
<1>12. Idle("client")'
  BY <1>2, <1>3, <1>8 DEF Idle
<1>13. Asking'
  BY <1>2, <1>4, <1>9, <1>11, <1>12 DEF Asking
<1> QED
  BY <1>10, <1>13 DEF Turns

\* The client sends a message.
LEMMA SayMessageKeeps ==
    ASSUME TextsEnd, WireTypes, Turns, SayMessage
    PROVE  WireTypes' /\ Turns'
<1>1. PICK message \in Messages :
          said' = <<"MESSAGE", message>> /\ Write("client", message \o EndOfData)
  BY DEF SayMessage
<1>2. /\ waits["client"] = "nothing" /\ waits["server"] = "message" /\ heard' = <<>>
      /\ waits' = [waits EXCEPT !["client"] = "reply"]
      /\ UNCHANGED <<protocol, arrived, result, want, found, answer, understood>>
  BY DEF SayMessage
<1>3. Idle("client") /\ Idle("server") /\ protocol = "smtp"
  BY <1>2 DEF Turns, Asking, Asked, Unanswered, Answering, Quiet, Served
<1>4. message \in ByteSeq
  BY RequestsAreText
<1>5. flight["server"] = <<>> /\ message \o EndOfData \in ByteSeq
      /\ <<>> \o (message \o EndOfData) = message \o EndOfData
  <2>1. message \o EndOfData \in ByteSeq
    BY <1>4, EndOfDataIsText, Joined
  <2> QED
    BY <1>3, <2>1, JoinedWithNothing DEF Idle
<1>6. flight' = [flight EXCEPT !["server"] = @ \o (message \o EndOfData)]
  BY <1>1 DEF Write, Other
<1>7. /\ flight' \in [Sides -> ByteSeq] /\ flight'["server"] = message \o EndOfData
      /\ flight'["client"] = flight["client"]
  BY <1>5, <1>6, SidesDiffer DEF WireTypes
<1>8. /\ waits' \in [Sides -> {"reply", "command", "message", "answer", "nothing", "end"}]
      /\ waits'["client"] = "reply" /\ waits'["server"] = "message"
  BY <1>2, SidesDiffer DEF WireTypes
<1>9. WireTypes'
  <2>1. <<>> \in Seq(ByteSeq)
    BY EmptySeq
  <2> QED
    BY <1>2, <1>7, <1>8, <2>1 DEF WireTypes
<1>10. Reading("server", message, EndOfData, <<>>)'
  <2>1. <<>> \o (message \o EndOfData) = message \o (EndOfData \o <<>>)
    BY <1>5, EndOfDataIsText, JoinedWithNothing
  <2>2. /\ Midway(<<>>, <<>>, message \o EndOfData, 0, FALSE, message, EndOfData, <<>>)
        /\ Within(<<>>, <<>>, message \o EndOfData, message, EndOfData, <<>>)
    BY <1>4, <1>5, <2>1, EndOfDataIsText, JoinedWithNothing, MidwayStarts, MidwayIsWithin
  <2>3. /\ result'["server"] = <<>> /\ arrived'["server"] = <<>>
        /\ want'["server"] = 0 /\ found'["server"] = FALSE
    BY <1>2, <1>3 DEF Idle
  <2> QED
    BY <1>7, <2>2, <2>3 DEF Reading
<1>11. Idle("client")'
  BY <1>2, <1>3, <1>7 DEF Idle
<1>12. Asking'
  BY <1>1, <1>2, <1>3, <1>8, <1>10, <1>11 DEF Asking
<1> QED
  BY <1>9, <1>12 DEF Turns

\* The server answers what it has read.
LEMMA ReplyKeeps ==
    ASSUME TextsEnd, WireTypes, Turns, NEW lines, NEW next \in {"command", "message", "end"},
           next = "message" => protocol = "smtp", Reply(lines, next), ReplyOf(protocol, lines)
    PROVE  WireTypes' /\ Turns'
<1> DEFINE all == Sent(lines, Len(lines))
<1>1. /\ waits["server"] = "answer" /\ answer' = lines
      /\ flight' = [flight EXCEPT !["client"] = @ \o all]
      /\ waits' = [waits EXCEPT !["server"] = next]
      /\ UNCHANGED <<protocol, arrived, result, want, found, said, understood, heard>>
  BY DEF Reply, Write, Other, Sent
<1>2. /\ waits["client"] = "reply" /\ heard = <<>>
      /\ Idle("client") /\ Idle("server") /\ Understood
  BY <1>1 DEF Turns, Asking, Asked, Unanswered, Answering, Quiet, Served
<1>3. lines \in Seq(ByteSeq) /\ Len(lines) \in Nat /\ Len(lines) >= 1
  BY RepliesAreLines
<1>4. Sent(lines, 0) = <<>> /\ all \in ByteSeq
  <2>1. Len(lines) \in 0 .. Len(lines)
    BY <1>3
  <2> QED
    BY <1>3, <2>1, SentGrows
<1> HIDE DEF all
<1>5. <<>> \o all = all
  BY <1>4, JoinedWithNothing
<1>6. PICK more \in ByteSeq : all = Sent(lines, 1) \o more /\ all = lines[1] \o (Crlf \o more)
  <2>1. 0 \in 0 .. Len(lines) - 1 /\ 0 + 1 = 1
    BY <1>3
  <2>2. Sent(lines, Len(lines)) = Sent(lines, 0) \o all
    BY <1>4, <1>5 DEF all
  <2>3. \E more \in ByteSeq : /\ Sent(lines, Len(lines)) = Sent(lines, 0 + 1) \o more
                              /\ all = lines[0 + 1] \o (Crlf \o more)
    BY <1>3, <1>4, <2>1, <2>2, NextLine
  <2> QED
    BY <2>1, <2>3 DEF all
<1>7. lines[1] \in ByteSeq
  <2>1. 1 \in 1 .. Len(lines)
    BY <1>3
  <2> QED
    BY <1>3, <2>1, ElementOfSeq
<1>8. /\ flight' \in [Sides -> ByteSeq] /\ flight'["client"] = all
      /\ flight'["server"] = flight["server"]
  <2>1. flight["client"] = <<>>
    BY <1>2 DEF Idle
  <2> QED
    BY <1>1, <1>4, <1>5, <2>1, SidesDiffer DEF WireTypes
<1>9. /\ waits' \in [Sides -> {"reply", "command", "message", "answer", "nothing", "end"}]
      /\ waits'["client"] = "reply" /\ waits'["server"] = next
  BY <1>1, <1>2, SidesDiffer DEF WireTypes
<1>10. WireTypes'
  BY <1>1, <1>3, <1>8, <1>9 DEF WireTypes
<1>11. Idle("server")'
  BY <1>1, <1>2, <1>8 DEF Idle
<1>12. Understood'
  BY <1>1, <1>2, UnderstoodStays
<1>13. Served'
  BY <1>1, <1>9, <1>11, <1>12 DEF Served, IsReply
<1>14. /\ result'["client"] = <<>> /\ arrived'["client"] = <<>>
       /\ want'["client"] = 0 /\ found'["client"] = FALSE
  BY <1>1, <1>2 DEF Idle
<1>15. /\ Midway(<<>>, <<>>, all, 0, FALSE, lines[1], Crlf, more)
       /\ Within(<<>>, <<>>, all, lines[1], Crlf, more)
  BY <1>4, <1>5, <1>6, <1>7, CrlfIsText, JoinedWithNothing, MidwayStarts, MidwayIsWithin
<1>16. Len(heard') = 0 /\ Len(heard') + 1 = 1
  BY <1>1, <1>2
<1>17. NextLineComes(more)'
  <2>1. Reading("client", answer[Len(heard) + 1], Crlf, more)'
    BY <1>1, <1>8, <1>14, <1>15, <1>16 DEF Reading
  <2> QED
    BY <1>1, <1>6, <1>16, <2>1 DEF NextLineComes, all
<1>19. LineComes'
  BY <1>14, <1>17 DEF LineComes, SocketOnly
<1>20. Answering'
  <2>1. Len(heard') <= Len(answer') /\ Len(heard') # Len(answer')
    BY <1>1, <1>3, <1>16
  <2>2. \A i \in 1 .. Len(heard') : heard'[i] = answer'[i]
    BY <1>16
  <2> QED
    BY <1>9, <1>13, <1>19, <2>1, <2>2 DEF Answering
<1> QED
  BY <1>10, <1>20 DEF Turns

\* What the parser may name has replies.
LEMMA AnswersAreReplies ==
    ASSUME NEW type \in DOMAIN Keyword \cup {"UNKNOWN", "MESSAGE"}
    PROVE  Answers(type) \subseteq DOMAIN Code
<1>1. Errors \subseteq DOMAIN Code
  BY DEF Errors, Code
<1>2. DOMAIN Keyword = {"HELO", "EHLO", "HELP", "START_TLS", "SU", "MAIL_FROM", "RCPT_TO",
                        "DATA", "QUIT", "AUTH", "FCAPA"}
  BY DEF Keyword
<1>3. {"MAIL_FROM", "AUTH_NOT_ALLOWED", "RCPT_TO", "RELAY_FAIL", "REC_NOT_LOCAL", "DATA_START",
       "ORDER_ERR", "QUIT_GOODBYE", "HELP_RESP", "SU_ACC", "SU_DENIED", "FCAPA_RESP",
       "AUTH_SUCCESS", "AUTH_FAIL", "INVALID_COMMAND", "DATA_END", "SPF_REJECT",
       "HELO", "EHLO", "START_TLS"} \subseteq DOMAIN Code
  BY DEF Code
<1>4. CASE type \in {"HELO", "EHLO", "START_TLS"}
  <2>1. Answers(type) = {type} \cup Errors
    BY <1>4 DEF Answers
  <2> QED
    BY <1>1, <1>3, <1>4, <2>1
<1>5. CASE type \in {"MAIL_FROM", "RCPT_TO", "DATA", "QUIT", "HELP"}
  BY <1>1, <1>3, <1>5 DEF Answers
<1>6. CASE type \in {"SU", "FCAPA", "AUTH", "UNKNOWN", "MESSAGE"}
  BY <1>1, <1>3, <1>6 DEF Answers
<1> QED
  BY <1>2, <1>4, <1>5, <1>6

\* And nothing else is named.
LEMMA ParserNames ==
    ASSUME NEW raw
    PROVE  ParseCommand(raw)[1] \in DOMAIN Keyword \cup {"UNKNOWN"}
<1>1. ASSUME NEW cut
      PROVE  Parsed(Keyword, raw, cut)[1] \in DOMAIN Keyword \cup {"UNKNOWN"}
  <2> DEFINE named == {type \in DOMAIN Keyword :
                          Keyword[type] = IF cut = NotFound THEN raw ELSE UpTo(raw, cut - 1)}
  <2>1. Parsed(Keyword, raw, cut)[1]
            = IF named = {} THEN "UNKNOWN" ELSE CHOOSE type \in named : TRUE
    BY DEF Parsed
  <2>2. named # {} => (CHOOSE type \in named : TRUE) \in named
    OBVIOUS
  <2>3. named \subseteq DOMAIN Keyword
    OBVIOUS
  <2> HIDE DEF named
  <2> QED
    BY <2>1, <2>2, <2>3
<1> QED
  BY <1>1 DEF ParseCommand

\* The server answers a command or message,
LEMMA AnswerCommandKeeps ==
    ASSUME TextsEnd, WireTypes, Turns, AnswerCommand
    PROVE  WireTypes' /\ Turns'
<1>1. PICK type \in Answers(understood[1]) :
          Reply(Response(type), IF type = "DATA_START" THEN "message"
                                ELSE IF type \in {"QUIT_GOODBYE", "SU_DENIED"} THEN "end"
                                ELSE "command")
  BY DEF AnswerCommand
<1>2. protocol = "smtp" /\ waits["server"] = "answer"
  BY <1>1 DEF AnswerCommand, Reply
<1>3. Asked
  BY <1>2 DEF Turns, Asking, Unanswered, Answering, Quiet, Served
<1>4. understood[1] \in DOMAIN Keyword \cup {"UNKNOWN", "MESSAGE"}
  BY <1>2, <1>3, ParserNames DEF Asked, Understood, Meaning
<1>5. type \in DOMAIN Code
  BY <1>1, <1>4, AnswersAreReplies
<1>6. ReplyOf(protocol, Response(type))
  BY <1>2, <1>5 DEF ReplyOf
<1>7. PICK next \in {"command", "message", "end"} : Reply(Response(type), next)
  BY <1>1
<1> QED
  BY <1>2, <1>6, <1>7, ReplyKeeps

\* or a mail reader's command.
LEMMA AnswerRequestKeeps ==
    ASSUME TextsEnd, WireTypes, Turns, AnswerRequest
    PROVE  WireTypes' /\ Turns'
<1>1. PICK ok \in BOOLEAN, listed \in {"none"} \cup DOMAIN Lists :
          Reply(P3Response(ok, listed), IF understood[1] = "QUIT" THEN "end" ELSE "command")
  BY DEF AnswerRequest
<1>2. protocol = "pop3"
  BY DEF AnswerRequest
<1>3. ReplyOf(protocol, P3Response(ok, listed))
  BY <1>2 DEF ReplyOf
<1>4. PICK next \in {"command", "end"} : Reply(P3Response(ok, listed), next)
  BY <1>1
<1> QED
  BY <1>3, <1>4, ReplyKeeps

\* The server answers nothing.
LEMMA NoReplyKeeps ==
    ASSUME WireTypes, Turns, NoReply
    PROVE  WireTypes' /\ Turns'
<1>1. PICK next \in {"command", "end"} : waits' = [waits EXCEPT !["server"] = next]
  BY DEF NoReply
<1>2. /\ waits["server"] = "answer" /\ answer' = <<>>
      /\ UNCHANGED <<protocol, flight, arrived, result, want, found, said, understood, heard>>
  BY DEF NoReply
<1>3. Asked
  BY <1>2 DEF Turns, Asking, Unanswered, Answering, Quiet, Served
<1>4. /\ waits' \in [Sides -> {"reply", "command", "message", "answer", "nothing", "end"}]
      /\ waits'["client"] = "reply" /\ waits'["server"] = next
  BY <1>1, <1>3, SidesDiffer DEF WireTypes, Asked
<1>5. WireTypes'
  <2>1. <<>> \in Seq(ByteSeq)
    BY EmptySeq
  <2> QED
    BY <1>2, <1>4, <2>1 DEF WireTypes
<1>6. Idle("client")' /\ Idle("server")'
  BY <1>2, <1>3 DEF Asked, Idle
<1>7. Unanswered'
  BY <1>2, <1>3, <1>4, <1>6 DEF Unanswered, Asked
<1> QED
  BY <1>5, <1>7 DEF Turns

\* The client has read a line: it was the next of the reply, and if it looked like the
\* last it was.
LEMMA HearKeeps ==
    ASSUME TextsEnd, WireTypes, Answering, Len(heard) # Len(answer),
           NEW more, NextLineComes(more), NEW line, line = answer[Len(heard) + 1], Hear(line),
           result'["client"] = <<>>, want'["client"] = 0, found'["client"] = FALSE,
           arrived'["client"] \in ByteSeq, arrived'["client"] \o flight["client"] = more,
           Same("server")
    PROVE  Turns' /\ heard' \in Seq(ByteSeq)
<1> DEFINE k == Len(heard)
           a == arrived'["client"]
           f == flight["client"]
<1>1. /\ heard' = Append(heard, line)
      /\ waits' = [waits EXCEPT !["client"] = IF IsLast(line) THEN "nothing" ELSE @]
      /\ UNCHANGED <<protocol, flight, said, answer, understood>>
  BY DEF Hear
<1>2. /\ waits["client"] = "reply" /\ Served /\ IsReply
      /\ k <= Len(answer) /\ \A i \in 1 .. k : heard[i] = answer[i]
  BY DEF Answering, Served
<1>3. /\ answer \in Seq(ByteSeq) /\ heard \in Seq(ByteSeq) /\ k \in Nat /\ Len(answer) \in Nat
      /\ f \in ByteSeq /\ more \in ByteSeq
  <2>1. more \in ByteSeq
    BY DEF NextLineComes, Reading, Within
  <2>2. f \in ByteSeq /\ answer \in Seq(ByteSeq) /\ heard \in Seq(ByteSeq)
    BY SidesDiffer DEF WireTypes
  <2> QED
    BY <2>1, <2>2, LenProperties
<1>4. k + 1 \in 1 .. Len(answer) /\ k + 1 \in 0 .. Len(answer) /\ k + 1 \in Nat
  BY <1>2, <1>3
<1>5. line \in ByteSeq
  BY <1>3, <1>4, ElementOfSeq
<1>6. heard' \in Seq(ByteSeq) /\ Len(heard') = k + 1
      /\ \A i \in 1 .. k + 1 : heard'[i] = answer[i]
  <2>1. /\ heard' \in Seq(ByteSeq) /\ Len(heard') = k + 1
        /\ \A i \in 1 .. k : heard'[i] = heard[i]
        /\ heard'[k + 1] = line
    BY <1>1, <1>3, <1>5, AppendProperties
  <2>2. \A i \in 1 .. k + 1 : i \in 1 .. k \/ i = k + 1
    BY <1>3
  <2> QED
    BY <1>2, <2>1, <2>2
<1>7. waits'["client"] = (IF IsLast(line) THEN "nothing" ELSE "reply")
      /\ waits'["server"] = waits["server"]
  BY <1>1, <1>2, SidesDiffer DEF WireTypes
<1>8. Served'
  BY <1>1, <1>2, <1>7, ServedStays
<1>9. Sent(answer, Len(answer)) = Sent(answer, k + 1) \o more
  BY DEF NextLineComes
<1>10. flight'["client"] = f
  BY <1>1
<1>11. CASE k + 1 # Len(answer)
  <2>1. ~ IsLast(line)
    <3>1. GoesOn(protocol, line) /\ Len(answer) # 1
      <4>1. Len(answer) # 1
        <5>1. \A n, m \in Nat : n + 1 \in 1 .. m /\ n + 1 # m => m # 1
          OBVIOUS
        <5> QED
          BY <1>3, <1>4, <1>11, <5>1
      <4>2. GoesOn(protocol, line)
        BY <1>2, <1>4, <1>11, RepliesAreLines DEF IsReply
      <4> QED
        BY <4>1, <4>2
    <3>2. CASE protocol = "smtp"
      <4>1. Len(line) >= 4 /\ line[4] = "-" /\ Len(line) \in Nat
        BY <1>5, <3>1, <3>2, Lengths DEF GoesOn
      <4> QED
        BY <3>2, <4>1 DEF IsLast
    <3>3. CASE protocol = "pop3"
      BY <3>1, <3>3 DEF GoesOn, IsLast
    <3> QED
      BY <3>2, <3>3 DEF WireTypes
  <2>2. k + 1 \in 0 .. Len(answer) - 1 /\ (k + 1) + 1 \in 1 .. Len(answer) /\ Len(answer) > 1
    BY <1>3, <1>4, <1>11
  <2>3. PICK rest \in ByteSeq :
            /\ Sent(answer, Len(answer)) = Sent(answer, (k + 1) + 1) \o rest
            /\ more = answer[(k + 1) + 1] \o (Crlf \o rest)
    BY <1>3, <1>9, <2>2, NextLine
  <2>4. answer[(k + 1) + 1] \in ByteSeq
    BY <1>3, <2>2, ElementOfSeq
  <2>5. PICK next \in ByteSeq : next = answer[(k + 1) + 1]
    BY <2>4
  <2>6. Midway(<<>>, a, f, 0, FALSE, next, Crlf, rest) /\ Within(<<>>, a, f, next, Crlf, rest)
    <3>1. a \o f = next \o (Crlf \o rest)
      BY <2>3, <2>5
    <3> HIDE DEF a, f
    <3> QED
      BY <1>3, <3>1, CrlfIsText, MidwayStarts, MidwayIsWithin DEF a
  <2>7. NextLineComes(rest)'
    <3>1. answer'[Len(heard') + 1] = next
      BY <1>1, <1>6, <2>5
    <3>2. Reading("client", answer[Len(heard) + 1], Crlf, rest)'
      BY <1>10, <2>6, <3>1 DEF Reading
    <3> QED
      BY <1>1, <1>6, <2>3, <3>2 DEF NextLineComes
  <2>9. LineComes'
    BY <2>7 DEF LineComes, SocketOnly
  <2>10. Answering'
    <3>1. Len(heard') <= Len(answer') /\ Len(heard') # Len(answer')
      BY <1>1, <1>4, <1>6, <1>11
    <3>2. \A i \in 1 .. Len(heard') : heard'[i] = answer'[i]
      BY <1>1, <1>6
    <3> QED
      BY <1>7, <1>8, <2>1, <2>9, <3>1, <3>2 DEF Answering
  <2> QED
    BY <1>6, <2>10 DEF Turns
<1>12. CASE k + 1 = Len(answer)
  <2>1. a = <<>> /\ f = <<>>
    <3>1. more = <<>>
      BY <1>3, <1>9, <1>12, NoLine
    <3> HIDE DEF a, f
    <3>2. a \in ByteSeq /\ a \o f = <<>>
      BY <3>1 DEF a, f
    <3> QED
      BY <1>3, <3>2, JoinedWithNothing
  <2>2. Idle("client")'
    BY <1>10, <2>1 DEF Idle
  <2>3. heard' = answer
    BY <1>3, <1>6, <1>12, SeqEqual
  <2>4. CASE IsLast(line)
    <3>1. Quiet'
      BY <1>1, <1>7, <1>8, <2>2, <2>3, <2>4 DEF Quiet
    <3> QED
      BY <1>6, <3>1 DEF Turns
  <2>5. CASE ~ IsLast(line)
    <3>1. Len(heard') = Len(answer') /\ Len(heard') <= Len(answer')
      BY <1>1, <1>3, <2>3
    <3>2. \A i \in 1 .. Len(heard') : heard'[i] = answer'[i]
      BY <1>1, <2>3
    <3>3. Answering'
      BY <1>7, <1>8, <2>2, <2>5, <3>1, <3>2 DEF Answering
    <3> QED
      BY <1>6, <3>3 DEF Turns
  <2> QED
    BY <2>4, <2>5
<1> QED
  BY <1>11, <1>12

\* The SMTP client hears a line.
LEMMA HearLineKeeps ==
    ASSUME TextsEnd, WireTypes, Turns, HearLine, WellRead("client")
    PROVE  WireTypes' /\ Turns'
<1>1. /\ protocol = "smtp" /\ waits["client"] = "reply"
      /\ Consume("client") /\ found["client"] /\ Hear(Line("client"))
  BY DEF HearLine
<1>2. ~ Idle("client")
  BY <1>1 DEF Idle
<1>3. Answering /\ LineComes /\ Len(heard) # Len(answer)
  BY <1>2, WhoReads, SidesDiffer
<1>4. PICK more \in ByteSeq : NextLineComes(more)
  BY <1>3 DEF LineComes
<1>5. PICK line : line = answer[Len(heard) + 1]
  OBVIOUS
<1>6. Reading("client", line, Crlf, more) /\ Crlf = Delimiter("client")
  BY <1>1, <1>4, <1>5 DEF NextLineComes, Delimiter
<1>a. Delimits(Crlf, line) /\ Crlf # <<>>
  BY <1>3, <1>5, LineEnds, CrlfIsText
<1>7. /\ Line("client") = line
      /\ arrived'["client"] \in ByteSeq /\ arrived'["client"] \o flight["client"] = more
      /\ result'["client"] = <<>> /\ want'["client"] = 0 /\ found'["client"] = FALSE
      /\ \A other \in Sides : other # "client" =>
            /\ result'[other] = result[other] /\ arrived'[other] = arrived[other]
            /\ want'[other] = want[other] /\ found'[other] = found[other]
      /\ result' \in [Sides -> ByteSeq] /\ arrived' \in [Sides -> ByteSeq]
      /\ want' \in [Sides -> Nat] /\ found' \in [Sides -> BOOLEAN]
  BY <1>1, <1>6, <1>a, Takes, SidesDiffer
<1>8. Hear(line) /\ UNCHANGED <<protocol, flight, said, answer, understood>>
  BY <1>1, <1>7 DEF Hear
<1>9. Same("server")
  BY <1>7, <1>8, SidesDiffer DEF Same
<1>11. Turns' /\ heard' \in Seq(ByteSeq)
  BY <1>3, <1>4, <1>5, <1>7, <1>8, <1>9, HearKeeps
<1>12. waits' \in [Sides -> {"reply", "command", "message", "answer", "nothing", "end"}]
  BY <1>8 DEF Hear, WireTypes
<1>13. WireTypes'
  BY <1>7, <1>8, <1>11, <1>12 DEF WireTypes
<1> QED
  BY <1>11, <1>13

\* A mail reader hears a line.
LEMMA MailReaderHearsKeeps ==
    ASSUME TextsEnd, WireTypes, Turns, MailReaderHears
    PROVE  WireTypes' /\ Turns'
<1> DEFINE a == arrived["client"]
           f == flight["client"]
           index == Find(a, Crlf)
           left == From(a, index + 2)
<1>1. /\ protocol = "pop3" /\ index # NotFound /\ Hear(UpTo(a, index - 1))
      /\ arrived' = [arrived EXCEPT !["client"] = left]
      /\ UNCHANGED <<result, want, found>>
  BY DEF MailReaderHears
<1>2. ~ Idle("client")
  <2>1. Find(<<>>, Crlf) = NotFound
    <3>1. Len(<<>>) - Len(Crlf) + 1 = -1 /\ 1 .. -1 = {}
      BY CrlfIsText
    <3>2. Positions(<<>>, Crlf) = {}
      BY <3>1 DEF Positions
    <3> QED
      BY <3>2 DEF Find
  <2> QED
    BY <1>1, <2>1 DEF Idle
<1>3. Answering /\ LineComes /\ Len(heard) # Len(answer)
  BY <1>2, WhoReads, SidesDiffer
<1>4. result["client"] = <<>> /\ want["client"] = 0 /\ found["client"] = FALSE
  BY <1>1, <1>3 DEF LineComes, SocketOnly
<1>5. PICK more \in ByteSeq : NextLineComes(more)
  BY <1>3 DEF LineComes
<1>6. PICK line : line = answer[Len(heard) + 1]
  OBVIOUS
<1>7. Within(<<>>, a, f, line, Crlf, more)
  BY <1>4, <1>5, <1>6 DEF NextLineComes, Reading
<1>9. Stretch(a, f, line, Crlf, more)
  <2>1. /\ a \in ByteSeq /\ f \in ByteSeq /\ line \in ByteSeq /\ more \in ByteSeq
        /\ <<>> \o (a \o f) = line \o (Crlf \o more)
    BY <1>7 DEF Within
  <2>2. Delimits(Crlf, line)
    BY <1>3, <1>6, LineEnds
  <2> HIDE DEF a, f
  <2>3. <<>> \o (a \o f) = a \o f
    BY <2>1, Joined, JoinedWithNothing
  <2> QED
    BY <2>1, <2>2, <2>3, CrlfIsText DEF Stretch
<1>10. UpTo(a, index - 1) = line /\ left \in ByteSeq /\ left \o f = more
  <2> HIDE DEF a, f
  <2> QED
    BY <1>1, <1>9, FirstLineCut
<1> HIDE DEF left
<1>11. Hear(line) /\ UNCHANGED <<protocol, flight, said, answer, understood>>
  BY <1>1, <1>10 DEF Hear
<1>12. /\ result'["client"] = <<>> /\ want'["client"] = 0 /\ found'["client"] = FALSE
       /\ arrived'["client"] = left /\ arrived'["server"] = arrived["server"]
       /\ arrived' \in [Sides -> ByteSeq]
  BY <1>1, <1>4, <1>10, SidesDiffer DEF WireTypes
<1>13. Same("server")
  BY <1>1, <1>11, <1>12 DEF Same
<1>14. arrived'["client"] \in ByteSeq /\ arrived'["client"] \o flight["client"] = more
  BY <1>10, <1>12
<1>16. Turns' /\ heard' \in Seq(ByteSeq)
  BY <1>3, <1>5, <1>6, <1>11, <1>12, <1>13, <1>14, HearKeeps
<1>17. waits' \in [Sides -> {"reply", "command", "message", "answer", "nothing", "end"}]
  BY <1>11 DEF Hear, WireTypes
<1>18. WireTypes'
  BY <1>1, <1>11, <1>12, <1>16, <1>17 DEF WireTypes
<1> QED
  BY <1>16, <1>18

\* The server greets.
LEMMA InitTurns ==
    ASSUME TextsEnd, Init
    PROVE  WireTypes /\ Turns
<1>1. /\ protocol \in {"smtp", "pop3"}
      /\ answer = (IF protocol = "smtp" THEN Response("GREETING") ELSE P3Response(TRUE, "none"))
      /\ flight = [side \in Sides |-> IF side = "client" THEN answer[1] \o Crlf ELSE <<>>]
      /\ arrived = [side \in Sides |-> <<>>] /\ result = [side \in Sides |-> <<>>]
      /\ want = [side \in Sides |-> 0] /\ found = [side \in Sides |-> FALSE]
      /\ waits = [client |-> "reply", server |-> "command"]
      /\ said = <<"NONE", <<>>>> /\ understood = said /\ heard = <<>>
  BY DEF Init, Nothing
<1>2. ReplyOf(protocol, answer) /\ Len(answer) = 1
  <2>1. CASE protocol = "smtp"
    <3>1. "GREETING" \in DOMAIN Code /\ "GREETING" # "EHLO"
      BY DEF Code
    <3> QED
      BY <1>1, <2>1, <3>1, ResponsesAreLines DEF ReplyOf
  <2>2. CASE protocol = "pop3"
    <3>1. ReplyOf(protocol, answer)
      BY <1>1, <2>2 DEF ReplyOf
    <3>2. Len(P3Response(TRUE, "none")) = 1
      <4> DEFINE first == <<"+", "OK", " ", "text">>
      <4>1. P3Response(TRUE, "none") = <<first>> \o <<>>
        BY DEF P3Response
      <4> HIDE DEF first
      <4>2. <<first>> \in Seq({first}) /\ Len(<<first>>) = 1
        OBVIOUS
      <4>3. <<first>> \o <<>> = <<first>>
        BY <4>2, ConcatEmptySeq
      <4> QED
        BY <4>1, <4>2, <4>3
    <3> QED
      BY <1>1, <2>2, <3>1, <3>2
  <2> QED
    BY <1>1, <2>1, <2>2
<1>3. answer \in Seq(ByteSeq) /\ 1 \in 1 .. Len(answer)
  BY <1>2, RepliesAreLines
<1>4. PICK line \in ByteSeq : line = answer[1]
  BY <1>3, ElementOfSeq
<1> DEFINE all == line \o Crlf
<1>5. all \in ByteSeq
  BY CrlfIsText, Joined
<1>6. Sent(answer, 1) = all
  <2>1. 0 \in 0 .. Len(answer) - 1 /\ 0 + 1 = 1
    BY <1>2
  <2>2. Sent(answer, 0) = <<>> /\ Sent(answer, 0 + 1) = Sent(answer, 0) \o (answer[0 + 1] \o Crlf)
    BY <1>3, <2>1, SentGrows
  <2>3. Sent(answer, 1) = <<>> \o all
    BY <1>4, <2>1, <2>2
  <2> HIDE DEF all
  <2> QED
    BY <1>5, <2>3, JoinedWithNothing
<1>7. /\ flight["client"] = all /\ flight["server"] = <<>> /\ flight \in [Sides -> ByteSeq]
  <2> HIDE DEF all
  <2>1. flight = [side \in Sides |-> IF side = "client" THEN all ELSE <<>>]
    BY <1>1, <1>4 DEF all
  <2> QED
    BY <1>5, <2>1, SidesDiffer, JoinedWithNothing
<1>8. all = line \o (Crlf \o <<>>)
  BY CrlfIsText, JoinedWithNothing
<1> HIDE DEF all
<1>9. waits["client"] = "reply" /\ waits["server"] = "command"
      /\ waits \in [Sides -> {"reply", "command", "message", "answer", "nothing", "end"}]
  BY <1>1 DEF Sides
<1>10. WireTypes
  BY <1>1, <1>3, <1>7, <1>9, JoinedWithNothing, EmptySeq DEF WireTypes
<1>11. /\ result["client"] = <<>> /\ arrived["client"] = <<>>
       /\ want["client"] = 0 /\ found["client"] = FALSE
  BY <1>1, SidesDiffer
<1>12. Idle("server")
  BY <1>1, <1>7, SidesDiffer DEF Idle
<1>13. Understood
  BY <1>1 DEF Understood, Meaning
<1>14. Served
  BY <1>2, <1>9, <1>12, <1>13 DEF Served, IsReply
<1>15. /\ Midway(<<>>, <<>>, all, 0, FALSE, line, Crlf, <<>>)
       /\ Within(<<>>, <<>>, all, line, Crlf, <<>>)
  BY <1>5, <1>8, CrlfIsText, JoinedWithNothing, MidwayStarts, MidwayIsWithin
<1>16. Len(heard) = 0 /\ Len(heard) + 1 = 1
  BY <1>1
<1>17. NextLineComes(<<>>)
  <2>1. Reading("client", answer[Len(heard) + 1], Crlf, <<>>)
    BY <1>4, <1>7, <1>11, <1>15, <1>16 DEF Reading
  <2>2. Sent(answer, 1) \o <<>> = Sent(answer, 1)
    BY <1>5, <1>6, JoinedWithNothing
  <2> QED
    BY <1>2, <1>16, <2>1, <2>2 DEF NextLineComes
<1>18. LineComes
  BY <1>11, <1>17, JoinedWithNothing DEF LineComes, SocketOnly
<1>19. Answering
  <2>1. Len(heard) <= Len(answer) /\ Len(heard) # Len(answer)
    BY <1>2, <1>16
  <2>2. \A i \in 1 .. Len(heard) : heard[i] = answer[i]
    BY <1>16
  <2> QED
    BY <1>9, <1>14, <1>18, <2>1, <2>2 DEF Answering
<1> QED
  BY <1>10, <1>19 DEF Turns

\* Nobody comes back who has gone astray.
LEMMA AstrayStays ==
    ASSUME [Next]_vars
    PROVE  astray \subseteq astray'
<1>1. CASE Network
  BY <1>1 DEF Network, Arrive
<1>2. CASE Reader
  BY <1>2 DEF Reader, Peek, ReadOn, Consume
<1>3. CASE Client
  BY <1>3 DEF Client, Say, SayMessage, HearLine, MailReaderHears, Consume
<1>4. CASE Server
  BY <1>4 DEF Server, TakeCommand, TakeMessage, AnswerCommand, AnswerRequest, NoReply, Reply,
              Consume
<1>5. CASE UNCHANGED vars
  BY <1>5 DEF vars
<1> QED
  BY <1>1, <1>2, <1>3, <1>4, <1>5 DEF Next

\* Who has not has read well.
LEMMA ReadWell ==
    ASSUME NEW side, Consume(side), astray' = {}
    PROVE  WellRead(side)
BY DEF Consume

\* Every step keeps the turns until a side goes astray.
LEMMA StepKeeps ==
    ASSUME TextsEnd, WireTypes, Turns, [Next]_vars, astray' = {}
    PROVE  WireTypes' /\ Turns'
<1>1. CASE Network
  BY <1>1, ArriveKeeps DEF Network
<1>2. CASE Reader
  <2>1. PICK side \in Sides : Peek(side) \/ ReadOn(side)
    BY <1>2 DEF Reader
  <2>2. ReadOn(side) => WellRead(side)
    BY ReadWell DEF ReadOn
  <2> QED
    BY <2>1, <2>2, PeekKeeps, ReadOnKeeps
<1>3. CASE Client
  <2>1. CASE waits["server"] = "command" /\ Say
    BY <2>1, SayKeeps
  <2>2. CASE SayMessage
    BY <2>2, SayMessageKeeps
  <2>3. CASE HearLine
    BY <2>3, HearLineKeeps, ReadWell DEF HearLine
  <2>4. CASE MailReaderHears
    BY <2>4, MailReaderHearsKeeps
  <2> QED
    BY <1>3, <2>1, <2>2, <2>3, <2>4 DEF Client
<1>4. CASE Server
  <2>1. CASE TakeCommand
    BY <2>1, TakeCommandKeeps, ReadWell DEF TakeCommand
  <2>2. CASE TakeMessage
    BY <2>2, TakeMessageKeeps, ReadWell DEF TakeMessage
  <2> QED
    BY <1>4, <2>1, <2>2, AnswerCommandKeeps, AnswerRequestKeeps, NoReplyKeeps DEF Server
<1>5. CASE UNCHANGED vars
  <2>1. /\ UNCHANGED <<protocol, flight, arrived, result, want, found>>
        /\ UNCHANGED <<waits, said, answer, understood, heard>>
    BY <1>5 DEF vars
  <2>2. WireTypes'
    BY <2>1 DEF WireTypes
  <2>3. Same("client") /\ Same("server")
    BY <2>1 DEF Same
  <2>4. CASE Asking
    <3>1. ASSUME NEW text, NEW delim, Reading("server", text, delim, <<>>)
          PROVE  Reading("server", text, delim, <<>>)'
      BY <2>1, <3>1 DEF Reading
    <3> QED
      BY <2>1, <2>2, <2>3, <2>4, <3>1, AskingGoesOn
  <2>5. CASE Asked
    <3>1. Understood' /\ Idle("client")' /\ Idle("server")'
      BY <2>1, <2>3, <2>5, UnderstoodStays, IdleStays DEF Asked
    <3> QED
      BY <2>1, <2>2, <2>5, <3>1 DEF Asked, Turns
  <2>u. CASE Unanswered
    <3>1. Idle("client")' /\ Idle("server")'
      BY <2>3, <2>u, IdleStays DEF Unanswered
    <3> QED
      BY <2>1, <2>2, <2>u, <3>1 DEF Unanswered, Turns
  <2>6. CASE Answering \/ Quiet
    <3>1. Served /\ Served'
      BY <2>1, <2>3, <2>6, ServedStays DEF Answering, Quiet
    <3>2. CASE Quiet
      <4>1. Idle("client")'
        BY <2>3, <3>2, IdleStays DEF Quiet
      <4> QED
        BY <2>1, <2>2, <3>1, <3>2, <4>1 DEF Quiet, Turns
    <3>3. CASE Answering /\ Len(heard) = Len(answer)
      <4>1. Idle("client")'
        BY <2>3, <3>3, IdleStays DEF Answering
      <4> QED
        BY <2>1, <2>2, <3>1, <3>3, <4>1 DEF Answering, Turns
    <3>4. CASE Answering /\ Len(heard) # Len(answer)
      <4>1. LineComes
        BY <3>4 DEF Answering
      <4>2. ASSUME NEW more, NextLineComes(more)
            PROVE  Reading("client", answer[Len(heard) + 1], Crlf, more)'
        BY <2>1, <4>2 DEF NextLineComes, Reading
      <4>3. SocketOnly'
        BY <2>1, <4>1 DEF LineComes, SocketOnly
      <4> QED
        BY <2>1, <2>2, <2>3, <3>4, <4>2, <4>3, AnsweringGoesOn
    <3> QED
      BY <2>6, <3>2, <3>3, <3>4
  <2> QED
    BY <2>4, <2>5, <2>u, <2>6 DEF Turns
<1> QED
  BY <1>1, <1>2, <1>3, <1>4, <1>5 DEF Next

-----------------------------------------------------------------------------
(* The invariant and what follows from it *)

\* Bytes in flight, in a socket, in readToDelim and in the lines read make up the text
\* whose turn it is, for all commands, messages and replies that TextsEnd allows and
\* however their bytes arrive, for as long as no read has taken bytes behind a delimiter.
THEOREM WireTurns ==
    ASSUME TextsEnd
    PROVE  Spec => [](astray = {} => WireTypes /\ Turns)
<1>1. Init => (astray = {} => WireTypes /\ Turns)
  BY InitTurns
<1>2. (astray = {} => WireTypes /\ Turns) /\ [Next]_vars => (astray = {} => WireTypes /\ Turns)'
  <2> SUFFICES ASSUME astray = {} => WireTypes /\ Turns, [Next]_vars, astray' = {}
               PROVE  WireTypes' /\ Turns'
    OBVIOUS
  <2>1. astray = {}
    BY AstrayStays
  <2> QED
    BY <2>1, StepKeeps
<1> QED
  BY <1>1, <1>2, PTL DEF Spec

\* A read that goes astray is of a message, or of a line with another behind it.
LEMMA GoingAstray ==
    ASSUME TextsEnd, WireTypes, Turns, NEW side \in Sides, Consume(side), ~ WellRead(side)
    PROVE  /\ side = "server" => waits["server"] = "message"
           /\ side = "client" => Len(answer) > 1
<1>1. ~ Idle(side)
  BY DEF Consume, Idle
<1>2. ASSUME Asking, side = "server", waits["server"] # "message"
      PROVE  FALSE
  <2>1. said \in Requests /\ Reading("server", RequestText, Crlf, <<>>)
    BY <1>2 DEF Asking
  <2>2. Delimits(Crlf, RequestText) /\ Delimiter("server") = Crlf
    BY <1>2, <2>1, RequestsEnd DEF Ends, Delimiter
  <2> QED
    BY <1>2, <2>1, <2>2, LastLineWell
<1>3. ASSUME Answering, LineComes, Len(heard) # Len(answer), side = "client", ~ (Len(answer) > 1)
      PROVE  FALSE
  <2>1. PICK more \in ByteSeq : NextLineComes(more)
    BY <1>3 DEF LineComes
  <2>2. PICK line : line = answer[Len(heard) + 1]
    OBVIOUS
  <2>3. more = <<>>
    BY <1>3, <2>1, OnlyLine
  <2>4. Reading("client", line, Crlf, <<>>)
    BY <2>1, <2>2, <2>3 DEF NextLineComes
  <2>5. Delimits(Crlf, line) /\ Delimiter("client") = Crlf
    BY <1>3, <2>2, LineEnds DEF Delimiter, Answering
  <2> QED
    BY <1>3, <2>4, <2>5, LastLineWell
<1> QED
  BY <1>1, <1>2, <1>3, WhoReads DEF Sides

\* A command and a reply of one line are read well however they are cut: a side goes
\* astray first at a message or within a reply of several lines.
THEOREM OnlyLongTextsGoAstray ==
    ASSUME TextsEnd
    PROVE  Spec => LongTextsOnly
<1> DEFINE Step == astray = {} =>
                      /\ "server" \in astray' => waits["server"] = "message"
                      /\ "client" \in astray' => Len(answer) > 1
<1>1. (astray = {} => WireTypes /\ Turns) /\ [Next]_vars => [Step]_vars
  <2> SUFFICES ASSUME astray = {}, WireTypes, Turns, Next, NEW side \in astray'
               PROVE  /\ side = "server" => waits["server"] = "message"
                      /\ side = "client" => Len(answer) > 1
    OBVIOUS
  <2>1. ASSUME NEW reader \in Sides, Consume(reader)
        PROVE  /\ side = "server" => waits["server"] = "message"
               /\ side = "client" => Len(answer) > 1
    <3>1. ~ WellRead(reader) /\ side = reader
      BY <2>1 DEF Consume
    <3> QED
      BY <2>1, <3>1, GoingAstray
  <2>2. CASE Network
    BY <2>2 DEF Network, Arrive
  <2>3. CASE Reader
    <3>1. PICK reader \in Sides : Peek(reader) \/ ReadOn(reader)
      BY <2>3 DEF Reader
    <3> QED
      BY <2>1, <3>1 DEF Peek, ReadOn
  <2>4. CASE Client
    <3>1. HearLine => Consume("client")
      BY DEF HearLine
    <3>2. ~ HearLine => astray' = astray
      BY <2>4 DEF Client, Say, SayMessage, MailReaderHears
    <3> QED
      BY <2>1, <3>1, <3>2, SidesDiffer
  <2>5. CASE Server
    <3>1. TakeCommand \/ TakeMessage => Consume("server")
      BY DEF TakeCommand, TakeMessage
    <3>2. ~ (TakeCommand \/ TakeMessage) => astray' = astray
      BY <2>5 DEF Server, AnswerCommand, AnswerRequest, NoReply, Reply
    <3> QED
      BY <2>1, <3>1, <3>2, SidesDiffer
  <2> QED
    BY <2>2, <2>3, <2>4, <2>5 DEF Next
<1>2. Spec => [](astray = {} => WireTypes /\ Turns)
  BY WireTurns
<1>3. Spec => [][Step]_vars
  BY <1>1, <1>2, PTL DEF Spec
<1> QED
  BY <1>3 DEF LongTextsOnly

\* And when the parsers undo what the builders do, the server takes every command and
\* message for what was sent and the client every reply for what was answered, until a
\* read has taken bytes behind a delimiter.
THEOREM AnswersAreMatched ==
    ASSUME TextsEnd, ParsersUndo
    PROVE  Spec => []AnswersMatch
<1>1. (astray = {} => WireTypes /\ Turns) => AnswersMatch
  <2> SUFFICES ASSUME WireTypes, Turns, Answered
               PROVE  /\ understood = said /\ heard = answer
                      /\ protocol = "smtp" =>
                            IF said[1] = "EHLO" /\ Len(answer) > 1
                            THEN Options(heard)[2] = [i \in 1 .. Len(answer) |-> From(answer[i], 5)]
                            ELSE Heard(heard)[1] = UpTo(answer[1], 3)
    BY DEF AnswersMatch
  <2>1. Understood /\ IsReply /\ heard = answer
    BY DEF Answered, Turns, Asking, Asked, Unanswered, Answering, Quiet, Served
  <2>2. understood = said
    <3>1. CASE said \in Requests
      BY <2>1, <3>1 DEF Understood, Meaning, Requests, RequestText, ParsersUndo
    <3>2. CASE said[1] \in {"NONE", "MESSAGE"}
      BY <2>1, <3>2 DEF Understood, Meaning
    <3> QED
      BY <2>1, <3>1, <3>2 DEF Understood
  <2>3. ASSUME protocol = "smtp"
        PROVE  IF said[1] = "EHLO" /\ Len(answer) > 1
               THEN Options(answer)[2] = [i \in 1 .. Len(answer) |-> From(answer[i], 5)]
               ELSE Heard(answer)[1] = UpTo(answer[1], 3)
    <3>1. PICK type \in DOMAIN Code : answer = Response(type)
      BY <2>1, <2>3 DEF IsReply, ReplyOf
    <3>2. CASE Len(answer) > 1
      <4>1. type = "EHLO"
        <5>1. type # "EHLO" => Len(answer) = 1
          BY <3>1, ResponsesAreLines
        <5>2. Len(answer) = 1 => ~ (Len(answer) > 1)
          OBVIOUS
        <5> QED
          BY <3>2, <5>1, <5>2, Zenon
      <4>2. DOMAIN answer = 1 .. Len(answer)
        BY DEF WireTypes
      <4>3. Options(answer)[2] = [i \in 1 .. Len(answer) |-> From(answer[i], 5)]
        BY <3>1, <4>1, <4>2 DEF ParsersUndo
      <4>4. Heard(answer)[1] = UpTo(answer[1], 3)
        BY <3>1 DEF ParsersUndo
      <4> QED
        BY <4>3, <4>4
    <3>3. CASE ~ (Len(answer) > 1)
      BY <3>1, <3>3 DEF ParsersUndo
    <3> QED
      BY <3>2, <3>3
  <2> QED
    BY <2>1, <2>2, <2>3
<1> QED
  BY <1>1, WireTurns, PTL
=============================================================================
