--------------------------- MODULE MessagesProofs ---------------------------
(***************************************************************************)
(* What the functions of module Messages make of any text: where a part is *)
(* found in it, what it is split into, and how headers are taken from it.  *)
(***************************************************************************)
EXTENDS Messages, SequenceLemmas

-----------------------------------------------------------------------------
\* Finding

\* An occurrence, token by token.
LEMMA OccurrenceTokens ==
  ASSUME NEW s \in Text, NEW sub \in Text, NEW k
  PROVE  k \in Occurrences(s, sub) <=>
           /\ k \in Nat /\ 1 <= k /\ k + Len(sub) <= Len(s) + 1
           /\ \A j \in 1..Len(sub) : s[k + j - 1] = sub[j]
<1>1. Len(s) \in Nat /\ Len(sub) \in Nat
  BY DEF Text
<1>2. ASSUME k \in Nat, 1 <= k, k + Len(sub) <= Len(s) + 1
      PROVE  SubSeq(s, k, k + Len(sub) - 1) = sub <=> \A j \in 1..Len(sub) : s[k + j - 1] = sub[j]
  <2>1. k \in 1..(Len(s) + 1) /\ k + Len(sub) - 1 \in (k - 1)..Len(s)
        /\ (k + Len(sub) - 1) - k + 1 = Len(sub)
    BY <1>1, <1>2
  <2>2. PICK n \in (k - 1)..Len(s) : n = k + Len(sub) - 1 /\ n - k + 1 = Len(sub)
    BY <2>1
  <2>3. /\ SubSeq(s, k, n) \in Text
        /\ Len(SubSeq(s, k, n)) = Len(sub)
        /\ \A j \in 1..Len(sub) : SubSeq(s, k, n)[j] = s[k + j - 1]
    BY <2>1, <2>2, PartElements DEF Text
  <2> QED
    BY <2>2, <2>3, SeqEqual DEF Text
<1>3. k \in 1..(Len(s) - Len(sub) + 1) <=> k \in Nat /\ 1 <= k /\ k + Len(sub) <= Len(s) + 1
  BY <1>1
<1> QED
  BY <1>2, <1>3 DEF Occurrences

\* find returns the first occurrence, or npos.
LEMMA FindFirst ==
  ASSUME NEW s \in Text, NEW sub \in Text
  PROVE  /\ FindIn(s, sub) \in Nat
         /\ FindIn(s, sub) = 0 <=> Occurrences(s, sub) = {}
         /\ FindIn(s, sub) # 0 => /\ FindIn(s, sub) \in Occurrences(s, sub)
                                  /\ FindIn(s, sub) + Len(sub) <= Len(s) + 1
                                  /\ \A k \in Occurrences(s, sub) : FindIn(s, sub) <= k
<1>1. Occurrences(s, sub) \in SUBSET Nat /\ 0 \notin Occurrences(s, sub)
  BY OccurrenceTokens
<1>2. CASE Occurrences(s, sub) = {}
  BY <1>2 DEF FindIn
<1>3. CASE Occurrences(s, sub) # {}
  <2>1. /\ Min(Occurrences(s, sub)) \in Occurrences(s, sub)
        /\ \A k \in Occurrences(s, sub) : Min(Occurrences(s, sub)) <= k
    BY <1>1, <1>3, MinIsLeast
  <2>2. FindIn(s, sub) = Min(Occurrences(s, sub))
    BY <1>3 DEF FindIn
  <2> QED
    BY <1>1, <1>3, <2>1, <2>2, OccurrenceTokens
<1> QED
  BY <1>2, <1>3

\* The parts of a text before and after an occurrence.
LEMMA AroundOccurrence ==
  ASSUME NEW s \in Text, NEW sub \in Text, NEW k \in Occurrences(s, sub)
  PROVE  /\ k \in Nat /\ 1 <= k /\ k + Len(sub) <= Len(s) + 1
         /\ SubSeq(s, 1, k - 1) \in Text
         /\ Len(SubSeq(s, 1, k - 1)) = k - 1
         /\ \A j \in 1..(k - 1) : SubSeq(s, 1, k - 1)[j] = s[j]
         /\ SubSeq(s, k + Len(sub), Len(s)) \in Text
         /\ Len(SubSeq(s, k + Len(sub), Len(s))) = Len(s) + 1 - (k + Len(sub))
         /\ \A j \in 1..(Len(s) + 1 - (k + Len(sub))) :
              SubSeq(s, k + Len(sub), Len(s))[j] = s[k + Len(sub) + j - 1]
<1>1. k \in Nat /\ 1 <= k /\ k + Len(sub) <= Len(s) + 1
  BY OccurrenceTokens
<1>2. Len(s) \in Nat /\ Len(sub) \in Nat /\ s \in Seq(Tokens)
  BY DEF Text
<1>3. /\ SubSeq(s, 1, k - 1) \in Text
      /\ Len(SubSeq(s, 1, k - 1)) = k - 1
      /\ \A j \in 1..(k - 1) : SubSeq(s, 1, k - 1)[j] = s[j]
  <2>1. 1 \in 1..(Len(s) + 1) /\ k - 1 \in (1 - 1)..Len(s)
    BY <1>1, <1>2
  <2>2. /\ SubSeq(s, 1, k - 1) \in Seq(Tokens)
        /\ Len(SubSeq(s, 1, k - 1)) = (k - 1) - 1 + 1
        /\ \A j \in 1..((k - 1) - 1 + 1) : SubSeq(s, 1, k - 1)[j] = s[1 + j - 1]
    BY <1>2, <2>1, PartElements
  <2>3. (k - 1) - 1 + 1 = k - 1 /\ \A j \in 1..(k - 1) : 1 + j - 1 = j
    BY <1>1
  <2> QED BY <2>2, <2>3 DEF Text
<1>4. /\ SubSeq(s, k + Len(sub), Len(s)) \in Text
      /\ Len(SubSeq(s, k + Len(sub), Len(s))) = Len(s) + 1 - (k + Len(sub))
      /\ \A j \in 1..(Len(s) + 1 - (k + Len(sub))) :
           SubSeq(s, k + Len(sub), Len(s))[j] = s[k + Len(sub) + j - 1]
  <2>1. k + Len(sub) \in 1..(Len(s) + 1) /\ Len(s) \in ((k + Len(sub)) - 1)..Len(s)
    BY <1>1, <1>2
  <2>2. PICK m \in 1..(Len(s) + 1) : m = k + Len(sub) /\ Len(s) \in (m - 1)..Len(s)
    BY <2>1
  <2>3. /\ SubSeq(s, m, Len(s)) \in Seq(Tokens)
        /\ Len(SubSeq(s, m, Len(s))) = Len(s) - m + 1
        /\ \A j \in 1..(Len(s) - m + 1) : SubSeq(s, m, Len(s))[j] = s[m + j - 1]
    BY <1>2, <2>2, PartElements
  <2>4. Len(s) - m + 1 = Len(s) + 1 - m
    BY <1>2, <2>2
  <2> QED BY <2>2, <2>3, <2>4 DEF Text
<1> QED
  BY <1>1, <1>3, <1>4

\* A text is what comes before an occurrence, the part itself, and the rest.
LEMMA OccurrenceParts ==
  ASSUME NEW s \in Text, NEW sub \in Text, NEW k \in Occurrences(s, sub)
  PROVE  s = SubSeq(s, 1, k - 1) \o sub \o SubSeq(s, k + Len(sub), Len(s))
<1>1. k \in Nat /\ 1 <= k /\ k + Len(sub) <= Len(s) + 1
  BY OccurrenceTokens
<1>2. Len(s) \in Nat /\ Len(sub) \in Nat /\ s \in Seq(Tokens)
  BY DEF Text
<1>3. SubSeq(s, k, k + Len(sub) - 1) = sub
  BY DEF Occurrences
<1>4. PICK a \in Nat, b \in Nat : a = k - 1 /\ b = k + Len(sub) - 1
  <2>1. k - 1 \in Nat /\ k + Len(sub) - 1 \in Nat
    BY <1>1, <1>2
  <2> QED BY <2>1
<1>5. a <= b /\ b <= Len(s) /\ k = a + 1 /\ k + Len(sub) = b + 1
  BY <1>1, <1>2, <1>4
<1>6. SubSeq(s, 1, a) \o SubSeq(s, a + 1, b) = SubSeq(s, 1, b)
  <2>1. 1 \in 1..(Len(s) + 1) /\ a \in (1 - 1)..Len(s) /\ b \in a..Len(s)
    BY <1>2, <1>5
  <2> QED BY <1>2, <2>1, ConcatAdjacentSubSeq
<1>7. SubSeq(s, 1, b) \o SubSeq(s, b + 1, Len(s)) = SubSeq(s, 1, Len(s))
  <2>1. 1 \in 1..(Len(s) + 1) /\ b \in (1 - 1)..Len(s) /\ Len(s) \in b..Len(s)
    BY <1>2, <1>5
  <2> QED BY <1>2, <2>1, ConcatAdjacentSubSeq
<1>8. SubSeq(s, 1, Len(s)) = s
  BY <1>2, SubSeqFull
<1> QED
  BY <1>3, <1>4, <1>5, <1>6, <1>7, <1>8

-----------------------------------------------------------------------------
\* Splitting

Rest(t, sep) == SubSeq(t, FindIn(t, sep) + Len(sep), Len(t))

PiecesOf(f, t, sep) ==
  IF FindIn(t, sep) = 0 THEN <<t>> ELSE <<SubSeq(t, 1, FindIn(t, sep) - 1)>> \o f[Rest(t, sep)]

ShortTexts(n) == {t \in Text : Len(t) <= n}

\* The pieces of the texts up to some length.
IsSplit(n, f, sep) == f = [t \in ShortTexts(n) |-> PiecesOf(f, t, sep)]

LEMMA RestShorter ==
  ASSUME NEW t \in Text, NEW sep \in Text, sep # <<>>, FindIn(t, sep) # 0
  PROVE  /\ Rest(t, sep) \in Text
         /\ Len(t) \in Nat /\ Len(Rest(t, sep)) \in Nat /\ Len(Rest(t, sep)) < Len(t)
<1>1. PICK k \in Occurrences(t, sep) : k = FindIn(t, sep)
  BY FindFirst
<1>2. Len(sep) \in Nat /\ Len(sep) # 0 /\ Len(t) \in Nat
  BY EmptySeq DEF Text
<1>3. /\ k \in Nat /\ 1 <= k
      /\ SubSeq(t, k + Len(sep), Len(t)) \in Text
      /\ Len(SubSeq(t, k + Len(sep), Len(t))) = Len(t) + 1 - (k + Len(sep))
  BY AroundOccurrence
<1>4. Rest(t, sep) \in Text /\ Len(Rest(t, sep)) = Len(t) + 1 - (k + Len(sep))
  BY <1>1, <1>3 DEF Rest
<1>5. Len(Rest(t, sep)) \in Nat
  BY <1>4 DEF Text
<1> QED
  BY <1>2, <1>3, <1>4, <1>5

\* The pieces of a text depend on those of a shorter one only.
LEMMA SplitStep ==
  ASSUME NEW n \in Nat, NEW sep \in Text, sep # <<>>, NEW f, NEW g,
         \A t \in ShortTexts(n) : f[t] = g[t],
         NEW t \in Text, Len(t) <= n + 1
  PROVE  PiecesOf(f, t, sep) = PiecesOf(g, t, sep)
<1>1. CASE FindIn(t, sep) = 0
  BY <1>1 DEF PiecesOf
<1>2. CASE FindIn(t, sep) # 0
  <2>1. Rest(t, sep) \in ShortTexts(n)
    BY <1>2, RestShorter DEF ShortTexts
  <2> QED BY <2>1 DEF PiecesOf
<1> QED
  BY <1>1, <1>2

LEMMA ShortSplitExists ==
  ASSUME NEW sep \in Text, sep # <<>>
  PROVE  \A n \in Nat : \E f : IsSplit(n, f, sep)
<1> DEFINE Without == {n \in Nat : ~ \E f : IsSplit(n, f, sep)}
           least == Min(Without)
<1>1. ASSUME Without # {}
      PROVE  FALSE
  <2>1. Without \in SUBSET Nat
    OBVIOUS
  <2>2. least \in Without /\ \A k \in Without : least <= k
    BY <1>1, <2>1, MinIsLeast
  <2>3. least \in Nat /\ ~ \E f : IsSplit(least, f, sep)
    BY <2>2
  <2> HIDE DEF least
  <2>4. CASE least = 0
    <3> DEFINE f == [t \in ShortTexts(0) |-> <<t>>]
    <3>1. ASSUME NEW t \in ShortTexts(0)
          PROVE  PiecesOf(f, t, sep) = <<t>>
      <4>1. t \in Text /\ ~ \E m \in Nat : m < Len(t)
        BY DEF ShortTexts, Text
      <4>2. FindIn(t, sep) = 0
        BY <4>1, RestShorter
      <4> QED BY <4>2 DEF PiecesOf
    <3>2. IsSplit(0, f, sep)
      BY <3>1 DEF IsSplit
    <3> QED BY <2>3, <2>4, <3>2
  <2>5. CASE least # 0
    <3>1. PICK n \in Nat : n + 1 = least
      <4>1. least - 1 \in Nat /\ (least - 1) + 1 = least
        BY <2>3, <2>5
      <4> QED BY <4>1
    <3>2. PICK f : IsSplit(n, f, sep)
      <4>1. ~ (least <= n)
        BY <2>3, <3>1
      <4> QED BY <2>2, <4>1
    <3> DEFINE g == [t \in ShortTexts(n + 1) |-> PiecesOf(f, t, sep)]
    <3>3. ShortTexts(n) \subseteq ShortTexts(n + 1)
      BY DEF ShortTexts, Text
    <3>4. \A t \in ShortTexts(n) : f[t] = g[t]
      BY <3>2, <3>3 DEF IsSplit
    <3>5. \A t \in ShortTexts(n + 1) : PiecesOf(f, t, sep) = PiecesOf(g, t, sep)
      <4> HIDE DEF g
      <4> QED BY <3>4, SplitStep DEF ShortTexts
    <3>6. IsSplit(n + 1, g, sep)
      BY <3>5 DEF IsSplit
    <3> QED BY <2>3, <3>1, <3>6
  <2> QED BY <2>4, <2>5
<1> QED
  BY <1>1

\* On the texts that two of these functions have in common they agree.
LEMMA ShortSplitsAgree ==
  ASSUME NEW sep \in Text, sep # <<>>, NEW m \in Nat, NEW n \in Nat, m <= n, NEW f, NEW g,
         IsSplit(m, f, sep), IsSplit(n, g, sep)
  PROVE  \A t \in ShortTexts(m) : f[t] = g[t]
<1> DEFINE Differ == {k \in Nat : \E t \in ShortTexts(m) : Len(t) = k /\ f[t] # g[t]}
           least == Min(Differ)
<1>1. ASSUME Differ # {}
      PROVE  FALSE
  <2>1. Differ \in SUBSET Nat
    OBVIOUS
  <2>2. least \in Differ /\ \A k \in Differ : least <= k
    BY <1>1, <2>1, MinIsLeast
  <2>3. PICK t \in ShortTexts(m) : Len(t) = least /\ f[t] # g[t]
    BY <2>2
  <2> HIDE DEF least
  <2>4. t \in Text /\ Len(t) \in Nat /\ Len(t) <= m /\ t \in ShortTexts(n)
    BY <2>3 DEF ShortTexts, Text
  <2>5. f[t] = PiecesOf(f, t, sep) /\ g[t] = PiecesOf(g, t, sep)
    BY <2>3, <2>4 DEF IsSplit
  <2>6. CASE FindIn(t, sep) = 0
    BY <2>3, <2>5, <2>6 DEF PiecesOf
  <2>7. CASE FindIn(t, sep) # 0
    <3>1. /\ Rest(t, sep) \in Text
          /\ Len(Rest(t, sep)) \in Nat /\ Len(Rest(t, sep)) < Len(t)
      BY <2>4, <2>7, RestShorter
    <3>2. Rest(t, sep) \in ShortTexts(m) /\ ~ (least <= Len(Rest(t, sep)))
      BY <2>3, <2>4, <3>1 DEF ShortTexts
    <3>3. f[Rest(t, sep)] = g[Rest(t, sep)]
      BY <2>2, <3>1, <3>2
    <3> QED BY <2>3, <2>5, <2>7, <3>3 DEF PiecesOf
  <2> QED BY <2>6, <2>7
<1>2. \A t \in ShortTexts(m) : Len(t) \in Nat
  BY DEF ShortTexts, Text
<1> QED
  BY <1>1, <1>2

\* The recursion that Split is defined by has a solution.
LEMMA SplitDefined ==
  ASSUME NEW sep \in Text, sep # <<>>
  PROVE  \E f : f = [t \in Text |-> PiecesOf(f, t, sep)]
<1> DEFINE G(n) == CHOOSE g : IsSplit(n, g, sep)
           f == [t \in Text |-> G(Len(t))[t]]
<1>1. \A n \in Nat : IsSplit(n, G(n), sep)
  BY ShortSplitExists
<1> HIDE DEF G
<1>2. ASSUME NEW t \in Text
      PROVE  f[t] = PiecesOf(f, t, sep)
  <2>1. Len(t) \in Nat /\ t \in ShortTexts(Len(t)) /\ f[t] = G(Len(t))[t]
    BY DEF ShortTexts, Text
  <2>2. f[t] = PiecesOf(G(Len(t)), t, sep)
    BY <1>1, <2>1 DEF IsSplit
  <2>3. CASE FindIn(t, sep) = 0
    BY <2>2, <2>3 DEF PiecesOf
  <2>4. CASE FindIn(t, sep) # 0
    <3>1. PICK r \in Text : r = Rest(t, sep) /\ Len(r) \in Nat /\ Len(r) < Len(t)
      BY <2>4, RestShorter
    <3>2. r \in ShortTexts(Len(r)) /\ Len(r) <= Len(t)
      BY <2>1, <3>1 DEF ShortTexts
    <3>3. G(Len(r))[r] = G(Len(t))[r]
      BY <1>1, <2>1, <3>1, <3>2, ShortSplitsAgree
    <3> QED BY <2>2, <2>4, <3>1, <3>3 DEF PiecesOf
  <2> QED BY <2>3, <2>4
<1>3. f = [t \in Text |-> PiecesOf(f, t, sep)]
  BY <1>2
<1> QED
  BY <1>3

\* Split finds the first separator, and splits what follows it.
LEMMA SplitUnfold ==
  ASSUME NEW s \in Text, NEW sep \in Text, sep # <<>>
  PROVE  Split(s, sep) = IF FindIn(s, sep) = 0
                         THEN <<s>>
                         ELSE <<SubSeq(s, 1, FindIn(s, sep) - 1)>> \o Split(Rest(s, sep), sep)
<1> DEFINE f == CHOOSE f : f = [t \in Text |-> PiecesOf(f, t, sep)]
<1>1. f = [t \in Text |-> PiecesOf(f, t, sep)]
  BY SplitDefined
<1>2. \A t : Split(t, sep) = f[t]
  BY DEF Split, PiecesOf, Rest
<1> HIDE DEF f
<1>3. f[s] = PiecesOf(f, s, sep)
  BY <1>1
<1> QED
  BY <1>2, <1>3 DEF PiecesOf

\* What Split makes of a text with a separator in it.
LEMMA SplitFirst ==
  ASSUME NEW s \in Text, NEW sep \in Text, sep # <<>>, FindIn(s, sep) # 0
  PROVE  \E first \in Text, rest \in Text :
           /\ first = SubSeq(s, 1, FindIn(s, sep) - 1) /\ Len(first) = FindIn(s, sep) - 1
           /\ rest = Rest(s, sep)
           /\ s = first \o sep \o rest
           /\ Len(s) \in Nat /\ Len(rest) \in Nat /\ Len(rest) < Len(s)
           /\ Occurrences(first, sep) = {}
           /\ Split(s, sep) = <<first>> \o Split(rest, sep)
<1>1. PICK k \in Occurrences(s, sep) : k = FindIn(s, sep) /\ \A j \in Occurrences(s, sep) : k <= j
  BY FindFirst
<1>2. PICK first \in Text : first = SubSeq(s, 1, k - 1)
  BY AroundOccurrence
<1>3. PICK rest \in Text : rest = Rest(s, sep) /\ Len(s) \in Nat /\ Len(rest) \in Nat /\ Len(rest) < Len(s)
  BY RestShorter
<1>4. s = first \o sep \o rest
  BY <1>1, <1>2, <1>3, OccurrenceParts DEF Rest
<1>5. Split(s, sep) = <<first>> \o Split(rest, sep)
  BY <1>1, <1>2, <1>3, SplitUnfold
<1>6. /\ k \in Nat /\ 1 <= k /\ k + Len(sep) <= Len(s) + 1
      /\ Len(first) = k - 1
      /\ \A j \in 1..(k - 1) : first[j] = s[j]
  BY <1>2, AroundOccurrence
<1>7. Len(sep) \in Nat /\ Len(sep) # 0
  BY EmptySeq DEF Text
<1>8. ASSUME NEW m \in Occurrences(first, sep)
      PROVE  FALSE
  <2>1. /\ m \in Nat /\ 1 <= m /\ m + Len(sep) <= (k - 1) + 1
        /\ \A j \in 1..Len(sep) : first[m + j - 1] = sep[j]
    BY <1>6, OccurrenceTokens
  <2>2. \A j \in 1..Len(sep) : m + j - 1 \in 1..(k - 1)
    BY <1>6, <1>7, <2>1
  <2>3. \A j \in 1..Len(sep) : s[m + j - 1] = sep[j]
    BY <1>6, <2>1, <2>2
  <2>4. m + Len(sep) <= Len(s) + 1 /\ ~ (k <= m)
    BY <1>3, <1>6, <1>7, <2>1
  <2>5. m \in Occurrences(s, sep)
    BY <2>1, <2>3, <2>4, OccurrenceTokens
  <2> QED BY <1>1, <2>4, <2>5
<1> QED
  BY <1>1, <1>2, <1>3, <1>4, <1>5, <1>6, <1>8

\* The pieces are texts, and there is one at least.
LEMMA SplitType ==
  ASSUME NEW sep \in Text, sep # <<>>
  PROVE  \A s \in Text : Split(s, sep) \in Seq(Text) /\ Len(Split(s, sep)) \in Nat \ {0}
<1> DEFINE Typed(t) == Split(t, sep) \in Seq(Text) /\ Len(Split(t, sep)) \in Nat \ {0}
           Untyped == {n \in Nat : \E t \in Text : Len(t) = n /\ ~ Typed(t)}
           least == Min(Untyped)
<1>1. ASSUME Untyped # {}
      PROVE  FALSE
  <2>1. Untyped \in SUBSET Nat
    OBVIOUS
  <2>2. least \in Untyped /\ \A k \in Untyped : least <= k
    BY <1>1, <2>1, MinIsLeast
  <2>3. PICK t \in Text : Len(t) = least /\ ~ Typed(t)
    BY <2>2
  <2> HIDE DEF least
  <2>4. CASE FindIn(t, sep) = 0
    <3>1. Split(t, sep) = <<t>>
      BY <2>4, SplitUnfold
    <3> QED BY <2>3, <3>1
  <2>5. CASE FindIn(t, sep) # 0
    <3>1. PICK first \in Text, rest \in Text :
             /\ first = SubSeq(t, 1, FindIn(t, sep) - 1) /\ Len(first) = FindIn(t, sep) - 1
             /\ rest = Rest(t, sep)
             /\ t = first \o sep \o rest
             /\ Len(t) \in Nat /\ Len(rest) \in Nat /\ Len(rest) < Len(t)
             /\ Occurrences(first, sep) = {}
             /\ Split(t, sep) = <<first>> \o Split(rest, sep)
      BY <2>5, SplitFirst
    <3>2. Typed(rest)
      BY <2>2, <2>3, <3>1
    <3>3. PICK others \in Seq(Text) : others = Split(rest, sep)
      BY <3>2
    <3>4. /\ <<first>> \o others \in Seq(Text)
          /\ Len(<<first>> \o others) = 1 + Len(others) /\ Len(others) \in Nat
      OBVIOUS
    <3>5. Split(t, sep) = <<first>> \o others
      BY <3>1, <3>3
    <3>6. Len(<<first>> \o others) \in Nat \ {0}
      BY <3>4
    <3> QED BY <2>3, <3>4, <3>5, <3>6, Zenon
  <2> QED BY <2>4, <2>5
<1>2. \A t \in Text : Len(t) \in Nat
  BY DEF Text
<1> QED
  BY <1>1, <1>2

\* A first piece in front of others.
LEMMA ConsElements ==
  ASSUME NEW S, NEW first \in S, NEW others \in Seq(S)
  PROVE  /\ <<first>> \o others \in Seq(S)
         /\ Len(others) \in Nat
         /\ Len(<<first>> \o others) = Len(others) + 1
         /\ (<<first>> \o others)[1] = first
         /\ \A j \in 1..Len(others) : (<<first>> \o others)[j + 1] = others[j]
<1>1. PICK one \in Seq(S) : one = <<first>> /\ Len(one) = 1 /\ one[1] = first
  <2>1. <<first>> \in Seq(S) /\ Len(<<first>>) = 1 /\ <<first>>[1] = first
    OBVIOUS
  <2> QED BY <2>1
<1>2. /\ one \o others \in Seq(S)
      /\ Len(one \o others) = Len(one) + Len(others)
      /\ Len(others) \in Nat
      /\ \A k \in 1..Len(one) : (one \o others)[k] = one[k]
      /\ \A k \in 1..Len(others) : (one \o others)[Len(one) + k] = others[k]
  BY ConcatElements
<1>3. \A j \in 1..Len(others) : 1 + j = j + 1
  BY <1>2
<1> QED
  BY <1>1, <1>2, <1>3

\* No piece has the separator in it.
LEMMA SplitFree ==
  ASSUME NEW sep \in Text, sep # <<>>
  PROVE  \A s \in Text : \A j \in 1..Len(Split(s, sep)) : Occurrences(Split(s, sep)[j], sep) = {}
<1> DEFINE Free(t) == \A j \in 1..Len(Split(t, sep)) : Occurrences(Split(t, sep)[j], sep) = {}
           Others == {n \in Nat : \E t \in Text : Len(t) = n /\ ~ Free(t)}
           least == Min(Others)
<1>1. ASSUME Others # {}
      PROVE  FALSE
  <2>1. Others \in SUBSET Nat
    OBVIOUS
  <2>2. least \in Others /\ \A k \in Others : least <= k
    BY <1>1, <2>1, MinIsLeast
  <2>3. PICK t \in Text : Len(t) = least /\ ~ Free(t)
    BY <2>2
  <2> HIDE DEF least
  <2>4. CASE FindIn(t, sep) = 0
    <3>1. Split(t, sep) = <<t>> /\ Occurrences(t, sep) = {}
      BY <2>4, SplitUnfold, FindFirst
    <3> QED BY <2>3, <3>1
  <2>5. CASE FindIn(t, sep) # 0
    <3>1. PICK first \in Text, rest \in Text :
             /\ first = SubSeq(t, 1, FindIn(t, sep) - 1) /\ Len(first) = FindIn(t, sep) - 1
             /\ rest = Rest(t, sep)
             /\ t = first \o sep \o rest
             /\ Len(t) \in Nat /\ Len(rest) \in Nat /\ Len(rest) < Len(t)
             /\ Occurrences(first, sep) = {}
             /\ Split(t, sep) = <<first>> \o Split(rest, sep)
      BY <2>5, SplitFirst
    <3>2. Free(rest)
      <4>1. Len(rest) \in Nat /\ ~ (least <= Len(rest))
        BY <2>3, <3>1
      <4>2. Len(rest) \notin Others
        BY <2>2, <4>1, Zenon
      <4> HIDE DEF Free
      <4> QED BY <4>1, <4>2
    <3>3. PICK others \in Seq(Text) : others = Split(rest, sep)
      BY SplitType
    <3>4. PICK all \in Seq(Text) : all = Split(t, sep)
      BY SplitType
    <3>5. /\ Len(others) \in Nat /\ Len(all) = Len(others) + 1
          /\ all[1] = first
          /\ \A j \in 1..Len(others) : all[j + 1] = others[j]
      <4>1. all = <<first>> \o others
        BY <3>1, <3>3, <3>4
      <4>2. /\ Len(others) \in Nat
            /\ Len(<<first>> \o others) = Len(others) + 1
            /\ (<<first>> \o others)[1] = first
            /\ \A j \in 1..Len(others) : (<<first>> \o others)[j + 1] = others[j]
        BY ConsElements
      <4> QED BY <4>1, <4>2, Zenon
    <3>6. ASSUME NEW j \in 1..Len(all)
          PROVE  Occurrences(all[j], sep) = {}
      <4>1. CASE j = 1
        BY <3>1, <3>5, <4>1
      <4>2. CASE j # 1
        <5>1. j - 1 \in 1..Len(others) /\ (j - 1) + 1 = j
          BY <3>5, <4>2
        <5> QED BY <3>2, <3>3, <3>5, <5>1
      <4> QED BY <4>1, <4>2
    <3> QED BY <2>3, <3>4, <3>6
  <2> QED BY <2>4, <2>5
<1>2. \A t \in Text : Len(t) \in Nat
  BY DEF Text
<1> QED
  BY <1>1, <1>2

\* Concatenation under a name: the provers expand \o wherever they see it.
Cat(s, t) == s \o t

LEMMA TextsAssociate ==
  \A s, t, u \in Text : (s \o t) \o u = s \o (t \o u)
BY ConcatAssociative DEF Text

LEMMA CatsAssociate ==
  /\ \A s, t \in Text : Cat(s, t) \in Text
  /\ \A s, t, u \in Text : Cat(Cat(s, t), u) = Cat(s, Cat(t, u))
<1>1. \A s, t \in Text : s \o t \in Text
  BY ConcatElements DEF Text
<1> QED
  BY <1>1, TextsAssociate, Zenon DEF Cat

LEMMA FiveInARow ==
  ASSUME NEW x \in Text, NEW b \in Text, NEW sep \in Text, NEW p \in Text, NEW a \in Text
  PROVE  Cat(x, Cat(Cat(Cat(b, sep), p), a)) = Cat(Cat(Cat(Cat(x, b), sep), p), a)
<1>1. Cat(Cat(x, Cat(Cat(b, sep), p)), a) = Cat(x, Cat(Cat(Cat(b, sep), p), a))
  BY CatsAssociate
<1>2. Cat(Cat(x, Cat(b, sep)), p) = Cat(x, Cat(Cat(b, sep), p))
  BY CatsAssociate
<1>3. Cat(Cat(x, b), sep) = Cat(x, Cat(b, sep))
  BY CatsAssociate
<1> QED
  BY <1>1, <1>2, <1>3

\* Where the first piece lies: a separator follows it if there are others.
LEMMA SplitHead ==
  ASSUME NEW s \in Text, NEW sep \in Text, sep # <<>>
  PROVE  \E after \in Text :
           /\ s = Split(s, sep)[1] \o after
           /\ Len(Split(s, sep)) = 1 => after = <<>>
           /\ Len(Split(s, sep)) # 1 => \E more \in Text : after = sep \o more
<1>1. PICK all \in Seq(Text) : all = Split(s, sep) /\ Len(all) \in Nat \ {0}
  BY SplitType
<1>2. CASE FindIn(s, sep) = 0
  <2>1. all = <<s>>
    BY <1>1, <1>2, SplitUnfold
  <2>2. all[1] = s /\ Len(all) = 1
    BY <2>1
  <2>3. <<>> \in Text /\ s \o <<>> = s
    BY DEF Text
  <2> QED BY <1>1, <2>2, <2>3
<1>3. CASE FindIn(s, sep) # 0
  <2>1. PICK first \in Text, rest \in Text :
           /\ first = SubSeq(s, 1, FindIn(s, sep) - 1) /\ Len(first) = FindIn(s, sep) - 1
           /\ rest = Rest(s, sep)
           /\ s = first \o sep \o rest
           /\ Len(s) \in Nat /\ Len(rest) \in Nat /\ Len(rest) < Len(s)
           /\ Occurrences(first, sep) = {}
           /\ Split(s, sep) = <<first>> \o Split(rest, sep)
    BY <1>3, SplitFirst
  <2>2. PICK others \in Seq(Text) : others = Split(rest, sep) /\ Len(others) \in Nat \ {0}
    BY SplitType
  <2>3. all = <<first>> \o others
    BY <1>1, <2>1, <2>2
  <2>4. all[1] = first /\ Len(all) # 1
    <3>1. (<<first>> \o others)[1] = first /\ Len(<<first>> \o others) = Len(others) + 1
      BY ConsElements
    <3> QED BY <2>2, <2>3, <3>1
  <2>5. PICK after \in Text : after = sep \o rest
    <3>1. sep \o rest \in Text
      BY ConcatElements DEF Text
    <3> QED BY <3>1
  <2>6. s = first \o after
    <3>1. (first \o sep) \o rest = first \o (sep \o rest)
      BY TextsAssociate
    <3> QED BY <2>1, <2>5, <3>1, Zenon
  <2> QED BY <1>1, <2>4, <2>5, <2>6
<1> QED
  BY <1>2, <1>3

\* Where another piece lies: after a separator, and before one if it is not
\* the last.
LEMMA SplitWhere ==
  ASSUME NEW sep \in Text, sep # <<>>
  PROVE  \A s \in Text : \A j \in 2..Len(Split(s, sep)) :
           \E before \in Text, after \in Text :
             /\ s = before \o sep \o Split(s, sep)[j] \o after
             /\ j = Len(Split(s, sep)) => after = <<>>
             /\ j # Len(Split(s, sep)) => \E more \in Text : after = sep \o more
<1> DEFINE Lies(s, piece, isLast) ==
             \E before \in Text, after \in Text :
               /\ s = before \o sep \o piece \o after
               /\ isLast => after = <<>>
               /\ ~ isLast => \E more \in Text : after = sep \o more
           Placed(s) == \A j \in 2..Len(Split(s, sep)) :
                          Lies(s, Split(s, sep)[j], j = Len(Split(s, sep)))
           Others == {n \in Nat : \E s \in Text : Len(s) = n /\ ~ Placed(s)}
           least == Min(Others)
<1>1. ASSUME Others # {}
      PROVE  FALSE
  <2>1. Others \in SUBSET Nat
    OBVIOUS
  <2>2. least \in Others /\ \A k \in Others : least <= k
    BY <1>1, <2>1, MinIsLeast
  <2>3. PICK s \in Text : Len(s) = least /\ ~ Placed(s)
    BY <2>2
  <2> HIDE DEF least, Lies
  <2>4. CASE FindIn(s, sep) = 0
    <3>1. Split(s, sep) = <<s>>
      BY <2>4, SplitUnfold
    <3>2. Len(Split(s, sep)) = 1
      BY <3>1
    <3> QED BY <2>3, <3>2
  <2>5. CASE FindIn(s, sep) # 0
    <3>1. PICK first \in Text, rest \in Text :
             /\ first = SubSeq(s, 1, FindIn(s, sep) - 1) /\ Len(first) = FindIn(s, sep) - 1
             /\ rest = Rest(s, sep)
             /\ s = first \o sep \o rest
             /\ Len(s) \in Nat /\ Len(rest) \in Nat /\ Len(rest) < Len(s)
             /\ Occurrences(first, sep) = {}
             /\ Split(s, sep) = <<first>> \o Split(rest, sep)
      BY <2>5, SplitFirst
    <3>2. Placed(rest)
      <4>1. Len(rest) \in Nat /\ ~ (least <= Len(rest))
        BY <2>3, <3>1
      <4>2. Len(rest) \notin Others
        BY <2>2, <4>1, Zenon
      <4> HIDE DEF Placed
      <4> QED BY <4>1, <4>2
    <3>3. PICK others \in Seq(Text) : others = Split(rest, sep) /\ Len(others) \in Nat \ {0}
      BY SplitType
    <3>4. PICK all \in Seq(Text) : all = Split(s, sep)
      BY SplitType
    <3>5. /\ Len(all) = Len(others) + 1
          /\ \A j \in 1..Len(others) : all[j + 1] = others[j]
      <4>1. all = <<first>> \o others
        BY <3>1, <3>3, <3>4
      <4>2. /\ Len(<<first>> \o others) = Len(others) + 1
            /\ \A j \in 1..Len(others) : (<<first>> \o others)[j + 1] = others[j]
        BY ConsElements
      <4> QED BY <4>1, <4>2, Zenon
    <3>6. ASSUME NEW j \in 2..Len(all)
          PROVE  Lies(s, all[j], j = Len(all))
      <4>1. PICK k \in 1..Len(others) : k + 1 = j
        <5>1. j - 1 \in 1..Len(others) /\ (j - 1) + 1 = j
          BY <3>3, <3>5
        <5> QED BY <5>1
      <4>2. PICK p \in Text : p = all[j] /\ p = others[k]
        BY <3>5, <4>1
      <4>3. (k = Len(others)) <=> (j = Len(all))
        BY <3>3, <3>5, <4>1
      <4>4. CASE k = 1
        <5>1. PICK a \in Text : /\ rest = p \o a
                                /\ Len(others) = 1 => a = <<>>
                                /\ Len(others) # 1 => \E more \in Text : a = sep \o more
          <6>1. \E a \in Text :
                  /\ rest = Split(rest, sep)[1] \o a
                  /\ Len(Split(rest, sep)) = 1 => a = <<>>
                  /\ Len(Split(rest, sep)) # 1 => \E more \in Text : a = sep \o more
            BY SplitHead
          <6>2. Split(rest, sep)[1] = p
            BY <3>3, <4>2, <4>4
          <6> QED BY <3>3, <6>1, <6>2, Zenon
        <5>2. s = first \o sep \o p \o a
          <6>1. PICK x \in Text : x = first \o sep
            BY ConcatElements DEF Text
          <6>2. (x \o p) \o a = x \o (p \o a)
            BY TextsAssociate, Zenon
          <6> QED BY <3>1, <5>1, <6>1, <6>2, Zenon
        <5> QED BY <4>2, <4>3, <4>4, <5>1, <5>2 DEF Lies
      <4>5. CASE k # 1
        <5>1. k \in 2..Len(others)
          BY <4>5
        <5>2. Lies(rest, p, k = Len(others))
          BY <3>2, <3>3, <4>2, <5>1
        <5>3. PICK b \in Text, a \in Text :
                /\ rest = b \o sep \o p \o a
                /\ (k = Len(others)) => a = <<>>
                /\ ~ (k = Len(others)) => \E more \in Text : a = sep \o more
          BY <5>2 DEF Lies
        <5>4. PICK before \in Text : before = Cat(Cat(first, sep), b)
          BY CatsAssociate
        <5>5. s = before \o sep \o p \o a
          <6>1. Cat(Cat(first, sep), Cat(Cat(Cat(b, sep), p), a)) = Cat(Cat(Cat(before, sep), p), a)
            <7>1. PICK x \in Text : x = Cat(first, sep)
              BY CatsAssociate
            <7>2. Cat(x, Cat(Cat(Cat(b, sep), p), a)) = Cat(Cat(Cat(Cat(x, b), sep), p), a)
              BY FiveInARow, SMTT(60)
            <7> QED BY <5>4, <7>1, <7>2, Zenon
          <6>2. s = Cat(Cat(first, sep), Cat(Cat(Cat(b, sep), p), a))
            BY <3>1, <5>3, Zenon DEF Cat
          <6> QED BY <6>1, <6>2, Zenon DEF Cat
        <5> QED BY <4>2, <4>3, <5>3, <5>5 DEF Lies
      <4> QED BY <4>4, <4>5
    <3> QED BY <2>3, <3>4, <3>6
  <2> QED BY <2>4, <2>5
<1>2. \A s \in Text : Len(s) \in Nat
  BY DEF Text
<1>3. \A s \in Text : Placed(s)
  <2> HIDE DEF Placed
  <2> QED BY <1>1, <1>2
<1> QED
  BY <1>3, Zenon

-----------------------------------------------------------------------------
\* Headers

Fields == [key : Text, value : Text]

LEMMA WordsAreTexts ==
  /\ CRLF \in Text /\ CRLF # <<>> /\ Len(CRLF) = 2
  /\ Space \in Text /\ Space # <<>> /\ Len(Space) = 1
  /\ ColonSpace \in Text /\ ColonSpace # <<>> /\ Len(ColonSpace) = 2
  /\ BlankLine \in Text /\ BlankLine # <<>> /\ Len(BlankLine) = 4
  /\ BlankLine = <<CR, "\n", CR, "\n">>
<1>1. PICK cr \in Tokens, lf \in Tokens, sp \in Tokens, colon \in Tokens :
        cr = CR /\ lf = "\n" /\ sp = " " /\ colon = ":"
  BY TokensAssumption, Zenon
<1>2. CRLF = <<cr, lf>> /\ Space = <<sp>> /\ ColonSpace = <<colon, sp>>
  BY <1>1, Zenon DEF CRLF, Space, ColonSpace
<1>3. CRLF \in Text /\ CRLF # <<>> /\ Len(CRLF) = 2
  BY <1>2 DEF Text
<1>4. Space \in Text /\ Space # <<>> /\ Len(Space) = 1
  BY <1>2 DEF Text
<1>5. ColonSpace \in Text /\ ColonSpace # <<>> /\ Len(ColonSpace) = 2
  BY <1>2 DEF Text
<1>6. BlankLine = <<cr, lf, cr, lf>>
  <2>1. PICK pair \in Seq(Tokens), four \in Seq(Tokens) :
          /\ pair = <<cr, lf>> /\ four = <<cr, lf, cr, lf>>
          /\ Len(pair) = 2 /\ pair[1] = cr /\ pair[2] = lf
          /\ Len(four) = 4 /\ four[1] = cr /\ four[2] = lf /\ four[3] = cr /\ four[4] = lf
    <3>1. /\ <<cr, lf>> \in Seq(Tokens) /\ <<cr, lf, cr, lf>> \in Seq(Tokens)
          /\ Len(<<cr, lf>>) = 2 /\ Len(<<cr, lf, cr, lf>>) = 4
      OBVIOUS
    <3> QED BY <3>1
  <2>2. PICK both \in Seq(Tokens) :
          /\ both = pair \o pair
          /\ Len(both) = 4 /\ both[1] = cr /\ both[2] = lf /\ both[3] = cr /\ both[4] = lf
    <3>1. /\ pair \o pair \in Seq(Tokens) /\ Len(pair \o pair) = 4
          /\ \A k \in 1..2 : (pair \o pair)[k] = pair[k] /\ (pair \o pair)[2 + k] = pair[k]
      BY <2>1, ConcatElements
    <3>2. (pair \o pair)[1] = cr /\ (pair \o pair)[2] = lf
      BY <2>1, <3>1, 1 \in 1..2, 2 \in 1..2
    <3>3. (pair \o pair)[3] = cr /\ (pair \o pair)[4] = lf
      BY <2>1, <3>1, 1 \in 1..2, 2 \in 1..2, 2 + 1 = 3, 2 + 2 = 4
    <3> HIDE <2>1
    <3> QED BY <3>1, <3>2, <3>3
  <2>3. both = four
    <3>1. \A k \in 1..4 : k = 1 \/ k = 2 \/ k = 3 \/ k = 4
      OBVIOUS
    <3>2. \A k \in 1..4 : both[k] = four[k]
      BY <2>1, <2>2, <3>1
    <3> QED BY <2>1, <2>2, <3>2, SeqEqual
  <2> QED BY <1>2, <2>1, <2>2, <2>3 DEF BlankLine
<1>7. BlankLine \in Text /\ BlankLine # <<>> /\ Len(BlankLine) = 4
  BY <1>6 DEF Text
<1>8. BlankLine = <<CR, "\n", CR, "\n">>
  BY <1>1, <1>6
<1> QED
  BY <1>3, <1>4, <1>5, <1>7, <1>8

\* Any part of a text is a text.
LEMMA PartIsText ==
  ASSUME NEW s \in Text, NEW m \in Nat \ {0}, NEW n \in Int, n <= Len(s)
  PROVE  SubSeq(s, m, n) \in Text
<1>1. \A k \in m..n : s[k] \in Tokens
  <2>1. Len(s) \in Nat /\ s \in Seq(Tokens)
    BY DEF Text
  <2>2. \A k \in m..n : k \in 1..Len(s)
    BY <2>1
  <2> QED BY <2>1, <2>2, ElementOfSeq
<1> QED
  BY <1>1, SubSeqProperties DEF Text

\* A line with a colon and a space is the header, written.
LEMMA HeaderOfLine ==
  ASSUME NEW line \in Text
  PROVE  /\ HeaderOf(line) \in Fields
         /\ FindIn(line, ColonSpace) # 0 =>
              /\ line = HeaderOf(line).key \o ColonSpace \o HeaderOf(line).value
              /\ Occurrences(HeaderOf(line).key, ColonSpace) = {}
<1>1. FindIn(line, ColonSpace) \in Nat /\ Len(line) \in Nat
  BY FindFirst, WordsAreTexts DEF Text
<1>2. PICK k \in Nat : k = FindIn(line, ColonSpace)
  BY <1>1
<1>3. k # 0 => k + 2 <= Len(line) + 1
  BY <1>2, FindFirst, WordsAreTexts
<1>4. SubSeq(line, 1, k - 1) \in Text
  BY <1>1, <1>3, PartIsText
<1>5. SubSeq(line, k + 2, Len(line)) \in Text
  BY <1>1, PartIsText
<1>6. HeaderOf(line) = [key |-> SubSeq(line, 1, k - 1), value |-> SubSeq(line, k + 2, Len(line))]
  BY <1>2 DEF HeaderOf, Header
<1>7. HeaderOf(line) \in Fields
  BY <1>4, <1>5, <1>6 DEF Fields
<1>8. ASSUME k # 0
      PROVE  /\ line = HeaderOf(line).key \o ColonSpace \o HeaderOf(line).value
             /\ Occurrences(HeaderOf(line).key, ColonSpace) = {}
  <2>1. PICK first \in Text, rest \in Text :
           /\ first = SubSeq(line, 1, FindIn(line, ColonSpace) - 1) /\ Len(first) = FindIn(line, ColonSpace) - 1
           /\ rest = Rest(line, ColonSpace)
           /\ line = first \o ColonSpace \o rest
           /\ Len(line) \in Nat /\ Len(rest) \in Nat /\ Len(rest) < Len(line)
           /\ Occurrences(first, ColonSpace) = {}
           /\ Split(line, ColonSpace) = <<first>> \o Split(rest, ColonSpace)
    <3>1. ColonSpace \in Text /\ ColonSpace # <<>> /\ FindIn(line, ColonSpace) # 0
      BY <1>2, <1>8, WordsAreTexts
    <3>2. ASSUME NEW sep \in Text, sep # <<>>, FindIn(line, sep) # 0
          PROVE  \E first \in Text, rest \in Text :
            /\ first = SubSeq(line, 1, FindIn(line, sep) - 1) /\ Len(first) = FindIn(line, sep) - 1
            /\ rest = Rest(line, sep)
            /\ line = first \o sep \o rest
            /\ Len(line) \in Nat /\ Len(rest) \in Nat /\ Len(rest) < Len(line)
            /\ Occurrences(first, sep) = {}
            /\ Split(line, sep) = <<first>> \o Split(rest, sep)
      BY <3>2, SplitFirst
    <3> QED BY <3>1, <3>2
  <2>2. HeaderOf(line).key = first /\ HeaderOf(line).value = rest
    <3>1. first = SubSeq(line, 1, k - 1)
      BY <1>2, <2>1
    <3>2. rest = SubSeq(line, k + 2, Len(line))
      BY <1>2, <2>1, WordsAreTexts DEF Rest
    <3> QED BY <1>6, <3>1, <3>2
  <2> QED BY <2>1, <2>2
<1> QED
  BY <1>2, <1>7, <1>8

LEMMA LinesType ==
  ASSUME NEW text \in Text
  PROVE  Lines(text) \in Seq(Text) /\ Len(Lines(text)) \in Nat \ {0}
<1>1. PICK k \in Nat : k = FindIn(text, BlankLine) /\ k <= Len(text)
  <2>1. FindIn(text, BlankLine) \in Nat /\ Len(text) \in Nat
    <3>1. Len(text) \in Nat
      BY DEF Text
    <3> QED BY <3>1, FindFirst, WordsAreTexts
  <2>2. FindIn(text, BlankLine) # 0 => FindIn(text, BlankLine) + 4 <= Len(text) + 1
    BY FindFirst, WordsAreTexts
  <2> QED BY <2>1, <2>2
<1>2. SubSeq(text, 1, k) \in Text
  BY <1>1, PartIsText
<1> QED
  BY <1>1, <1>2, SplitType, WordsAreTexts DEF Lines

LEMMA HeadersType ==
  ASSUME NEW text \in Text
  PROVE  /\ HeadersOf(text) \in Seq(Fields)
         /\ Len(HeadersOf(text)) = Len(Lines(text)) - 1
         /\ \A k \in 1..Len(HeadersOf(text)) : HeadersOf(text)[k] = HeaderOf(Lines(text)[k + 1])
<1>1. PICK lines \in Seq(Text) : lines = Lines(text) /\ Len(lines) \in Nat \ {0}
  BY LinesType
<1>2. PICK n \in Nat : n = Len(lines) - 1
  <2>1. Len(lines) - 1 \in Nat
    BY <1>1
  <2> QED BY <2>1
<1>3. HeadersOf(text) = [k \in 1..n |-> HeaderOf(lines[k + 1])]
  BY <1>1, <1>2 DEF HeadersOf
<1>4. ASSUME NEW k \in 1..n
      PROVE  HeaderOf(lines[k + 1]) \in Fields
  <2>1. k + 1 \in 1..Len(lines)
    BY <1>1, <1>2
  <2>2. lines[k + 1] \in Text
    BY <2>1, ElementOfSeq
  <2> QED BY <2>2, HeaderOfLine
<1> DEFINE headers == [k \in 1..n |-> HeaderOf(lines[k + 1])]
<1>5. headers \in [1..n -> Fields]
  BY <1>4
<1>6. headers \in Seq(Fields) /\ Len(headers) = n /\ \A k \in 1..n : headers[k] = HeaderOf(lines[k + 1])
  <2>1. \A k \in 1..n : headers[k] = HeaderOf(lines[k + 1])
    OBVIOUS
  <2> HIDE DEF headers
  <2>2. headers \in Seq(Fields) /\ Len(headers) = n
    BY <1>5
  <2> QED BY <2>1, <2>2
<1> QED
  BY <1>1, <1>2, <1>3, <1>6

\* The position of the first header of a name, or 0.
KeyAt(headers, key) == SelectInSeq(headers, LAMBDA h : h.key = key)

LEMMA KeyFound ==
  ASSUME NEW headers \in Seq(Fields), NEW key
  PROVE  /\ KeyAt(headers, key) \in 0..Len(headers)
         /\ KeyAt(headers, key) = 0 => \A k \in 1..Len(headers) : headers[k].key # key
         /\ KeyAt(headers, key) # 0 => headers[KeyAt(headers, key)].key = key
<1> DEFINE At == {k \in 1..Len(headers) : headers[k].key = key}
<1>1. KeyAt(headers, key) = IF At # {} THEN Min(At) ELSE 0
  BY DEF KeyAt, SelectInSeq
<1>2. At \in SUBSET Nat
  OBVIOUS
<1>3. At # {} => Min(At) \in At
  BY <1>2, MinIsLeast
<1>4. Len(headers) \in Nat
  OBVIOUS
<1> QED
  BY <1>1, <1>3, <1>4

\* What get_header returns is empty or the value of a header of that name.
LEMMA GetHeader ==
  ASSUME NEW headers \in Seq(Fields), NEW key
  PROVE  /\ get_header(headers, key) \in Text
         /\ get_header(headers, key) # <<>> =>
              \E k \in 1..Len(headers) :
                headers[k].key = key /\ headers[k].value = get_header(headers, key)
<1>1. PICK k : k = KeyAt(headers, key)
  OBVIOUS
<1>2. get_header(headers, key) = IF k = 0 THEN <<>> ELSE headers[k].value
  BY <1>1 DEF get_header, KeyAt
<1>3. <<>> \in Text
  BY DEF Text
<1>4. k # 0 => k \in 1..Len(headers) /\ headers[k].key = key
  BY <1>1, KeyFound
<1>5. k # 0 => headers[k] \in Fields
  BY <1>4, ElementOfSeq
<1>6. k # 0 => headers[k].value \in Text
  BY <1>5 DEF Fields
<1> QED
  BY <1>2, <1>3, <1>4, <1>6

\* set_header replaces a header in its place, or adds one at the end.
LEMMA SetHeader ==
  ASSUME NEW headers \in Seq(Fields), NEW h \in Fields
  PROVE  LET k == KeyAt(headers, h.key)
             n == Len(headers)
             after == set_header(headers, h)
         IN  /\ after \in Seq(Fields)
             /\ k # 0 => /\ Len(after) = n /\ after[k] = h
                         /\ \A j \in 1..n : j # k => after[j] = headers[j]
             /\ k = 0 => /\ Len(after) = n + 1 /\ after[n + 1] = h
                         /\ \A j \in 1..n : after[j] = headers[j]
<1>1. PICK k : k = KeyAt(headers, h.key)
  OBVIOUS
<1>2. PICK n \in Nat : n = Len(headers)
  OBVIOUS
<1>3. k \in 0..n
  BY <1>1, <1>2, KeyFound
<1>4. set_header(headers, h) = IF k = 0 THEN Append(headers, h) ELSE ReplaceAt(headers, k, h)
  BY <1>1 DEF set_header, KeyAt
<1>5. CASE k = 0
  BY <1>1, <1>2, <1>4, <1>5, AppendProperties
<1>6. CASE k # 0
  <2>1. k \in 1..Len(headers)
    BY <1>2, <1>3, <1>6
  <2>2. /\ [headers EXCEPT ![k] = h] \in Seq(Fields)
        /\ Len([headers EXCEPT ![k] = h]) = Len(headers)
        /\ \A j \in 1..Len(headers) : [headers EXCEPT ![k] = h][j] = IF j = k THEN h ELSE headers[j]
    BY <2>1, ExceptSeq
  <2>3. set_header(headers, h) = [headers EXCEPT ![k] = h]
    BY <1>4, <1>6 DEF ReplaceAt
  <2> QED BY <1>1, <1>2, <1>6, <2>1, <2>2, <2>3
<1> QED
  BY <1>5, <1>6

\* remove_header closes the gap.
LEMMA RemoveHeader ==
  ASSUME NEW headers \in Seq(Fields), NEW key
  PROVE  LET k == KeyAt(headers, key)
             n == Len(headers)
             after == remove_header(headers, key)
         IN  /\ after \in Seq(Fields)
             /\ k = 0 => after = headers
             /\ k # 0 => /\ Len(after) = n - 1
                         /\ \A j \in 1..(n - 1) : after[j] = headers[IF j < k THEN j ELSE j + 1]
<1>1. PICK k : k = KeyAt(headers, key)
  OBVIOUS
<1>2. PICK n \in Nat : n = Len(headers)
  OBVIOUS
<1>3. /\ k \in 0..n
      /\ k = 0 => \A j \in 1..n : headers[j].key # key
      /\ k # 0 => headers[k].key = key
  BY <1>1, <1>2, KeyFound
<1>4. remove_header(headers, key) = IF \E j \in 1..n : headers[j].key = key
                                    THEN RemoveAt(headers, k)
                                    ELSE headers
  BY <1>1, <1>2 DEF remove_header, RemoveFirstMatch, KeyAt
<1>5. CASE k = 0
  <2>1. remove_header(headers, key) = headers
    BY <1>3, <1>4, <1>5
  <2> QED BY <1>1, <1>5, <2>1
<1>6. CASE k # 0
  <2>1. k \in 1..n
    BY <1>3, <1>6
  <2>2. remove_header(headers, key) = SubSeq(headers, 1, k - 1) \o SubSeq(headers, k + 1, n)
    BY <1>2, <1>3, <1>4, <1>6, <2>1 DEF RemoveAt
  <2>3. PICK before \in Seq(Fields) :
          /\ before = SubSeq(headers, 1, k - 1)
          /\ Len(before) = k - 1
          /\ \A j \in 1..(k - 1) : before[j] = headers[j]
    <3>1. PICK m \in 1..(Len(headers) + 1), p \in Nat :
            m = 1 /\ p = k - 1 /\ p \in (m - 1)..Len(headers)
      BY <1>2, <2>1
    <3>2. /\ SubSeq(headers, m, p) \in Seq(Fields)
          /\ Len(SubSeq(headers, m, p)) = p - m + 1
          /\ \A j \in 1..(p - m + 1) : SubSeq(headers, m, p)[j] = headers[m + j - 1]
      BY <3>1, PartElements
    <3>3. p - m + 1 = k - 1 /\ \A j \in 1..(k - 1) : m + j - 1 = j
      BY <2>1, <3>1
    <3>4. PICK before \in Seq(Fields) : before = SubSeq(headers, m, p)
      BY <3>2
    <3>5. Len(before) = k - 1 /\ \A j \in 1..(k - 1) : before[j] = headers[j]
      BY <3>2, <3>3, <3>4
    <3> QED BY <3>1, <3>4, <3>5
  <2>4. PICK after \in Seq(Fields) :
          /\ after = SubSeq(headers, k + 1, n)
          /\ Len(after) = n - k
          /\ \A j \in 1..(n - k) : after[j] = headers[k + j]
    <3>1. PICK m \in 1..(Len(headers) + 1) : m = k + 1 /\ n \in (m - 1)..Len(headers) /\ n - m + 1 = n - k
      BY <1>2, <2>1
    <3>2. /\ SubSeq(headers, m, n) \in Seq(Fields)
          /\ Len(SubSeq(headers, m, n)) = n - m + 1
          /\ \A j \in 1..(n - m + 1) : SubSeq(headers, m, n)[j] = headers[m + j - 1]
      BY <3>1, PartElements
    <3>3. \A j \in 1..(n - k) : m + j - 1 = k + j
      BY <1>2, <2>1, <3>1
    <3>4. PICK after \in Seq(Fields) : after = SubSeq(headers, m, n)
      BY <3>2
    <3>5. Len(after) = n - k /\ \A j \in 1..(n - k) : after[j] = headers[k + j]
      BY <3>1, <3>2, <3>3, <3>4
    <3> QED BY <3>1, <3>4, <3>5
  <2>5. PICK both \in Seq(Fields) :
          /\ both = before \o after
          /\ Len(both) = n - 1
          /\ \A j \in 1..(k - 1) : both[j] = headers[j]
          /\ \A j \in 1..(n - k) : both[(k - 1) + j] = headers[k + j]
    <3>1. (k - 1) + (n - k) = n - 1
      BY <1>2, <2>1
    <3>2. /\ before \o after \in Seq(Fields)
          /\ Len(before \o after) = Len(before) + Len(after)
          /\ \A j \in 1..Len(before) : (before \o after)[j] = before[j]
          /\ \A j \in 1..Len(after) : (before \o after)[Len(before) + j] = after[j]
      BY ConcatElements
    <3>3. PICK both \in Seq(Fields) : both = before \o after
      BY <3>2
    <3>4. /\ Len(both) = n - 1
          /\ \A j \in 1..(k - 1) : both[j] = headers[j]
          /\ \A j \in 1..(n - k) : both[(k - 1) + j] = headers[k + j]
      <4>1. Len(before \o after) = (k - 1) + (n - k)
        BY <2>3, <2>4, <3>2
      <4>2. \A j \in 1..(k - 1) : both[j] = headers[j]
        BY <2>3, <3>2, <3>3
      <4>3. \A j \in 1..(n - k) : both[(k - 1) + j] = headers[k + j]
        BY <2>3, <2>4, <3>2, <3>3
      <4> QED BY <3>1, <3>3, <4>1, <4>2, <4>3
    <3> QED BY <3>3, <3>4
  <2>6. ASSUME NEW j \in 1..(n - 1)
        PROVE  both[j] = headers[IF j < k THEN j ELSE j + 1]
    <3>1. CASE j < k
      BY <2>1, <2>5, <3>1
    <3>2. CASE ~ (j < k)
      <4>1. j - (k - 1) \in 1..(n - k) /\ (k - 1) + (j - (k - 1)) = j /\ k + (j - (k - 1)) = j + 1
        BY <2>1, <3>2
      <4> QED BY <2>5, <3>2, <4>1
    <3> QED BY <3>1, <3>2
  <2> QED BY <1>1, <1>2, <1>6, <2>2, <2>3, <2>4, <2>5, <2>6
<1> QED
  BY <1>5, <1>6

-----------------------------------------------------------------------------
\* Texts made of parts

\* A part of a text occurs where it begins.
IsInside(before, sub, after) ==
  LET s == Cat(before, Cat(sub, after))
  IN  /\ s \in Text
      /\ Len(before) \in Nat /\ Len(sub) \in Nat /\ Len(s) \in Nat
      /\ Len(before) + 1 \in Occurrences(s, sub)
      /\ SubSeq(s, Len(before) + 1, Len(before) + Len(sub)) = sub
      /\ SubSeq(s, Len(before) + Len(sub) + 1, Len(s)) = after

LEMMA OccurrenceInside ==
  ASSUME NEW before \in Text, NEW sub \in Text, NEW after \in Text
  PROVE  IsInside(before, sub, after)
<1>1. PICK s \in Text : s = Cat(before, Cat(sub, after))
  BY CatsAssociate
<1>2. PICK m \in Nat, n \in Nat : m = Len(before) /\ n = Len(sub)
  BY DEF Text
<1>3. PICK others \in Text : others = Cat(sub, after)
  BY CatsAssociate
<1>4. PICK front \in Text : front = Cat(before, sub)
  BY CatsAssociate
<1>5. /\ \A k \in 1..n : others[k] = sub[k]
      /\ Len(others) = n + Len(after) /\ Len(after) \in Nat
  BY <1>2, <1>3, ConcatElements DEF Cat, Text
<1>6. /\ s \in Text /\ Len(s) = m + Len(others)
      /\ \A k \in 1..Len(others) : s[m + k] = others[k]
  BY <1>1, <1>2, <1>3, ConcatElements DEF Cat, Text
<1>7. \A k \in 1..n : s[m + k] = sub[k]
  BY <1>5, <1>6
<1>8. m + 1 \in Occurrences(s, sub)
  <2>1. m + 1 \in Nat /\ 1 <= m + 1 /\ (m + 1) + n <= Len(s) + 1
    BY <1>5, <1>6
  <2>2. \A k \in 1..n : (m + 1) + k - 1 = m + k
    OBVIOUS
  <2>3. \A k \in 1..n : s[(m + 1) + k - 1] = sub[k]
    BY <1>7, <2>2
  <2> QED BY <1>2, <1>6, <2>1, <2>3, OccurrenceTokens
<1>9. SubSeq(s, m + 1, m + n) = sub
  <2>1. SubSeq(s, m + 1, (m + 1) + n - 1) = sub
    BY <1>2, <1>8 DEF Occurrences
  <2>2. (m + 1) + n - 1 = m + n
    OBVIOUS
  <2> QED BY <2>1, <2>2
<1>10. SubSeq(s, m + n + 1, Len(s)) = after
  <2>1. s = Cat(front, after)
    BY <1>1, <1>4, CatsAssociate
  <2>2. Len(front) = m + n
    BY <1>2, <1>4, ConcatElements DEF Cat, Text
  <2>3. SubSeq(Cat(front, after), Len(front) + 1, Len(front) + Len(after)) = after
    BY ConcatParts DEF Cat, Text
  <2>4. Len(s) = (m + n) + Len(after)
    BY <1>2, <1>5, <1>6
  <2> QED BY <2>1, <2>2, <2>3, <2>4
<1>11. Len(s) \in Nat
  BY <1>6 DEF Text
<1> QED
  BY <1>1, <1>2, <1>6, <1>8, <1>9, <1>10, <1>11 DEF IsInside

\* What does not occur in a text does not occur in a part of it.
LEMMA NoneInside ==
  ASSUME NEW s \in Text, NEW t \in Text, NEW sep \in Text
  PROVE  Occurrences(Cat(s, t), sep) = {} => Occurrences(s, sep) = {} /\ Occurrences(t, sep) = {}
<1>1. PICK both \in Text :
        /\ both = Cat(s, t) /\ Len(both) = Len(s) + Len(t)
        /\ Len(s) \in Nat /\ Len(t) \in Nat /\ Len(sep) \in Nat
        /\ \A k \in 1..Len(s) : both[k] = s[k]
        /\ \A k \in 1..Len(t) : both[Len(s) + k] = t[k]
  <2>1. PICK both \in Text : both = Cat(s, t)
    BY CatsAssociate
  <2>2. /\ Len(Cat(s, t)) = Len(s) + Len(t)
        /\ Len(s) \in Nat /\ Len(t) \in Nat
        /\ \A k \in 1..Len(s) : Cat(s, t)[k] = s[k]
        /\ \A k \in 1..Len(t) : Cat(s, t)[Len(s) + k] = t[k]
    BY ConcatElements DEF Cat, Text
  <2>3. Len(sep) \in Nat
    BY DEF Text
  <2> QED BY <2>1, <2>2, <2>3
<1>2. ASSUME NEW k \in Occurrences(s, sep)
      PROVE  k \in Occurrences(both, sep)
  <2>1. /\ k \in Nat /\ 1 <= k /\ k + Len(sep) <= Len(s) + 1
        /\ \A j \in 1..Len(sep) : s[k + j - 1] = sep[j]
    BY OccurrenceTokens
  <2>2. k + Len(sep) <= Len(both) + 1
    BY <1>1, <2>1
  <2>3. ASSUME NEW j \in 1..Len(sep)
        PROVE  both[k + j - 1] = sep[j]
    <3>1. k + j - 1 \in 1..Len(s)
      BY <1>1, <2>1
    <3> QED BY <1>1, <2>1, <3>1
  <2> QED BY <2>1, <2>2, <2>3, OccurrenceTokens
<1>3. ASSUME NEW k \in Occurrences(t, sep)
      PROVE  Len(s) + k \in Occurrences(both, sep)
  <2>1. /\ k \in Nat /\ 1 <= k /\ k + Len(sep) <= Len(t) + 1
        /\ \A j \in 1..Len(sep) : t[k + j - 1] = sep[j]
    BY OccurrenceTokens
  <2>2. PICK m \in Nat : m = Len(s) + k /\ 1 <= m /\ m + Len(sep) <= Len(both) + 1
    BY <1>1, <2>1
  <2>3. ASSUME NEW j \in 1..Len(sep)
        PROVE  both[m + j - 1] = sep[j]
    <3>1. k + j - 1 \in 1..Len(t) /\ m + j - 1 = Len(s) + (k + j - 1)
      BY <1>1, <2>1, <2>2
    <3> QED BY <1>1, <2>1, <3>1
  <2> QED BY <2>2, <2>3, OccurrenceTokens
<1> QED
  BY <1>1, <1>2, <1>3

LEMMA LineBreakDiffers == CRLF = <<CR, "\n">> /\ CRLF[1] = CR /\ CRLF[2] = "\n" /\ CRLF[1] # CRLF[2]
BY DEF CRLF, CR

\* A separator that does not overlap with itself.
Simple(sep) == Len(sep) = 1 \/ (Len(sep) = 2 /\ sep[1] # sep[2])

\* A text without a separator ends at the one that follows it.
LEMMA FirstSeparator ==
  ASSUME NEW sep \in Text, Simple(sep),
         NEW line \in Text, Occurrences(line, sep) = {}, NEW others \in Text
  PROVE  FindIn(Cat(line, Cat(sep, others)), sep) = Len(line) + 1
<1>1. PICK s \in Text : s = Cat(line, Cat(sep, others))
  BY CatsAssociate
<1>2. PICK m \in Nat : m = Len(sep) /\ (m = 1 \/ (m = 2 /\ sep[1] # sep[2]))
  BY DEF Text, Simple
<1>3. PICK n \in Nat : n = Len(line)
  BY DEF Text
<1>4. ASSUME NEW t \in Text, NEW k
      PROVE  k \in Occurrences(t, sep) <=> /\ k \in Nat /\ 1 <= k /\ k + m <= Len(t) + 1
                                           /\ \A j \in 1..m : t[k + j - 1] = sep[j]
  <2>1. k \in Occurrences(t, sep) <=> /\ k \in Nat /\ 1 <= k /\ k + Len(sep) <= Len(t) + 1
                                      /\ \A j \in 1..Len(sep) : t[k + j - 1] = sep[j]
    BY OccurrenceTokens
  <2> QED BY <1>2, <2>1
<1>5. PICK more \in Text : more = Cat(sep, others)
  BY CatsAssociate
<1>6. /\ n + 1 \in Occurrences(s, sep)
      /\ Len(s) \in Nat
  BY <1>1, <1>3, OccurrenceInside DEF IsInside
<1>7. more[1] = sep[1] /\ Len(more) \in Nat /\ 1 \in 1..Len(more)
  <2>1. /\ Len(Cat(sep, others)) = Len(sep) + Len(others)
        /\ Len(others) \in Nat
        /\ \A k \in 1..Len(sep) : Cat(sep, others)[k] = sep[k]
    BY ConcatElements DEF Cat, Text
  <2>2. 1 \in 1..Len(sep)
    BY <1>2
  <2> QED BY <1>2, <1>5, <2>1, <2>2
<1>8. /\ \A k \in 1..n : s[k] = line[k]
      /\ s[n + 1] = sep[1]
  <2>1. s = Cat(line, more)
    BY <1>1, <1>5
  <2>2. /\ \A k \in 1..Len(line) : Cat(line, more)[k] = line[k]
        /\ \A k \in 1..Len(more) : Cat(line, more)[Len(line) + k] = more[k]
    BY ConcatElements DEF Cat, Text
  <2> QED BY <1>3, <1>7, <2>1, <2>2
<1>9. ASSUME NEW k \in Occurrences(s, sep), k <= n
      PROVE  FALSE
  <2>1. /\ k \in Nat /\ 1 <= k
        /\ \A j \in 1..m : s[k + j - 1] = sep[j]
    BY <1>4
  <2>2. CASE k + m <= n + 1
    <3>1. \A j \in 1..m : k + j - 1 \in 1..n
      BY <2>1, <2>2
    <3>2. \A j \in 1..m : line[k + j - 1] = sep[j]
      BY <1>8, <2>1, <3>1
    <3>3. k \in Occurrences(line, sep)
      BY <1>4, <1>3, <2>1, <2>2, <3>2
    <3> QED BY <3>3
  <2>3. CASE ~ (k + m <= n + 1)
    <3>1. m = 2 /\ k = n
      <4>1. m = 1 \/ m = 2
        BY <1>2
      <4>2. k \in Nat
        BY <2>1
      <4> QED BY <1>9, <2>3, <4>1, <4>2
    <3>2. k + 2 - 1 = n + 1 /\ 2 \in 1..m
      BY <3>1
    <3>3. s[n + 1] = sep[2]
      BY <2>1, <3>2
    <3> QED BY <1>2, <1>8, <3>1, <3>3
  <2> QED BY <2>2, <2>3
<1>10. FindIn(s, sep) = n + 1
  <2>1. PICK first \in Nat :
          /\ first = FindIn(s, sep)
          /\ first = 0 <=> Occurrences(s, sep) = {}
          /\ first # 0 => /\ first \in Occurrences(s, sep)
                          /\ \A k \in Occurrences(s, sep) : first <= k
    BY FindFirst
  <2>2. first # 0
    BY <1>6, <2>1
  <2>3. first <= n + 1 /\ ~ (first <= n)
    BY <1>6, <1>9, <2>1, <2>2
  <2> QED BY <2>1, <2>3
<1> QED
  BY <1>1, <1>3, <1>10

\* The separators that the code splits by are simple.
LEMMA SimpleSeparators == Simple(CRLF) /\ Simple(Space) /\ Simple(ColonSpace)
<1>1. ":" # " " /\ ColonSpace = <<":", " ">> /\ ColonSpace[1] # ColonSpace[2]
  BY DEF ColonSpace
<1> QED
  BY <1>1, WordsAreTexts, LineBreakDiffers DEF Simple

\* A line without a line break ends at the line break that follows it.
LEMMA FirstBreak ==
  ASSUME NEW line \in Text, Occurrences(line, CRLF) = {}, NEW others \in Text
  PROVE  FindIn(Cat(line, Cat(CRLF, others)), CRLF) = Len(line) + 1
BY FirstSeparator, SimpleSeparators, WordsAreTexts

\* A text is split before a separator as it is alone, and after it likewise.
LEMMA SplitCat ==
  ASSUME NEW sep \in Text, sep # <<>>, Simple(sep), NEW u \in Text
  PROVE  \A s \in Text : Split(Cat(s, Cat(sep, u)), sep) = Split(s, sep) \o Split(u, sep)
<1> DEFINE Apart(t) == Split(Cat(t, Cat(sep, u)), sep) = Split(t, sep) \o Split(u, sep)
           Others == {n \in Nat : \E t \in Text : Len(t) = n /\ ~ Apart(t)}
           least == Min(Others)
<1>1. PICK after \in Seq(Text) : after = Split(u, sep)
  BY SplitType
<1>2. ASSUME NEW line \in Text, Occurrences(line, sep) = {}, NEW others \in Text
      PROVE  Split(Cat(line, Cat(sep, others)), sep) = <<line>> \o Split(others, sep)
  <2>1. PICK s \in Text : s = Cat(line, Cat(sep, others))
    BY CatsAssociate
  <2>2. PICK n \in Nat : n = Len(line) /\ FindIn(s, sep) = n + 1
    <3>1. FindIn(Cat(line, Cat(sep, others)), sep) = Len(line) + 1
      BY <1>2, FirstSeparator
    <3>2. Len(line) \in Nat
      BY DEF Text
    <3> QED BY <2>1, <3>1, <3>2
  <2>3. SubSeq(s, n + Len(sep) + 1, Len(s)) = others /\ Len(sep) \in Nat
    <3>1. IsInside(line, sep, others)
      BY OccurrenceInside
    <3> QED BY <2>1, <2>2, <3>1, Zenon DEF IsInside
  <2>4. Rest(s, sep) = others
    <3>1. (n + 1) + Len(sep) = n + Len(sep) + 1
      BY <2>3
    <3> QED BY <2>2, <2>3, <3>1 DEF Rest
  <2>5. SubSeq(s, 1, n) = line
    BY <2>1, <2>2, <1>2, ConcatParts, CatsAssociate DEF Cat, Text
  <2>6. n + 1 # 0 /\ (n + 1) - 1 = n
    OBVIOUS
  <2>7. Split(s, sep) = <<SubSeq(s, 1, n)>> \o Split(others, sep)
    BY <2>2, <2>4, <2>6, SplitUnfold
  <2> QED BY <2>1, <2>5, <2>7
<1>3. ASSUME Others # {}
      PROVE  FALSE
  <2>1. Others \in SUBSET Nat
    OBVIOUS
  <2>2. least \in Others /\ \A k \in Others : least <= k
    BY <1>3, <2>1, MinIsLeast
  <2>3. PICK t \in Text : Len(t) = least /\ ~ Apart(t)
    BY <2>2
  <2> HIDE DEF least
  <2>4. CASE FindIn(t, sep) = 0
    <3>1. Occurrences(t, sep) = {}
      BY <2>4, FindFirst
    <3>2. Split(t, sep) = <<t>>
      BY <2>4, SplitUnfold
    <3> QED BY <1>2, <2>3, <3>1, <3>2
  <2>5. CASE FindIn(t, sep) # 0
    <3>1. PICK first \in Text, rest \in Text :
            /\ first = SubSeq(t, 1, FindIn(t, sep) - 1)
            /\ rest = Rest(t, sep)
            /\ t = first \o sep \o rest
            /\ Len(t) \in Nat /\ Len(rest) \in Nat /\ Len(rest) < Len(t)
      BY <2>5, SplitFirst
    <3>2. t = Cat(first, Cat(sep, rest))
      <4>1. Cat(Cat(first, sep), rest) = Cat(first, Cat(sep, rest))
        BY CatsAssociate
      <4> QED BY <3>1, <4>1, Zenon DEF Cat
    <3>3. PICK others \in Seq(Text) : others = Split(rest, sep)
      BY SplitType
    <3>4. Split(t, sep) = <<first>> \o others
      BY <2>5, <3>1, <3>3, SplitUnfold
    <3>5. Occurrences(first, sep) = {}
      <4>1. /\ Len(<<first>> \o others) = Len(others) + 1 /\ Len(others) \in Nat
            /\ (<<first>> \o others)[1] = first
        BY ConsElements
      <4>2. 1 \in 1..Len(Split(t, sep)) /\ Split(t, sep)[1] = first
        BY <3>4, <4>1
      <4> QED BY <4>2, SplitFree
    <3>6. PICK tail \in Text : tail = Cat(rest, Cat(sep, u))
      BY CatsAssociate
    <3>7. Cat(t, Cat(sep, u)) = Cat(first, Cat(sep, tail))
      <4>1. PICK end \in Text, more \in Text : end = Cat(sep, u) /\ more = Cat(sep, rest)
        BY CatsAssociate
      <4>2. Cat(Cat(first, more), end) = Cat(first, Cat(more, end))
        BY CatsAssociate
      <4>3. Cat(Cat(sep, rest), end) = Cat(sep, Cat(rest, end))
        BY CatsAssociate
      <4> QED BY <3>2, <3>6, <4>1, <4>2, <4>3
    <3>8. Split(tail, sep) = others \o after
      <4>1. Len(rest) \in Nat /\ ~ (least <= Len(rest))
        BY <2>3, <3>1
      <4>2. Apart(rest)
        BY <2>2, <4>1
      <4> QED BY <1>1, <3>3, <3>6, <4>2
    <3>9. Split(Cat(t, Cat(sep, u)), sep) = <<first>> \o (others \o after)
      BY <1>2, <3>5, <3>7, <3>8
    <3>10. <<first>> \o (others \o after) = (<<first>> \o others) \o after
      <4>1. PICK one \in Seq(Text) : one = <<first>>
        <5>1. <<first>> \in Seq(Text)
          OBVIOUS
        <5> QED BY <5>1
      <4>2. one \o (others \o after) = (one \o others) \o after
        BY ConcatAssociative
      <4> QED BY <4>1, <4>2
    <3> QED BY <1>1, <2>3, <3>4, <3>9, <3>10
  <2> QED BY <2>4, <2>5
<1>4. \A s \in Text : Len(s) \in Nat
  BY DEF Text
<1> QED
  BY <1>3, <1>4

-----------------------------------------------------------------------------
\* Lines, printed and read

\* Lines, each with a line break after it.
Ended(lines) == [k \in DOMAIN lines |-> Cat(lines[k], CRLF)]

Printed(lines) == FlattenSeq(Ended(lines))

Unbroken(lines) == \A k \in 1..Len(lines) : Occurrences(lines[k], CRLF) = {}

LEMMA PrintedEmpty == Printed(<<>>) = <<>>
BY FlattenEmpty DEF Printed, Ended

LEMMA EndedLines ==
  ASSUME NEW lines \in Seq(Text)
  PROVE  /\ Ended(lines) \in Seq(Text)
         /\ Len(lines) \in Nat /\ Len(Ended(lines)) = Len(lines)
         /\ \A k \in 1..Len(lines) : Ended(lines)[k] = Cat(lines[k], CRLF)
<1>1. DOMAIN lines = 1..Len(lines) /\ Len(lines) \in Nat
  OBVIOUS
<1>2. PICK crlf \in Text : crlf = CRLF
  BY WordsAreTexts
<1>3. ASSUME NEW k \in 1..Len(lines)
      PROVE  Cat(lines[k], crlf) \in Text
  <2>1. lines[k] \in Text
    OBVIOUS
  <2> QED BY <2>1, CatsAssociate
<1> QED
  BY <1>1, <1>2, <1>3 DEF Ended

\* All but the last line, then the last.
LEMMA PrintedAppend ==
  ASSUME NEW lines \in Seq(Text), NEW last \in Text
  PROVE  /\ Printed(lines) \in Text
         /\ Printed(Append(lines, last)) = Cat(Printed(lines), Cat(last, CRLF))
<1>1. PICK n \in Nat : n = Len(lines)
  OBVIOUS
<1>2. PICK longer \in Seq(Text) :
        /\ longer = Append(lines, last) /\ Len(longer) = n + 1
        /\ longer[n + 1] = last /\ \A k \in 1..n : longer[k] = lines[k]
  <2>1. PICK longer \in Seq(Text) : longer = Append(lines, last)
    BY AppendProperties
  <2>2. /\ Len(longer) = Len(lines) + 1 /\ longer[Len(lines) + 1] = last
        /\ \A k \in 1..Len(lines) : longer[k] = lines[k]
    BY <2>1, AppendProperties
  <2> QED BY <1>1, <2>1, <2>2
<1>3. PICK broken \in Seq(Text), end \in Text : broken = Ended(lines) /\ end = Cat(last, CRLF)
  <2>1. Cat(last, CRLF) \in Text
    BY CatsAssociate, WordsAreTexts
  <2> QED BY <2>1, EndedLines
<1>4. Ended(longer) = Append(broken, end)
  <2>1. Len(broken) = n /\ \A k \in 1..n : broken[k] = Cat(lines[k], CRLF)
    BY <1>1, <1>3, EndedLines
  <2>2. PICK s \in Seq(Text) : s = Append(broken, end)
    BY AppendProperties
  <2>3. Len(s) = n + 1 /\ s[n + 1] = end /\ \A k \in 1..n : s[k] = broken[k]
    BY <2>1, <2>2, AppendProperties
  <2>4. PICK b \in Seq(Text) : b = Ended(longer)
    BY EndedLines
  <2>5. Len(b) = n + 1 /\ \A k \in 1..(n + 1) : b[k] = Cat(longer[k], CRLF)
    BY <1>2, <2>4, EndedLines, Zenon
  <2>6. \A k \in 1..(n + 1) : b[k] = s[k]
    <3>1. \A k \in 1..(n + 1) : k \in 1..n \/ k = n + 1
      OBVIOUS
    <3> QED BY <1>2, <1>3, <2>1, <2>3, <2>5, <3>1
  <2>7. b = s
    BY <2>3, <2>5, <2>6, SeqEqual
  <2> QED BY <2>2, <2>4, <2>7
<1>5. FlattenSeq(Append(broken, end)) = FlattenSeq(broken) \o end /\ FlattenSeq(broken) \in Text
  BY FlattenAppend, FlattenType DEF Text
<1> QED
  BY <1>2, <1>3, <1>4, <1>5 DEF Printed, Cat

\* The first line, then the others.
LEMMA PrintedCons ==
  ASSUME NEW first \in Text, NEW lines \in Seq(Text)
  PROVE  Printed(<<first>> \o lines) = Cat(Cat(first, CRLF), Printed(lines))
<1>1. PICK n \in Nat, line \in Text : n = Len(lines) /\ line = Cat(first, CRLF)
  BY CatsAssociate, WordsAreTexts
<1>2. PICK longer \in Seq(Text) :
        /\ longer = <<first>> \o lines /\ Len(longer) = n + 1
        /\ longer[1] = first /\ \A k \in 1..n : longer[k + 1] = lines[k]
  <2>1. /\ <<first>> \o lines \in Seq(Text)
        /\ Len(<<first>> \o lines) = Len(lines) + 1
        /\ (<<first>> \o lines)[1] = first
        /\ \A j \in 1..Len(lines) : (<<first>> \o lines)[j + 1] = lines[j]
    BY ConsElements
  <2> QED BY <1>1, <2>1, Zenon
<1>3. PICK broken \in Seq(Text) : broken = Ended(lines)
  BY EndedLines
<1>4. Ended(longer) = <<line>> \o broken
  <2>1. Len(broken) = n /\ \A k \in 1..n : broken[k] = Cat(lines[k], CRLF)
    BY <1>1, <1>3, EndedLines
  <2>2. PICK s \in Seq(Text) :
          /\ s = <<line>> \o broken /\ Len(s) = n + 1
          /\ s[1] = line /\ \A k \in 1..n : s[k + 1] = broken[k]
    <3>1. /\ <<line>> \o broken \in Seq(Text)
          /\ Len(<<line>> \o broken) = Len(broken) + 1
          /\ (<<line>> \o broken)[1] = line
          /\ \A j \in 1..Len(broken) : (<<line>> \o broken)[j + 1] = broken[j]
      BY ConsElements
    <3> QED BY <2>1, <3>1, Zenon
  <2>3. PICK b \in Seq(Text) : b = Ended(longer)
    BY EndedLines
  <2>4. Len(b) = n + 1 /\ \A k \in 1..(n + 1) : b[k] = Cat(longer[k], CRLF)
    BY <1>2, <2>3, EndedLines, Zenon
  <2>5. ASSUME NEW k \in 1..(n + 1)
        PROVE  b[k] = s[k]
    <3>1. CASE k = 1
      BY <1>1, <1>2, <2>2, <2>4, <3>1
    <3>2. CASE k # 1
      <4>1. PICK j \in 1..n : k = j + 1
        <5>1. k - 1 \in 1..n /\ k = (k - 1) + 1
          BY <3>2
        <5> QED BY <5>1
      <4> QED BY <1>2, <2>1, <2>2, <2>4, <4>1
    <3> QED BY <3>1, <3>2
  <2>6. b = s
    BY <2>2, <2>4, <2>5, SeqEqual
  <2> QED BY <2>2, <2>3, <2>6
<1>5. FlattenSeq(<<line>> \o broken) = line \o FlattenSeq(broken)
  BY FlattenCons DEF Text
<1> QED
  BY <1>1, <1>2, <1>3, <1>4, <1>5 DEF Printed, Cat

\* Printed lines are split into these lines.
LEMMA PrintedSplit ==
  ASSUME NEW last \in Text, Occurrences(last, CRLF) = {}
  PROVE  \A lines \in Seq(Text) :
           Unbroken(lines) => Split(Cat(Printed(lines), last), CRLF) = Append(lines, last)
<1> DEFINE Good(ls) == Unbroken(ls) =>
                         \A end \in Text : Occurrences(end, CRLF) = {} =>
                           Split(Cat(Printed(ls), end), CRLF) = Append(ls, end)
           Others == {n \in Nat : \E ls \in Seq(Text) : Len(ls) = n /\ ~ Good(ls)}
           least == Min(Others)
<1>1. ASSUME Others # {}
      PROVE  FALSE
  <2>1. Others \in SUBSET Nat
    OBVIOUS
  <2>2. least \in Others /\ \A k \in Others : least <= k
    BY <1>1, <2>1, MinIsLeast
  <2>3. PICK ls \in Seq(Text) : Len(ls) = least /\ ~ Good(ls)
    BY <2>2
  <2> HIDE DEF least
  <2>4. PICK end \in Text : /\ Unbroken(ls) /\ Occurrences(end, CRLF) = {}
                            /\ Split(Cat(Printed(ls), end), CRLF) # Append(ls, end)
    BY <2>3
  <2>5. CASE ls = <<>>
    <3>1. Cat(<<>>, end) = end
      BY ConcatEmptySeq DEF Cat, Text
    <3>2. FindIn(end, CRLF) = 0
      BY <2>4, FindFirst, WordsAreTexts
    <3>3. Split(end, CRLF) = <<end>>
      BY <3>2, SplitUnfold, WordsAreTexts
    <3>4. Append(<<>>, end) = <<end>>
      OBVIOUS
    <3> QED BY <2>4, <2>5, <3>1, <3>3, <3>4, PrintedEmpty
  <2>6. CASE ls # <<>>
    <3>1. PICK front \in Seq(Text), line \in Text : ls = Append(front, line)
      BY <2>6, SequenceEmptyOrAppend
    <3>2. PICK n \in Nat : /\ n = Len(front) /\ Len(ls) = n + 1
                           /\ ls[n + 1] = line /\ \A k \in 1..n : ls[k] = front[k]
      BY <3>1, AppendProperties
    <3>3. Unbroken(front) /\ Occurrences(line, CRLF) = {}
      <4>1. n + 1 \in 1..(n + 1) /\ \A k \in 1..n : k \in 1..(n + 1)
        OBVIOUS
      <4> QED BY <2>4, <3>2, <4>1 DEF Unbroken
    <3>4. Good(front)
      <4>1. n \in Nat /\ ~ (least <= n)
        BY <2>3, <3>2
      <4> QED BY <2>2, <3>2, <4>1
    <3>5. PICK printed \in Text, head \in Text : printed = Printed(front) /\ head = Cat(printed, line)
      BY PrintedAppend, CatsAssociate
    <3>6. Split(head, CRLF) = ls
      BY <3>1, <3>3, <3>4, <3>5
    <3>7. Split(end, CRLF) = <<end>>
      <4>1. FindIn(end, CRLF) = 0
        BY <2>4, FindFirst, WordsAreTexts
      <4> QED BY <4>1, SplitUnfold, WordsAreTexts
    <3>8. Split(Cat(head, Cat(CRLF, end)), CRLF) = ls \o <<end>>
      <4>1. Split(Cat(head, Cat(CRLF, end)), CRLF) = Split(head, CRLF) \o Split(end, CRLF)
        BY SplitCat, SimpleSeparators, WordsAreTexts
      <4> QED BY <3>6, <3>7, <4>1
    <3>9. Cat(Printed(ls), end) = Cat(head, Cat(CRLF, end))
      <4>1. Printed(ls) = Cat(printed, Cat(line, CRLF))
        BY <3>1, <3>5, PrintedAppend
      <4>2. PICK crlf \in Text : crlf = CRLF
        BY WordsAreTexts
      <4>3. Cat(printed, Cat(line, crlf)) = Cat(head, crlf)
        BY <3>5, CatsAssociate
      <4>4. Cat(Cat(head, crlf), end) = Cat(head, Cat(crlf, end))
        BY CatsAssociate
      <4> QED BY <4>1, <4>2, <4>3, <4>4
    <3>10. ls \o <<end>> = Append(ls, end)
      OBVIOUS
    <3> QED BY <2>4, <3>8, <3>9, <3>10
  <2> QED BY <2>5, <2>6
<1>2. \A ls \in Seq(Text) : Len(ls) \in Nat
  OBVIOUS
<1> QED
  BY <1>1, <1>2

\* A text is its pieces printed, but for a line break after the last.
LEMMA SplitPrinted ==
  \A s \in Text : \A front \in Seq(Text), last \in Text :
    Split(s, CRLF) = Append(front, last) => s = Cat(Printed(front), last)
<1> DEFINE Good(t) == \A front \in Seq(Text), last \in Text :
                        Split(t, CRLF) = Append(front, last) => t = Cat(Printed(front), last)
           Others == {n \in Nat : \E t \in Text : Len(t) = n /\ ~ Good(t)}
           least == Min(Others)
<1>1. ASSUME Others # {}
      PROVE  FALSE
  <2>1. Others \in SUBSET Nat
    OBVIOUS
  <2>2. least \in Others /\ \A k \in Others : least <= k
    BY <1>1, <2>1, MinIsLeast
  <2>3. PICK t \in Text : Len(t) = least /\ ~ Good(t)
    BY <2>2
  <2> HIDE DEF least
  <2>4. PICK front \in Seq(Text), last \in Text :
          Split(t, CRLF) = Append(front, last) /\ t # Cat(Printed(front), last)
    BY <2>3
  <2>5. CASE FindIn(t, CRLF) = 0
    <3>1. Split(t, CRLF) = <<t>>
      BY <2>5, SplitUnfold, WordsAreTexts
    <3>2. <<t>> = Append(<<>>, t) /\ <<>> \in Seq(Text)
      OBVIOUS
    <3>3. front = <<>> /\ last = t
      <4>1. PICK none \in Seq(Text) : none = <<>>
        BY <3>2
      <4>2. Append(front, last) = Append(none, t)
        BY <2>4, <3>1, <3>2, <4>1
      <4>3. Append(front, last) = Append(none, t) <=> front = none /\ last = t
        BY AppendInjective
      <4> QED BY <4>1, <4>2, <4>3
    <3>4. Cat(<<>>, t) = t
      BY ConcatEmptySeq DEF Cat, Text
    <3> QED BY <2>4, <3>3, <3>4, PrintedEmpty
  <2>6. CASE FindIn(t, CRLF) # 0
    <3>1. PICK first \in Text, rest \in Text :
            /\ first = SubSeq(t, 1, FindIn(t, CRLF) - 1)
            /\ rest = Rest(t, CRLF)
            /\ t = first \o CRLF \o rest
            /\ Len(t) \in Nat /\ Len(rest) \in Nat /\ Len(rest) < Len(t)
      BY <2>6, SplitFirst, WordsAreTexts
    <3>2. PICK others \in Seq(Text) : others = Split(rest, CRLF) /\ others # <<>>
      <4>1. Split(rest, CRLF) \in Seq(Text) /\ Len(Split(rest, CRLF)) \in Nat \ {0}
        BY SplitType, WordsAreTexts
      <4> QED BY <4>1, EmptySeq
    <3>3. PICK more \in Seq(Text), end \in Text : others = Append(more, end)
      BY <3>2, SequenceEmptyOrAppend
    <3>4. rest = Cat(Printed(more), end)
      <4>1. Len(rest) \in Nat /\ ~ (least <= Len(rest))
        BY <2>3, <3>1
      <4>2. Good(rest)
        <5> HIDE DEF Good
        <5> QED BY <2>2, <4>1
      <4> QED BY <3>2, <3>3, <4>2, Zenon
    <3>5. PICK one \in Seq(Text) : one = <<first>>
      <4>1. <<first>> \in Seq(Text)
        OBVIOUS
      <4> QED BY <4>1
    <3>6. Append(front, last) = one \o Append(more, end)
      <4>1. Split(t, CRLF) = <<SubSeq(t, 1, FindIn(t, CRLF) - 1)>> \o Split(Rest(t, CRLF), CRLF)
        BY <2>6, SplitUnfold, WordsAreTexts, Zenon
      <4> QED BY <2>4, <3>1, <3>2, <3>3, <3>5, <4>1, Zenon
    <3>7. front = one \o more /\ last = end
      <4>1. one \o Append(more, end) = Append(one \o more, end) /\ one \o more \in Seq(Text)
        OBVIOUS
      <4>2. PICK both \in Seq(Text) : both = one \o more
        BY <4>1
      <4>3. Append(front, last) = Append(both, end)
        BY <3>6, <4>1, <4>2
      <4>4. Append(front, last) = Append(both, end) <=> front = both /\ last = end
        BY AppendInjective
      <4> QED BY <4>2, <4>3, <4>4
    <3>8. Printed(one \o more) = Cat(Cat(first, CRLF), Printed(more))
      BY <3>5, PrintedCons
    <3>9. Cat(Printed(front), last) = t
      <4>1. PICK crlf \in Text, printed \in Text : crlf = CRLF /\ printed = Printed(more)
        BY PrintedAppend, WordsAreTexts
      <4>2. PICK head \in Text : head = Cat(first, crlf)
        BY CatsAssociate
      <4>3. Cat(Cat(head, printed), end) = Cat(head, Cat(printed, end))
        BY CatsAssociate
      <4>4. t = Cat(head, rest)
        BY <3>1, <4>1, <4>2 DEF Cat
      <4> QED BY <3>4, <3>7, <3>8, <4>1, <4>2, <4>3, <4>4
    <3> QED BY <2>4, <3>9
  <2> QED BY <2>5, <2>6
<1>2. \A t \in Text : Len(t) \in Nat
  BY DEF Text
<1> QED
  BY <1>1, <1>2

LEMMA CatElements ==
  ASSUME NEW s \in Text, NEW t \in Text
  PROVE  /\ Cat(s, t) \in Text
         /\ Len(s) \in Nat /\ Len(t) \in Nat /\ Len(Cat(s, t)) = Len(s) + Len(t)
         /\ \A k \in 1..Len(s) : Cat(s, t)[k] = s[k]
         /\ \A k \in 1..Len(t) : Cat(s, t)[Len(s) + k] = t[k]
BY ConcatElements DEF Cat, Text

\* What occurs beyond the first part occurs in the second.
LEMMA OccurrenceAfter ==
  ASSUME NEW s \in Text, NEW t \in Text, NEW sep \in Text,
         NEW k \in Occurrences(Cat(s, t), sep), Len(s) < k
  PROVE  k - Len(s) \in Occurrences(t, sep)
<1>1. PICK both \in Text : both = Cat(s, t)
  BY CatElements
<1>2. PICK m \in Nat, n \in Nat, p \in Nat : m = Len(s) /\ n = Len(t) /\ p = Len(sep)
  BY DEF Text
<1>3. Len(both) = m + n /\ \A j \in 1..n : both[m + j] = t[j]
  <2>1. /\ Len(Cat(s, t)) = Len(s) + Len(t)
        /\ \A j \in 1..Len(t) : Cat(s, t)[Len(s) + j] = t[j]
    BY CatElements
  <2> QED BY <1>1, <1>2, <2>1
<1>4. /\ k \in Nat /\ k + p <= (m + n) + 1
      /\ \A j \in 1..p : both[k + j - 1] = sep[j]
  BY <1>1, <1>2, <1>3, OccurrenceTokens
<1>5. PICK i \in Nat : i = k - m /\ 1 <= i /\ i + p <= n + 1 /\ k = m + i
  <2>1. m < k
    BY <1>2
  <2>2. k - m \in Nat /\ 1 <= k - m /\ (k - m) + p <= n + 1 /\ k = m + (k - m)
    BY <1>4, <2>1
  <2> QED BY <2>2
<1>6. ASSUME NEW j \in 1..p
      PROVE  t[i + j - 1] = sep[j]
  <2>1. i + j - 1 \in 1..n /\ k + j - 1 = m + (i + j - 1)
    BY <1>5
  <2> QED BY <1>3, <1>4, <2>1
<1>7. i \in Occurrences(t, sep)
  BY <1>2, <1>5, <1>6, OccurrenceTokens
<1> QED
  BY <1>2, <1>5, <1>7

\* A blank line is a line break twice.
LEMMA BlankIsTwoBreaks ==
  ASSUME NEW t \in Text, NEW k \in Nat
  PROVE  k \in Occurrences(t, BlankLine) <=>
           k \in Occurrences(t, CRLF) /\ k + 2 \in Occurrences(t, CRLF)
<1>1. PICK blank \in Text, crlf \in Text :
        /\ blank = BlankLine /\ Len(blank) = 4
        /\ crlf = CRLF /\ Len(crlf) = 2
        /\ blank[1] = crlf[1] /\ blank[2] = crlf[2] /\ blank[3] = crlf[1] /\ blank[4] = crlf[2]
  <2>1. BlankLine = <<CR, "\n", CR, "\n">> /\ CRLF[1] = CR /\ CRLF[2] = "\n"
    BY WordsAreTexts, LineBreakDiffers
  <2>2. /\ BlankLine[1] = CR /\ BlankLine[2] = "\n" /\ BlankLine[3] = CR /\ BlankLine[4] = "\n"
    BY <2>1
  <2> QED BY <2>1, <2>2, WordsAreTexts
<1>2. PICK n \in Nat : n = Len(t)
  BY DEF Text
<1>3. k \in Occurrences(t, blank) <=>
        /\ 1 <= k /\ k + 4 <= n + 1
        /\ \A j \in 1..4 : t[k + j - 1] = blank[j]
  <2>1. k \in Occurrences(t, blank) <=>
          /\ k \in Nat /\ 1 <= k /\ k + Len(blank) <= Len(t) + 1
          /\ \A j \in 1..Len(blank) : t[k + j - 1] = blank[j]
    BY OccurrenceTokens
  <2> QED BY <1>1, <1>2, <2>1
<1>4. ASSUME NEW i \in Nat
      PROVE  i \in Occurrences(t, crlf) <=>
               /\ 1 <= i /\ i + 2 <= n + 1
               /\ \A j \in 1..2 : t[i + j - 1] = crlf[j]
  <2>1. i \in Occurrences(t, crlf) <=>
          /\ i \in Nat /\ 1 <= i /\ i + Len(crlf) <= Len(t) + 1
          /\ \A j \in 1..Len(crlf) : t[i + j - 1] = crlf[j]
    BY OccurrenceTokens
  <2> QED BY <1>1, <1>2, <2>1
<1>5. k + 2 \in Occurrences(t, crlf) <=>
        /\ 1 <= k + 2 /\ (k + 2) + 2 <= n + 1
        /\ \A j \in 1..2 : t[(k + 2) + j - 1] = crlf[j]
  <2>1. k + 2 \in Nat
    OBVIOUS
  <2> QED BY <1>4, <2>1
<1>6. (\A j \in 1..4 : t[k + j - 1] = blank[j]) <=>
        t[k] = blank[1] /\ t[k + 1] = blank[2] /\ t[k + 2] = blank[3] /\ t[k + 3] = blank[4]
  <2>1. \A j \in 1..4 : j = 1 \/ j = 2 \/ j = 3 \/ j = 4
    OBVIOUS
  <2>2. k + 1 - 1 = k /\ k + 2 - 1 = k + 1 /\ k + 3 - 1 = k + 2 /\ k + 4 - 1 = k + 3
    OBVIOUS
  <2> QED BY <2>1, <2>2
<1>7. (\A j \in 1..2 : t[k + j - 1] = crlf[j]) <=> t[k] = crlf[1] /\ t[k + 1] = crlf[2]
  <2>1. \A j \in 1..2 : j = 1 \/ j = 2
    OBVIOUS
  <2>2. k + 1 - 1 = k /\ k + 2 - 1 = k + 1
    OBVIOUS
  <2> QED BY <2>1, <2>2
<1>8. (\A j \in 1..2 : t[(k + 2) + j - 1] = crlf[j]) <=> t[k + 2] = crlf[1] /\ t[k + 3] = crlf[2]
  <2>1. \A j \in 1..2 : j = 1 \/ j = 2
    OBVIOUS
  <2>2. (k + 2) + 1 - 1 = k + 2 /\ (k + 2) + 2 - 1 = k + 3
    OBVIOUS
  <2> QED BY <2>1, <2>2
<1>9. /\ 1 <= k + 2 /\ ((k + 2) + 2 <= n + 1 <=> k + 4 <= n + 1) /\ (k + 4 <= n + 1 => k + 2 <= n + 1)
  OBVIOUS
<1>10. k \in Occurrences(t, blank) <=>
         /\ 1 <= k /\ k + 4 <= n + 1
         /\ t[k] = crlf[1] /\ t[k + 1] = crlf[2] /\ t[k + 2] = crlf[1] /\ t[k + 3] = crlf[2]
  BY <1>1, <1>3, <1>6
<1>11. k \in Occurrences(t, crlf) <=> 1 <= k /\ k + 2 <= n + 1 /\ t[k] = crlf[1] /\ t[k + 1] = crlf[2]
  BY <1>4, <1>7
<1>12. k + 2 \in Occurrences(t, crlf) <=> k + 4 <= n + 1 /\ t[k + 2] = crlf[1] /\ t[k + 3] = crlf[2]
  BY <1>5, <1>8, <1>9
<1> QED
  BY <1>1, <1>9, <1>10, <1>11, <1>12

\* Where there is an occurrence at n and none before, that is where it is found.
LEMMA FoundFirst ==
  ASSUME NEW s \in Text, NEW sub \in Text, NEW n \in Nat \ {0},
         n \in Occurrences(s, sub), \A k \in Occurrences(s, sub) : n <= k
  PROVE  FindIn(s, sub) = n
<1>1. PICK first \in Nat :
        /\ first = FindIn(s, sub)
        /\ first = 0 <=> Occurrences(s, sub) = {}
        /\ first # 0 => /\ first \in Occurrences(s, sub)
                        /\ \A k \in Occurrences(s, sub) : first <= k
  BY FindFirst
<1> QED
  BY <1>1

Proper(lines) == Unbroken(lines) /\ \A k \in 1..Len(lines) : lines[k] # <<>>

\* Lines that are not empty have no blank line between them.
LEMMA NoBlankBefore ==
  \A lines \in Seq(Text) :
    Proper(lines) =>
      /\ Len(Printed(lines)) # 0 => Printed(lines)[Len(Printed(lines))] = "\n"
      /\ \A x \in Text : \A k \in Occurrences(Cat(Printed(lines), x), BlankLine) :
           Len(Printed(lines)) <= k + 1
<1> DEFINE NoBlank(ls) ==
             /\ Len(Printed(ls)) # 0 => Printed(ls)[Len(Printed(ls))] = "\n"
             /\ \A x \in Text : \A k \in Occurrences(Cat(Printed(ls), x), BlankLine) :
                  Len(Printed(ls)) <= k + 1
           Others == {n \in Nat : \E ls \in Seq(Text) : Len(ls) = n /\ Proper(ls) /\ ~ NoBlank(ls)}
           least == Min(Others)
<1>1. ASSUME Others # {}
      PROVE  FALSE
  <2>1. Others \in SUBSET Nat
    OBVIOUS
  <2>2. least \in Others /\ \A k \in Others : least <= k
    BY <1>1, <2>1, MinIsLeast
  <2>3. PICK ls \in Seq(Text) : Len(ls) = least /\ Proper(ls) /\ ~ NoBlank(ls)
    BY <2>2
  <2> HIDE DEF least
  <2>4. CASE ls = <<>>
    <3>1. Printed(ls) = <<>> /\ Len(<<>>) = 0
      BY <2>4, PrintedEmpty
    <3>2. \A x \in Text : \A k \in Occurrences(Cat(Printed(ls), x), BlankLine) : k \in Nat
      BY <3>1, CatElements, EmptySeq, OccurrenceTokens, WordsAreTexts DEF Text
    <3>3. \A k \in Nat : 0 <= k + 1
      OBVIOUS
    <3> QED BY <2>3, <3>1, <3>2, <3>3
  <2>5. CASE ls # <<>>
    <3>1. PICK front \in Seq(Text), line \in Text : ls = Append(front, line)
      BY <2>5, SequenceEmptyOrAppend
    <3>2. PICK n \in Nat : /\ n = Len(front) /\ Len(ls) = n + 1
                           /\ ls[n + 1] = line /\ \A k \in 1..n : ls[k] = front[k]
      BY <3>1, AppendProperties
    <3>3. Proper(front) /\ Occurrences(line, CRLF) = {} /\ line # <<>>
      <4>1. n + 1 \in 1..(n + 1) /\ \A k \in 1..n : k \in 1..(n + 1)
        OBVIOUS
      <4> QED BY <2>3, <3>2, <4>1 DEF Proper, Unbroken
    <3>4. NoBlank(front)
      <4>1. n \in Nat /\ ~ (least <= n)
        BY <2>3, <3>2
      <4> HIDE DEF NoBlank
      <4> QED BY <2>2, <3>2, <3>3, <4>1
    <3>5. PICK head \in Text, crlf \in Text, p \in Nat, m \in Nat \ {0} :
            /\ head = Printed(front) /\ p = Len(head)
            /\ crlf = CRLF /\ Len(crlf) = 2
            /\ m = Len(line)
      <4>1. Printed(front) \in Text /\ CRLF \in Text /\ Len(CRLF) = 2
        BY PrintedAppend, WordsAreTexts
      <4>2. Len(Printed(front)) \in Nat /\ Len(line) \in Nat \ {0}
        BY <3>3, <4>1, EmptySeq DEF Text
      <4> QED BY <4>1, <4>2
    <3>6. PICK all \in Text, end \in Text :
            all = Printed(ls) /\ end = Cat(line, crlf) /\ all = Cat(head, end)
      <4>1. Printed(ls) = Cat(head, Cat(line, crlf))
        BY <3>1, <3>5, PrintedAppend
      <4>2. Cat(line, crlf) \in Text /\ Cat(head, Cat(line, crlf)) \in Text
        BY CatElements
      <4> QED BY <4>1, <4>2
    <3>7. /\ Len(end) = m + 2 /\ Len(all) = p + (m + 2)
          /\ end[m + 2] = crlf[2]
          /\ all[p + (m + 2)] = end[m + 2]
      <4>1. Len(end) = m + 2 /\ \A k \in 1..2 : end[m + k] = crlf[k]
        <5>1. /\ Len(Cat(line, crlf)) = Len(line) + Len(crlf)
              /\ \A k \in 1..Len(crlf) : Cat(line, crlf)[Len(line) + k] = crlf[k]
          BY CatElements
        <5> QED BY <3>5, <3>6, <5>1
      <4>2. Len(all) = p + (m + 2) /\ \A k \in 1..(m + 2) : all[p + k] = end[k]
        <5>1. /\ Len(Cat(head, end)) = Len(head) + Len(end)
              /\ \A k \in 1..Len(end) : Cat(head, end)[Len(head) + k] = end[k]
          BY CatElements
        <5> QED BY <3>5, <3>6, <4>1, <5>1
      <4>3. 2 \in 1..2 /\ m + 2 \in 1..(m + 2)
        OBVIOUS
      <4> QED BY <4>1, <4>2, <4>3
    <3>8. all[Len(all)] = "\n"
      BY <3>5, <3>7, LineBreakDiffers
    <3>9. ASSUME NEW x \in Text, NEW k \in Occurrences(Cat(all, x), BlankLine)
          PROVE  p + (m + 2) <= k + 1
      <4>1. PICK more \in Text, t \in Text : more = Cat(line, Cat(crlf, x)) /\ t = Cat(head, more)
        <5>1. Cat(crlf, x) \in Text
          BY CatElements
        <5>2. Cat(line, Cat(crlf, x)) \in Text
          BY <5>1, CatElements
        <5> QED BY <5>2, CatElements
      <4>2. Cat(all, x) = t
        <5>1. Cat(Cat(head, end), x) = Cat(head, Cat(end, x))
          BY CatsAssociate
        <5>2. Cat(Cat(line, crlf), x) = Cat(line, Cat(crlf, x))
          BY CatsAssociate
        <5> QED BY <3>6, <4>1, <5>1, <5>2
      <4>3. p <= k + 1
        BY <3>4, <3>5, <4>1, <4>2
      <4>4. k \in Nat /\ 1 <= k /\ t[k] = CR
        <5>1. BlankLine \in Text /\ k \in Occurrences(t, BlankLine)
          BY <4>2, WordsAreTexts
        <5>2. /\ k \in Nat /\ 1 <= k
              /\ \A j \in 1..Len(BlankLine) : t[k + j - 1] = BlankLine[j]
          BY <5>1, OccurrenceTokens
        <5>3. 1 \in 1..Len(BlankLine) /\ k + 1 - 1 = k /\ BlankLine[1] = CR
          BY <5>2, WordsAreTexts
        <5> QED BY <5>2, <5>3
      <4>5. k \in Occurrences(t, crlf) /\ k + 2 \in Occurrences(t, crlf)
        BY <3>5, <4>2, <4>4, BlankIsTwoBreaks
      <4>6. \A j \in Occurrences(more, crlf) : m + 1 <= j
        <5>1. FindIn(more, crlf) = m + 1
          BY <3>3, <3>5, <4>1, FirstBreak
        <5>2. m + 1 # 0
          OBVIOUS
        <5> QED BY <5>1, <5>2, FindFirst
      <4>7. \A j \in Occurrences(t, crlf) : j \in Nat /\ (p < j => m + 1 <= j - p)
        <5>1. ASSUME NEW j \in Occurrences(t, crlf)
              PROVE  j \in Nat /\ (p < j => m + 1 <= j - p)
          <6>1. j \in Nat
            BY OccurrenceTokens
          <6>2. p < j => j - p \in Occurrences(more, crlf)
            BY <3>5, <4>1, OccurrenceAfter
          <6> QED BY <4>6, <6>1, <6>2
        <5> QED BY <5>1
      <4>8. CASE p < k
        <5>1. m + 1 <= k - p
          BY <4>5, <4>7, <4>8
        <5> QED BY <4>4, <5>1
      <4>9. CASE p = k
        <5>1. head[p] = "\n"
          BY <3>4, <3>5, <4>4, <4>9
        <5>2. t[p] = head[p]
          <6>1. p \in 1..p
            BY <4>4, <4>9
          <6>2. \A j \in 1..Len(head) : Cat(head, more)[j] = head[j]
            BY CatElements
          <6> QED BY <3>5, <4>1, <6>1, <6>2
        <5>3. CR # "\n"
          BY LineBreakDiffers
        <5> QED BY <4>4, <4>9, <5>1, <5>2, <5>3
      <4>10. CASE p = k + 1
        <5>1. p < k + 2 /\ (k + 2) - p = 1
          BY <4>4, <4>10
        <5>2. m + 1 <= 1
          BY <4>5, <4>7, <5>1
        <5> QED BY <5>2
      <4> QED BY <4>3, <4>4, <4>8, <4>9, <4>10
    <3> QED BY <2>3, <3>6, <3>7, <3>8, <3>9
  <2> QED BY <2>4, <2>5
<1>2. \A ls \in Seq(Text) : Len(ls) \in Nat
  OBVIOUS
<1> HIDE DEF NoBlank
<1>3. \A ls \in Seq(Text) : Proper(ls) => NoBlank(ls)
  BY <1>1, <1>2
<1> QED
  BY <1>3 DEF NoBlank

\* What occurs before the end of the first part occurs in it.
LEMMA OccurrenceBefore ==
  ASSUME NEW s \in Text, NEW t \in Text, NEW sep \in Text,
         NEW k \in Occurrences(Cat(s, t), sep), k + Len(sep) <= Len(s) + 1
  PROVE  k \in Occurrences(s, sep)
<1>1. PICK both \in Text : both = Cat(s, t)
  BY CatElements
<1>2. PICK m \in Nat, p \in Nat : m = Len(s) /\ p = Len(sep)
  BY DEF Text
<1>3. \A j \in 1..m : both[j] = s[j]
  <2>1. \A j \in 1..Len(s) : Cat(s, t)[j] = s[j]
    BY CatElements
  <2> QED BY <1>1, <1>2, <2>1
<1>4. k \in Nat /\ 1 <= k /\ \A j \in 1..p : both[k + j - 1] = sep[j]
  BY <1>1, <1>2, OccurrenceTokens
<1>5. k + p <= m + 1
  BY <1>2
<1>6. ASSUME NEW j \in 1..p
      PROVE  s[k + j - 1] = sep[j]
  <2>1. k + j - 1 \in 1..m
    BY <1>4, <1>5
  <2> QED BY <1>3, <1>4, <2>1
<1> QED
  BY <1>2, <1>4, <1>5, <1>6, OccurrenceTokens

\* Two texts without line breaks make one without, unless there is one where
\* they meet.
LEMMA CatUnbroken ==
  ASSUME NEW s \in Text, NEW t \in Text,
         Occurrences(s, CRLF) = {}, Occurrences(t, CRLF) = {},
         \/ Len(s) = 0 \/ s[Len(s)] # CR
         \/ Len(t) = 0 \/ t[1] # "\n"
  PROVE  Occurrences(Cat(s, t), CRLF) = {}
<1>1. PICK both \in Text : both = Cat(s, t)
  BY CatElements
<1>2. PICK m \in Nat, n \in Nat : m = Len(s) /\ n = Len(t)
  BY DEF Text
<1>3. PICK crlf \in Text : crlf = CRLF /\ Len(crlf) = 2 /\ crlf[1] = CR /\ crlf[2] = "\n"
  BY WordsAreTexts, LineBreakDiffers
<1>4. /\ Len(both) = m + n
      /\ \A j \in 1..m : both[j] = s[j]
      /\ \A j \in 1..n : both[m + j] = t[j]
  <2>1. /\ Len(Cat(s, t)) = Len(s) + Len(t)
        /\ \A j \in 1..Len(s) : Cat(s, t)[j] = s[j]
        /\ \A j \in 1..Len(t) : Cat(s, t)[Len(s) + j] = t[j]
    BY CatElements
  <2> QED BY <1>1, <1>2, <2>1
<1>5. ASSUME NEW k \in Occurrences(both, crlf)
      PROVE  FALSE
  <2>1. /\ k \in Nat /\ 1 <= k /\ k + 2 <= (m + n) + 1
        /\ both[k] = CR /\ both[k + 1] = "\n"
    <3>1. /\ k \in Nat /\ 1 <= k /\ k + Len(crlf) <= Len(both) + 1
          /\ \A j \in 1..Len(crlf) : both[k + j - 1] = crlf[j]
      BY OccurrenceTokens
    <3>2. k + 1 - 1 = k /\ k + 2 - 1 = k + 1 /\ 1 \in 1..Len(crlf) /\ 2 \in 1..Len(crlf)
      BY <1>3, <3>1
    <3> QED BY <1>3, <1>4, <3>1, <3>2
  <2>2. CASE m < k
    <3>1. k - m \in Occurrences(t, crlf)
      BY <1>1, <1>2, <2>2, OccurrenceAfter
    <3> QED BY <1>3, <3>1
  <2>3. CASE k + 2 <= m + 1
    <3>1. k \in Occurrences(s, crlf)
      <4>1. k + Len(crlf) <= Len(s) + 1
        BY <1>2, <1>3, <2>3
      <4> QED BY <1>1, <4>1, OccurrenceBefore
    <3> QED BY <1>3, <3>1
  <2>4. CASE k = m
    <3>1. m \in 1..m /\ 1 \in 1..n
      BY <2>1, <2>4
    <3>2. s[m] = CR /\ t[1] = "\n"
      BY <1>4, <2>1, <2>4, <3>1
    <3>3. m # 0 /\ n # 0
      BY <3>1
    <3> QED BY <1>2, <3>2, <3>3
  <2> QED BY <2>1, <2>2, <2>3, <2>4
<1> QED
  BY <1>1, <1>3, <1>5

LEMMA OneToken ==
  ASSUME NEW x \in Tokens
  PROVE  <<x>> \in Text /\ Len(<<x>>) = 1 /\ <<x>>[1] = x
BY DEF Text

LEMMA LineBreakParts == Cat(<<CR>>, <<"\n">>) = CRLF
<1>1. PICK cr \in Text : cr = <<CR>> /\ Len(cr) = 1 /\ cr[1] = CR
  <2>1. CR \in Tokens
    BY TokensAssumption, Zenon
  <2> QED BY <2>1, OneToken
<1>2. PICK lf \in Text : lf = <<"\n">> /\ Len(lf) = 1 /\ lf[1] = "\n"
  <2>1. "\n" \in Tokens
    BY TokensAssumption, Zenon
  <2> QED BY <2>1, OneToken
<1>3. PICK crlf \in Text : crlf = CRLF /\ Len(crlf) = 2 /\ crlf[1] = CR /\ crlf[2] = "\n"
  BY WordsAreTexts, LineBreakDiffers
<1>4. PICK both \in Text : both = Cat(cr, lf)
  BY CatsAssociate
<1>5. /\ Len(Cat(cr, lf)) = Len(cr) + Len(lf)
      /\ \A k \in 1..Len(cr) : Cat(cr, lf)[k] = cr[k]
      /\ \A k \in 1..Len(lf) : Cat(cr, lf)[Len(cr) + k] = lf[k]
  BY ConcatElements DEF Cat, Text
<1>6. Len(both) = 2 /\ both[1] = CR /\ both[2] = "\n"
  <2>1. 1 \in 1..Len(cr) /\ 1 \in 1..Len(lf) /\ Len(cr) + 1 = 2
    BY <1>1, <1>2
  <2> QED BY <1>1, <1>2, <1>4, <1>5, <2>1
<1>7. both = crlf
  <2>1. \A k \in 1..Len(both) : both[k] = crlf[k]
    BY <1>3, <1>6
  <2> QED BY <1>3, <1>6, <2>1, SeqEqual DEF Text
<1> QED
  BY <1>1, <1>2, <1>3, <1>4, <1>7

LEMMA CRAlone ==
  /\ <<CR>> \in Text /\ Len(<<CR>>) = 1 /\ <<CR>>[1] = CR
  /\ <<"\n">> \in Text
  /\ Cat(<<CR>>, <<"\n">>) = CRLF
  /\ Occurrences(<<CR>>, CRLF) = {}
<1>1. PICK cr \in Tokens, lf \in Tokens : cr = CR /\ lf = "\n"
  BY TokensAssumption, Zenon
<1>2. <<cr>> \in Text /\ Len(<<cr>>) = 1 /\ <<cr>>[1] = cr /\ <<lf>> \in Text
  BY OneToken
<1>3. ASSUME NEW k \in Occurrences(<<cr>>, CRLF)
      PROVE  FALSE
  <2>1. k \in Nat /\ 1 <= k /\ k + Len(CRLF) <= Len(<<cr>>) + 1
    BY <1>2, OccurrenceTokens, WordsAreTexts
  <2> QED BY <1>2, <2>1, WordsAreTexts
<1> QED
  BY <1>1, <1>2, <1>3, LineBreakParts

\* A message that is printed is read as it was, but for the first character of
\* the blank line.
LEMMA PrintedRead ==
  ASSUME NEW front \in Seq(Text), NEW last \in Text, NEW body \in Text, NEW text,
         Proper(Append(front, last)),
         text = Cat(Printed(Append(front, last)), Cat(CRLF, body))
  PROVE  /\ text \in Text
         /\ FindIn(text, BlankLine) # 0
         /\ Lines(text) = Append(front, Cat(last, <<CR>>))
         /\ BodyOf(text) = body
<1>1. PICK crlf \in Text, blank \in Text, cr \in Text, lf \in Text :
        /\ crlf = CRLF /\ Len(crlf) = 2
        /\ blank = BlankLine /\ Len(blank) = 4 /\ blank = Cat(crlf, crlf)
        /\ cr = <<CR>> /\ Len(cr) = 1 /\ cr[1] = CR /\ lf = <<"\n">>
        /\ crlf = Cat(cr, lf)
  BY WordsAreTexts, CRAlone DEF BlankLine, Cat
<1>2. PICK printed \in Text, head \in Text : printed = Printed(front) /\ head = Cat(printed, last)
  <2>1. Printed(front) \in Text
    BY PrintedAppend
  <2> QED BY <2>1, CatElements
<1>3. PICK lines \in Seq(Text) : lines = Append(front, last)
  BY AppendProperties
<1>4. Printed(lines) = Cat(head, crlf)
  <2>1. Printed(lines) = Cat(printed, Cat(last, crlf))
    BY <1>1, <1>2, <1>3, PrintedAppend
  <2> QED BY <1>2, <2>1, CatsAssociate
<1>5. text = Cat(head, Cat(blank, body))
  <2>1. PICK end \in Text : end = Cat(crlf, body)
    BY CatElements
  <2>2. Cat(Cat(head, crlf), end) = Cat(head, Cat(crlf, end))
    BY CatsAssociate
  <2>3. Cat(Cat(crlf, crlf), body) = Cat(crlf, Cat(crlf, body))
    BY CatsAssociate
  <2> QED BY <1>1, <1>3, <1>4, <2>1, <2>2, <2>3
<1>6. PICK n \in Nat : n = Len(head)
  BY DEF Text
<1>7. /\ text \in Text
      /\ n + 1 \in Occurrences(text, blank)
      /\ SubSeq(text, n + 4 + 1, Len(text)) = body
  <2>1. IsInside(head, blank, body)
    BY OccurrenceInside
  <2> QED BY <1>1, <1>5, <1>6, <2>1 DEF IsInside
<1>8. ASSUME NEW k \in Occurrences(text, blank)
      PROVE  n + 1 <= k
  <2>1. PICK end \in Text : end = Cat(crlf, body)
    BY CatElements
  <2>2. Len(Printed(lines)) <= k + 1
    <3>1. \A x \in Text : \A j \in Occurrences(Cat(Printed(lines), x), BlankLine) :
            Len(Printed(lines)) <= j + 1
      BY <1>3, NoBlankBefore
    <3> QED BY <1>1, <1>3, <2>1, <3>1
  <2>3. Len(Printed(lines)) = n + 2
    <3>1. Len(Cat(head, crlf)) = Len(head) + Len(crlf)
      BY CatElements
    <3> QED BY <1>1, <1>4, <1>6, <3>1
  <2>4. k \in Nat
    BY <1>7, OccurrenceTokens
  <2> QED BY <2>2, <2>3, <2>4
<1>9. FindIn(text, BlankLine) = n + 1
  <2>1. n + 1 \in Nat \ {0}
    OBVIOUS
  <2> QED BY <1>1, <1>7, <1>8, <2>1, FoundFirst
<1>10. BodyOf(text) = body
  <2>1. (n + 1) + 4 = n + 4 + 1
    OBVIOUS
  <2> QED BY <1>7, <1>9, <2>1 DEF BodyOf
<1>11. SubSeq(text, 1, n + 1) = Cat(head, cr)
  <2>1. PICK more \in Text, end \in Text, taken \in Text :
          /\ more = Cat(crlf, body) /\ end = Cat(lf, more) /\ taken = Cat(head, cr)
    <3>1. Cat(crlf, body) \in Text /\ Cat(head, cr) \in Text
      BY CatElements
    <3>2. Cat(lf, Cat(crlf, body)) \in Text
      BY <3>1, CatElements
    <3> QED BY <3>1, <3>2
  <2>2. text = Cat(taken, end)
    <3>1. Cat(Cat(crlf, crlf), body) = Cat(crlf, more)
      BY <2>1, CatsAssociate
    <3>2. Cat(Cat(cr, lf), more) = Cat(cr, end)
      BY <2>1, CatsAssociate
    <3>3. Cat(Cat(head, cr), end) = Cat(head, Cat(cr, end))
      BY CatsAssociate
    <3> QED BY <1>1, <1>5, <2>1, <3>1, <3>2, <3>3
  <2>3. Len(taken) = n + 1
    <3>1. Len(Cat(head, cr)) = Len(head) + Len(cr)
      BY CatElements
    <3> QED BY <1>1, <1>6, <2>1, <3>1
  <2>4. SubSeq(taken \o end, 1, Len(taken)) = taken
    BY ConcatParts DEF Text
  <2> QED BY <2>1, <2>2, <2>3, <2>4 DEF Cat
<1>12. Lines(text) = Append(front, Cat(last, <<CR>>))
  <2>1. PICK end \in Text : end = Cat(last, cr)
    BY CatElements
  <2>2. Cat(head, cr) = Cat(printed, end)
    BY <1>2, <2>1, CatsAssociate
  <2>3. Unbroken(front) /\ Occurrences(last, CRLF) = {}
    <3>1. PICK m \in Nat : /\ m = Len(front) /\ Len(lines) = m + 1
                           /\ lines[m + 1] = last /\ \A k \in 1..m : lines[k] = front[k]
      BY <1>3, AppendProperties
    <3>2. m + 1 \in 1..(m + 1) /\ \A k \in 1..m : k \in 1..(m + 1)
      OBVIOUS
    <3> QED BY <1>3, <3>1, <3>2 DEF Proper, Unbroken
  <2>4. Occurrences(end, CRLF) = {}
    <3>1. CR # "\n"
      BY LineBreakDiffers
    <3> QED BY <1>1, <2>1, <2>3, <3>1, CatUnbroken, CRAlone
  <2>5. Split(Cat(printed, end), CRLF) = Append(front, end)
    BY <1>2, <2>3, <2>4, PrintedSplit
  <2> QED BY <1>1, <1>9, <1>11, <2>1, <2>2, <2>5 DEF Lines
<1> QED
  BY <1>7, <1>9, <1>10, <1>12

\* A text that ends in a token has it at the end of its last part.
LEMMA LastPart ==
  ASSUME NEW s \in Text, NEW t \in Text, NEW head \in Text, NEW c \in Tokens,
         Cat(s, t) = Cat(head, <<c>>), t # <<>>
  PROVE  \E end \in Text : t = Cat(end, <<c>>) /\ head = Cat(s, end)
<1>1. PICK end \in Text, last \in Tokens : t = Append(end, last)
  BY SequenceEmptyOrAppend DEF Text
<1>2. PICK one \in Text : one = <<last>>
  BY OneToken
<1>3. t = Cat(end, one)
  BY <1>1, <1>2, AppendIsConcat DEF Cat, Text
<1>4. PICK both \in Text : both = Cat(s, end)
  BY CatElements
<1>5. Cat(both, one) = Cat(head, <<c>>)
  <2>1. Cat(Cat(s, end), one) = Cat(s, Cat(end, one))
    BY CatsAssociate
  <2> QED BY <1>3, <1>4, <2>1
<1>6. Append(both, last) = Append(head, c)
  <2>1. Append(both, last) = Cat(both, one) /\ Append(head, c) = Cat(head, <<c>>)
    BY <1>2, AppendIsConcat DEF Cat, Text
  <2> QED BY <1>5, <2>1
<1>7. both = head /\ last = c
  <2>1. Append(both, last) = Append(head, c) <=> both = head /\ last = c
    BY AppendInjective DEF Text
  <2> QED BY <1>6, <2>1
<1> QED
  BY <1>2, <1>3, <1>4, <1>7

\* Printed lines end in a line break.
LEMMA PrintedEnds ==
  ASSUME NEW lines \in Seq(Text), NEW head \in Text
  PROVE  Printed(lines) # Cat(head, <<CR>>)
<1>1. CASE lines = <<>>
  <2>1. Len(Cat(head, <<CR>>)) = Len(head) + 1 /\ Len(head) \in Nat
    BY CatElements, CRAlone
  <2>2. Len(<<>>) = 0
    OBVIOUS
  <2> QED BY <1>1, <2>1, <2>2, PrintedEmpty
<1>2. CASE lines # <<>>
  <2>1. PICK front \in Seq(Text), line \in Text : lines = Append(front, line)
    BY <1>2, SequenceEmptyOrAppend
  <2>2. PICK printed \in Text : printed = Printed(front)
    BY PrintedAppend
  <2>3. PICK cr \in Text, lf \in Text, lfT \in Tokens :
          /\ cr = <<CR>> /\ lf = <<"\n">> /\ Cat(cr, lf) = CRLF /\ lfT = "\n"
    BY CRAlone, TokensAssumption
  <2>4. PICK before \in Text : before = Cat(printed, line)
    BY CatElements
  <2>5. PICK broken \in Text : broken = Cat(before, cr)
    BY CatElements
  <2>6. Printed(lines) = Cat(broken, lf)
    <3>1. Printed(lines) = Cat(printed, Cat(line, Cat(cr, lf)))
      BY <2>1, <2>2, <2>3, PrintedAppend
    <3>2. PICK crlf \in Text : crlf = Cat(cr, lf)
      BY CatElements
    <3>3. Cat(Cat(printed, line), crlf) = Cat(printed, Cat(line, crlf))
      BY CatsAssociate
    <3>4. Cat(Cat(before, cr), lf) = Cat(before, Cat(cr, lf))
      BY CatsAssociate
    <3> QED BY <2>4, <2>5, <3>1, <3>2, <3>3, <3>4
  <2>7. ASSUME Printed(lines) = Cat(head, <<CR>>)
        PROVE  FALSE
    <3>1. PICK crT \in Tokens : crT = CR
      BY TokensAssumption, Zenon
    <3>2. Append(broken, lfT) = Cat(broken, lf) /\ Append(head, crT) = Cat(head, <<CR>>)
      BY <2>3, <3>1, AppendIsConcat DEF Cat, Text
    <3>3. Append(broken, lfT) = Append(head, crT) <=> broken = head /\ lfT = crT
      BY AppendInjective DEF Text
    <3>4. crT # lfT
      BY <2>3, <3>1, LineBreakDiffers
    <3> QED BY <2>6, <2>7, <3>2, <3>3, <3>4
  <2> QED BY <2>7
<1> QED
  BY <1>1, <1>2

\* A message that is read consists of the lines it is read as and of its body,
\* the last line less its '\r'.
LEMMA ReadPrinted ==
  ASSUME NEW text \in Text, FindIn(text, BlankLine) # 0
  PROVE  \E front \in Seq(Text), last \in Text :
           /\ Lines(text) = Append(front, Cat(last, <<CR>>))
           /\ Unbroken(Append(front, last))
           /\ text = Cat(Printed(Append(front, last)), Cat(CRLF, BodyOf(text)))
<1>1. PICK crlf \in Text, blank \in Text, cr \in Text, lf \in Text :
        /\ crlf = CRLF /\ Len(crlf) = 2
        /\ blank = BlankLine /\ Len(blank) = 4 /\ blank = Cat(crlf, crlf)
        /\ cr = <<CR>> /\ Len(cr) = 1 /\ cr[1] = CR /\ lf = <<"\n">>
        /\ crlf = Cat(cr, lf)
  BY WordsAreTexts, CRAlone DEF BlankLine, Cat
<1>2. PICK k \in Occurrences(text, blank) : k = FindIn(text, BlankLine)
  BY <1>1, FindFirst
<1>3. PICK before \in Text, body \in Text :
        /\ before = SubSeq(text, 1, k - 1) /\ Len(before) = k - 1 /\ k \in Nat
        /\ body = SubSeq(text, k + Len(blank), Len(text))
        /\ text = before \o blank \o body
  <2>1. /\ k \in Nat /\ 1 <= k
        /\ SubSeq(text, 1, k - 1) \in Text
        /\ Len(SubSeq(text, 1, k - 1)) = k - 1
        /\ SubSeq(text, k + Len(blank), Len(text)) \in Text
    BY AroundOccurrence
  <2>2. text = SubSeq(text, 1, k - 1) \o blank \o SubSeq(text, k + Len(blank), Len(text))
    BY OccurrenceParts
  <2>3. PICK before \in Text : before = SubSeq(text, 1, k - 1)
    BY <2>1
  <2>4. PICK body \in Text : body = SubSeq(text, k + Len(blank), Len(text))
    BY <2>1
  <2>5. /\ before = SubSeq(text, 1, k - 1) /\ Len(before) = k - 1 /\ k \in Nat
        /\ body = SubSeq(text, k + Len(blank), Len(text))
        /\ text = before \o blank \o body
    BY <2>1, <2>2, <2>3, <2>4
  <2> QED BY <2>5
<1>4. BodyOf(text) = body
  BY <1>1, <1>2, <1>3 DEF BodyOf
<1>5. PICK taken \in Text, more \in Text, end \in Text :
        /\ taken = Cat(before, cr) /\ more = Cat(crlf, body) /\ end = Cat(lf, more)
  <2>1. Cat(crlf, body) \in Text /\ Cat(before, cr) \in Text
    BY CatElements
  <2>2. Cat(lf, Cat(crlf, body)) \in Text
    BY <2>1, CatElements
  <2> QED BY <2>1, <2>2
<1>6. text = Cat(taken, end) /\ text = Cat(before, Cat(crlf, more))
  <2>1. text = Cat(Cat(before, blank), body)
    BY <1>3 DEF Cat
  <2>2. Cat(Cat(before, blank), body) = Cat(before, Cat(blank, body))
    BY CatsAssociate
  <2>3. Cat(Cat(crlf, crlf), body) = Cat(crlf, more)
    BY <1>5, CatsAssociate
  <2>4. Cat(Cat(cr, lf), more) = Cat(cr, end)
    BY <1>5, CatsAssociate
  <2>5. Cat(Cat(before, cr), end) = Cat(before, Cat(cr, end))
    BY CatsAssociate
  <2> QED BY <1>1, <1>5, <2>1, <2>2, <2>3, <2>4, <2>5
<1>7. SubSeq(text, 1, k) = taken
  <2>1. Len(taken) = k
    <3>1. Len(Cat(before, cr)) = Len(before) + Len(cr)
      BY CatElements
    <3>2. PICK m, l : m = Len(before) /\ l = Len(cr)
      OBVIOUS
    <3>3. m = k - 1 /\ l = 1 /\ k \in Nat
      BY <1>1, <1>3, <3>2
    <3>4. m + l = k
      BY <3>3
    <3> QED BY <1>5, <3>1, <3>2, <3>4
  <2>2. SubSeq(taken \o end, 1, Len(taken)) = taken
    BY ConcatParts DEF Text
  <2> QED BY <1>6, <2>1, <2>2 DEF Cat
<1>8. Lines(text) = Split(taken, CRLF)
  BY <1>2, <1>7 DEF Lines
<1>9. PICK pieces \in Seq(Text) : pieces = Split(taken, CRLF) /\ pieces # <<>>
  <2>1. Split(taken, CRLF) \in Seq(Text) /\ Len(Split(taken, CRLF)) \in Nat \ {0}
    BY SplitType, WordsAreTexts
  <2> QED BY <2>1, EmptySeq
<1>10. PICK front \in Seq(Text), line \in Text : pieces = Append(front, line)
  BY <1>9, SequenceEmptyOrAppend
<1>11. PICK printed \in Text : printed = Printed(front) /\ taken = Cat(printed, line)
  <2>1. Printed(front) \in Text
    BY PrintedAppend
  <2> QED BY <1>9, <1>10, <2>1, SplitPrinted
<1>12. line # <<>>
  <2>1. ASSUME line = <<>>
        PROVE  FALSE
    <3>1. Cat(printed, <<>>) = printed
      BY ConcatEmptySeq DEF Cat, Text
    <3>2. printed # Cat(before, <<CR>>)
      BY <1>11, PrintedEnds
    <3> QED BY <1>1, <1>5, <1>11, <2>1, <3>1, <3>2
  <2> QED BY <2>1
<1>13. PICK last \in Text : line = Cat(last, cr) /\ before = Cat(printed, last)
  <2>1. PICK c \in Tokens : c = CR
    BY TokensAssumption, Zenon
  <2>2. Cat(printed, line) = Cat(before, <<c>>)
    BY <1>1, <1>5, <1>11, <2>1
  <2>3. \E rest \in Text : line = Cat(rest, <<c>>) /\ before = Cat(printed, rest)
    BY <1>12, <2>2, LastPart
  <2>4. PICK rest \in Text : line = Cat(rest, <<c>>) /\ before = Cat(printed, rest)
    BY <2>3
  <2>5. <<c>> = cr
    BY <1>1, <2>1
  <2> QED BY <2>4, <2>5
<1>14. PICK all \in Seq(Text), n \in Nat :
         /\ all = Append(front, last) /\ n = Len(front) /\ Len(all) = n + 1
         /\ all[n + 1] = last /\ \A j \in 1..n : all[j] = front[j]
  <2>1. PICK all \in Seq(Text) : all = Append(front, last)
    BY AppendProperties
  <2>2. /\ Len(all) = Len(front) + 1 /\ all[Len(front) + 1] = last
        /\ \A j \in 1..Len(front) : all[j] = front[j]
    BY <2>1, AppendProperties
  <2>3. Len(front) \in Nat
    OBVIOUS
  <2> QED BY <2>1, <2>2, <2>3
<1>15. Unbroken(all)
  <2>1. \A j \in 1..Len(pieces) : Occurrences(pieces[j], CRLF) = {}
    BY <1>9, SplitFree, WordsAreTexts
  <2>2. /\ Len(pieces) = n + 1 /\ pieces[n + 1] = line
        /\ \A j \in 1..n : pieces[j] = front[j]
    BY <1>10, <1>14, AppendProperties
  <2>3. n + 1 \in 1..(n + 1) /\ \A j \in 1..n : j \in 1..(n + 1)
    OBVIOUS
  <2>4. Occurrences(last, CRLF) = {}
    <3>1. Occurrences(Cat(last, cr), CRLF) = {}
      BY <1>13, <2>1, <2>2, <2>3
    <3> QED BY <3>1, NoneInside, WordsAreTexts
  <2>5. \A j \in 1..(n + 1) : j \in 1..n \/ j = n + 1
    OBVIOUS
  <2> QED BY <1>14, <2>1, <2>2, <2>3, <2>4, <2>5 DEF Unbroken
<1>16. text = Cat(Printed(all), more)
  <2>1. Printed(all) = Cat(printed, Cat(last, crlf))
    BY <1>1, <1>11, <1>14, PrintedAppend
  <2>2. Cat(Cat(printed, last), crlf) = Cat(printed, Cat(last, crlf))
    BY CatsAssociate
  <2>3. Cat(Cat(before, crlf), more) = Cat(before, Cat(crlf, more))
    BY CatsAssociate
  <2> QED BY <1>6, <1>13, <2>1, <2>2, <2>3
<1>17. /\ Lines(text) = Append(front, Cat(last, <<CR>>))
       /\ Unbroken(Append(front, last))
       /\ text = Cat(Printed(Append(front, last)), Cat(CRLF, BodyOf(text)))
  BY <1>1, <1>4, <1>5, <1>8, <1>9, <1>10, <1>13, <1>14, <1>15, <1>16
<1> QED
  BY <1>17

-----------------------------------------------------------------------------
\* A message is read as what it was written from

\* A header as it is written, less the line break.
LineOf(h) == Cat(Cat(h.key, ColonSpace), h.value)

HeaderLines(headers) == [k \in DOMAIN headers |-> LineOf(headers[k])]

LEMMA LineType ==
  ASSUME NEW h \in Fields
  PROVE  /\ h.key \in Text /\ h.value \in Text
         /\ LineOf(h) \in Text
         /\ LineOf(h) = Cat(h.key, Cat(ColonSpace, h.value))
         /\ LineOf(h) # <<>>
<1>1. PICK key \in Text, value \in Text, colon \in Text :
        key = h.key /\ value = h.value /\ colon = ColonSpace /\ Len(colon) = 2
  BY WordsAreTexts DEF Fields
<1>2. PICK front \in Text : front = Cat(key, colon) /\ Len(front) = Len(key) + 2 /\ Len(key) \in Nat
  <2>1. /\ Cat(key, colon) \in Text /\ Len(Cat(key, colon)) = Len(key) + Len(colon)
        /\ Len(key) \in Nat
    BY CatElements
  <2> QED BY <1>1, <2>1
<1>3. PICK line \in Text : line = Cat(front, value) /\ Len(line) = Len(front) + Len(value) /\ Len(value) \in Nat
  BY CatElements
<1>4. line # <<>>
  <2>1. Len(line) # 0
    BY <1>2, <1>3
  <2> QED BY <2>1, EmptySeq DEF Text
<1>5. line = Cat(key, Cat(colon, value))
  BY <1>2, <1>3, CatsAssociate
<1> QED
  BY <1>1, <1>2, <1>3, <1>4, <1>5 DEF LineOf

LEMMA HeadersPrinted ==
  ASSUME NEW headers \in Seq(Fields)
  PROVE  /\ HeaderLines(headers) \in Seq(Text)
         /\ Len(headers) \in Nat /\ Len(HeaderLines(headers)) = Len(headers)
         /\ \A k \in 1..Len(headers) : HeaderLines(headers)[k] = LineOf(headers[k])
         /\ HeaderText(headers) = Printed(HeaderLines(headers))
<1>1. DOMAIN headers = 1..Len(headers) /\ Len(headers) \in Nat
  OBVIOUS
<1>2. \A k \in 1..Len(headers) : LineOf(headers[k]) \in Text
  BY LineType, ElementOfSeq
<1>3. PICK lines : lines = HeaderLines(headers)
  OBVIOUS
<1>4. lines = [k \in 1..Len(headers) |-> LineOf(headers[k])]
  BY <1>1, <1>3 DEF HeaderLines
<1>5. lines \in Seq(Text) /\ Len(lines) = Len(headers) /\ DOMAIN lines = DOMAIN headers
  BY <1>1, <1>2, <1>4
<1>6. \A k \in 1..Len(headers) : lines[k] = LineOf(headers[k])
  BY <1>4
<1>7. \A h : h.key \o ColonSpace \o h.value \o CRLF = Cat(LineOf(h), CRLF)
  BY Zenon DEF LineOf, Cat
<1>8. [k \in DOMAIN headers |-> headers[k].key \o ColonSpace \o headers[k].value \o CRLF]
      = [k \in DOMAIN headers |-> Cat(LineOf(headers[k]), CRLF)]
  BY <1>7, Zenon
<1>9. Ended(lines) = [k \in DOMAIN headers |-> Cat(LineOf(headers[k]), CRLF)]
  BY <1>1, <1>5, <1>6 DEF Ended
<1>10. HeaderText(headers) = Printed(lines)
  BY <1>8, <1>9, Zenon DEF HeaderText, Printed
<1> QED
  BY <1>1, <1>3, <1>5, <1>6, <1>10

\* A header is read back from its line, if its key can be told from its value.
LEMMA LineRead ==
  ASSUME NEW h \in Fields, Occurrences(h.key, ColonSpace) = {}
  PROVE  FindIn(LineOf(h), ColonSpace) # 0 /\ HeaderOf(LineOf(h)) = h
<1>1. PICK key \in Text, value \in Text, sep \in Text :
        /\ key = h.key /\ value = h.value /\ sep = ColonSpace /\ Len(sep) = 2
        /\ Occurrences(key, sep) = {}
  BY WordsAreTexts DEF Fields
<1>2. PICK line \in Text : line = LineOf(h) /\ line = Cat(key, Cat(sep, value))
  BY <1>1, LineType
<1>3. PICK n \in Nat : n = Len(key)
  BY DEF Text
<1>4. FindIn(line, sep) = n + 1
  BY <1>1, <1>2, <1>3, FirstSeparator, SimpleSeparators
<1>5. SubSeq(line, 1, n) = key /\ SubSeq(line, n + 3, Len(line)) = value
  <2>1. PICK others \in Text : others = Cat(sep, value)
    BY CatElements
  <2>2. SubSeq(key \o others, 1, Len(key)) = key
    BY ConcatParts DEF Text
  <2>3. PICK front \in Text : front = Cat(key, sep) /\ Len(front) = n + 2
    <3>1. Cat(key, sep) \in Text /\ Len(Cat(key, sep)) = Len(key) + Len(sep)
      BY CatElements
    <3> QED BY <1>1, <1>3, <3>1
  <2>4. line = front \o value
    <3>1. Cat(Cat(key, sep), value) = Cat(key, Cat(sep, value))
      BY CatsAssociate
    <3> QED BY <1>2, <2>3, <3>1, Zenon DEF Cat
  <2>5. SubSeq(front \o value, Len(front) + 1, Len(front \o value)) = value
    BY ConcatParts DEF Text
  <2>6. Len(front) + 1 = n + 3
    BY <2>3
  <2> QED BY <1>2, <1>3, <2>1, <2>2, <2>4, <2>5, <2>6 DEF Cat
<1>6. HeaderOf(line) = Header(key, value)
  <2>1. (n + 1) - 1 = n /\ (n + 1) + 2 = n + 3
    OBVIOUS
  <2> QED BY <1>1, <1>4, <1>5, <2>1, Zenon DEF HeaderOf
<1>7. Header(key, value) = h
  BY <1>1 DEF Header, Fields
<1>8. n + 1 # 0
  OBVIOUS
<1> QED
  BY <1>1, <1>2, <1>4, <1>6, <1>7, <1>8

\* No header's key can be taken for longer than it is, and no line for two.
Clean(headers) ==
  \A k \in 1..Len(headers) :
    /\ Occurrences(headers[k].key, ColonSpace) = {}
    /\ Occurrences(LineOf(headers[k]), CRLF) = {}

Message(first, headers, body) == Cat(Cat(first, CRLF), Cat(HeaderText(headers), Cat(CRLF, body)))

\* A line with a '\r' at its end is that of the header with one at its end.
LEMMA LineMarked ==
  ASSUME NEW h \in Fields
  PROVE  /\ Header(h.key, Cat(h.value, <<CR>>)) \in Fields
         /\ Header(h.key, Cat(h.value, <<CR>>)).key = h.key
         /\ LineOf(Header(h.key, Cat(h.value, <<CR>>))) = Cat(LineOf(h), <<CR>>)
<1>1. PICK key \in Text, value \in Text, colon \in Text, cr \in Text :
        key = h.key /\ value = h.value /\ colon = ColonSpace /\ cr = <<CR>>
  BY WordsAreTexts, CRAlone DEF Fields
<1>2. PICK longer \in Text : longer = Cat(value, cr)
  BY CatElements
<1>3. PICK marked \in Fields : marked = Header(key, longer) /\ marked.key = key /\ marked.value = longer
  <2>1. /\ Header(key, longer) \in Fields
        /\ Header(key, longer).key = key /\ Header(key, longer).value = longer
    BY DEF Header, Fields
  <2> QED BY <2>1
<1>4. Cat(Cat(Cat(key, colon), value), cr) = Cat(Cat(key, colon), Cat(value, cr))
  <2>1. Cat(key, colon) \in Text
    BY CatElements
  <2> QED BY <2>1, CatsAssociate
<1> QED
  BY <1>1, <1>2, <1>3, <1>4 DEF LineOf

LEMMA TailIsRest ==
  ASSUME NEW S, NEW s \in Seq(S), s # <<>>, NEW x \in ToSet(Tail(s))
  PROVE  \E j \in 1..(Len(s) - 1) : x = s[j + 1]
<1>1. Tail(s) \in Seq(S) /\ Len(Tail(s)) = Len(s) - 1 /\ \A j \in 1..Len(Tail(s)) : Tail(s)[j] = s[j + 1]
  OBVIOUS
<1>2. PICK t \in Seq(S) : t = Tail(s)
  BY <1>1
<1>3. PICK j \in 1..Len(t) : x = t[j]
  <2>1. x \in {t[j] : j \in DOMAIN t}
    BY <1>2 DEF ToSet
  <2>2. DOMAIN t = 1..Len(t)
    OBVIOUS
  <2> QED BY <2>1, <2>2
<1> QED
  BY <1>1, <1>2, <1>3

LEMMA NoHeaders ==
  /\ <<>> \in Seq(Fields) /\ HeaderText(<<>>) = <<>>
  /\ \A x : Tail(<<x>>) = <<>> /\ ToSet(Tail(<<x>>)) = {}
<1>1. PICK none \in Seq(Fields) : none = <<>> /\ Len(none) = 0
  <2>1. <<>> \in Seq(Fields) /\ Len(<<>>) = 0
    OBVIOUS
  <2> QED BY <2>1
<1>2. PICK lines \in Seq(Text) : lines = HeaderLines(none) /\ Len(lines) = 0 /\ HeaderText(none) = Printed(lines)
  BY <1>1, HeadersPrinted
<1>3. lines = <<>>
  BY <1>2, EmptySeq
<1>4. \A x : Tail(<<x>>) = <<>> /\ ToSet(Tail(<<x>>)) = {}
  <2>1. \A x : Tail(<<x>>) = <<>>
    OBVIOUS
  <2>2. ToSet(<<>>) = {}
    BY DEF ToSet
  <2> QED BY <2>1, <2>2
<1> QED
  BY <1>1, <1>2, <1>3, <1>4, PrintedEmpty

\* Without headers, the '\r' stays at the end of the first line.
LEMMA BareMessageRead ==
  ASSUME NEW first \in Text, first # <<>>, Occurrences(first, CRLF) = {},
         NEW body \in Text, NEW text, text = Message(first, <<>>, body)
  PROVE  /\ text \in Text
         /\ FindIn(text, BlankLine) # 0
         /\ Lines(text) = <<Cat(first, <<CR>>)>>
         /\ HeadersOf(text) = <<>> /\ HeadersAreValid(text)
         /\ BodyOf(text) = body
<1>1. PICK none \in Seq(Text) : none = <<>> /\ Len(none) = 0
  <2>1. <<>> \in Seq(Text) /\ Len(<<>>) = 0
    OBVIOUS
  <2> QED BY <2>1
<1>2. PICK all \in Seq(Text) : all = Append(none, first) /\ Len(all) = 1 /\ all[1] = first
  <2>1. PICK all : all = Append(none, first)
    OBVIOUS
  <2>2. all \in Seq(Text) /\ Len(all) = Len(none) + 1 /\ all[Len(none) + 1] = first
    BY <2>1, AppendProperties
  <2>3. Len(none) + 1 = 1
    BY <1>1
  <2> QED BY <2>1, <2>2, <2>3
<1>3. Proper(all)
  BY <1>2 DEF Proper, Unbroken
<1>4. text = Cat(Printed(all), Cat(CRLF, body))
  <2>1. PICK crlf \in Text, more \in Text, line \in Text :
          crlf = CRLF /\ more = Cat(crlf, body) /\ line = Cat(first, crlf)
    BY WordsAreTexts, CatElements
  <2>2. Printed(all) = Cat(<<>>, line)
    <3>1. Printed(Append(none, first)) = Cat(Printed(none), Cat(first, CRLF))
      BY PrintedAppend
    <3>2. Printed(none) = <<>>
      BY <1>1, PrintedEmpty
    <3> QED BY <1>2, <2>1, <3>1, <3>2, Zenon
  <2>3. Cat(<<>>, line) = line /\ Cat(<<>>, more) = more
    <3>1. \A t \in Text : <<>> \o t = t
      BY ConcatEmptySeq DEF Text
    <3> QED BY <3>1, Zenon DEF Cat
  <2> QED BY <2>1, <2>2, <2>3, NoHeaders DEF Message
<1>5. /\ text \in Text /\ FindIn(text, BlankLine) # 0
      /\ Lines(text) = Append(none, Cat(first, <<CR>>)) /\ BodyOf(text) = body
  BY <1>2, <1>3, <1>4, PrintedRead
<1>6. PICK marked \in Text : marked = Cat(first, <<CR>>)
  BY CRAlone, CatElements
<1>7. Lines(text) = <<marked>> /\ Len(Lines(text)) = 1
  BY <1>1, <1>5, <1>6
<1>8. HeadersOf(text) = <<>>
  <2>1. HeadersOf(text) \in Seq(Fields) /\ Len(HeadersOf(text)) = Len(Lines(text)) - 1
    BY <1>5, HeadersType
  <2>2. Len(HeadersOf(text)) = 0
    BY <1>7, <2>1
  <2> QED BY <2>1, <2>2, EmptySeq
<1>9. HeadersAreValid(text)
  BY <1>7, NoHeaders DEF HeadersAreValid
<1> QED
  BY <1>5, <1>6, <1>7, <1>8, <1>9

\* The lines of a message with headers.
LEMMA MessageLines ==
  ASSUME NEW first \in Text, first # <<>>, Occurrences(first, CRLF) = {},
         NEW headers \in Seq(Fields), headers # <<>>, Clean(headers),
         NEW body \in Text, NEW text, text = Message(first, headers, body)
  PROVE  /\ text \in Text
         /\ FindIn(text, BlankLine) # 0
         /\ BodyOf(text) = body
         /\ Len(Lines(text)) = Len(headers) + 1
         /\ Lines(text)[1] = first
         /\ \A k \in 1..Len(headers) :
              Lines(text)[k + 1] = IF k = Len(headers)
                                   THEN Cat(LineOf(headers[k]), <<CR>>)
                                   ELSE LineOf(headers[k])
<1>1. PICK n \in Nat \ {0} : n = Len(headers)
  <2>1. Len(headers) \in Nat /\ Len(headers) # 0
    BY EmptySeq
  <2> QED BY <2>1
<1>2. PICK lines \in Seq(Text) :
        /\ lines = HeaderLines(headers) /\ Len(lines) = n
        /\ \A k \in 1..n : lines[k] = LineOf(headers[k])
        /\ HeaderText(headers) = Printed(lines)
  BY <1>1, HeadersPrinted
<1>3. PICK all \in Seq(Text) :
        /\ all = <<first>> \o lines /\ Len(all) = n + 1
        /\ all[1] = first /\ \A k \in 1..n : all[k + 1] = lines[k]
  <2>1. PICK all : all = <<first>> \o lines
    OBVIOUS
  <2>2. /\ all \in Seq(Text) /\ Len(all) = Len(lines) + 1
        /\ all[1] = first /\ \A k \in 1..Len(lines) : all[k + 1] = lines[k]
    BY <2>1, ConsElements
  <2> QED BY <1>2, <2>1, <2>2
<1>4. Proper(all)
  <2>1. \A k \in 1..n : lines[k] # <<>> /\ Occurrences(lines[k], CRLF) = {}
    <3>1. \A k \in 1..n : headers[k] \in Fields
      BY <1>1, ElementOfSeq
    <3> QED BY <1>1, <1>2, <3>1, LineType DEF Clean
  <2>2. ASSUME NEW k \in 1..(n + 1)
        PROVE  all[k] # <<>> /\ Occurrences(all[k], CRLF) = {}
    <3>1. CASE k = 1
      BY <1>3, <3>1
    <3>2. CASE k # 1
      <4>1. PICK j \in 1..n : k = j + 1
        <5>1. k - 1 \in 1..n /\ k = (k - 1) + 1
          BY <3>2
        <5> QED BY <5>1
      <4>2. all[k] = lines[j]
        BY <1>3, <4>1
      <4> QED BY <2>1, <4>2
    <3> QED BY <3>1, <3>2
  <2> QED BY <1>3, <2>2 DEF Proper, Unbroken
<1>5. PICK front \in Seq(Text), last \in Text : all = Append(front, last)
  <2>1. all # <<>>
    <3>1. Len(all) # 0
      BY <1>3
    <3> QED BY <3>1, EmptySeq
  <2> QED BY <2>1, SequenceEmptyOrAppend
<1>6. Len(front) = n /\ last = all[n + 1] /\ \A k \in 1..n : front[k] = all[k]
  <2>1. /\ Len(all) = Len(front) + 1 /\ Len(front) \in Nat
        /\ all[Len(front) + 1] = last
        /\ \A k \in 1..Len(front) : all[k] = front[k]
    BY <1>5, AppendProperties
  <2>2. Len(front) = n
    BY <1>3, <2>1
  <2> QED BY <2>1, <2>2
<1>7. text = Cat(Printed(all), Cat(CRLF, body))
  <2>1. PICK crlf \in Text, more \in Text, line \in Text, middle \in Text :
          crlf = CRLF /\ more = Cat(crlf, body) /\ line = Cat(first, crlf) /\ middle = Printed(lines)
    BY WordsAreTexts, CatElements, PrintedAppend
  <2>2. Printed(all) = Cat(line, middle)
    BY <1>3, <2>1, PrintedCons
  <2>3. Cat(Cat(line, middle), more) = Cat(line, Cat(middle, more))
    BY CatsAssociate
  <2> QED BY <1>2, <2>1, <2>2, <2>3 DEF Message
<1>8. /\ text \in Text /\ FindIn(text, BlankLine) # 0
      /\ Lines(text) = Append(front, Cat(last, <<CR>>)) /\ BodyOf(text) = body
  BY <1>4, <1>5, <1>7, PrintedRead
<1>9. PICK marked \in Text : marked = Cat(last, <<CR>>)
  BY CRAlone, CatElements
<1>10. PICK read \in Seq(Text) :
         /\ read = Lines(text) /\ Len(read) = n + 1
         /\ read[n + 1] = marked /\ \A k \in 1..n : read[k] = front[k]
  <2>1. PICK read : read = Append(front, marked)
    OBVIOUS
  <2>2. /\ read \in Seq(Text) /\ Len(read) = Len(front) + 1
        /\ read[Len(front) + 1] = marked /\ \A k \in 1..Len(front) : read[k] = front[k]
    BY <2>1, AppendProperties
  <2> QED BY <1>6, <1>8, <1>9, <2>1, <2>2
<1>11. read[1] = first
  <2>1. 1 \in 1..n
    BY <1>1
  <2> QED BY <1>3, <1>6, <1>10, <2>1
<1>12. ASSUME NEW k \in 1..n
       PROVE  read[k + 1] = IF k = n THEN Cat(LineOf(headers[k]), <<CR>>) ELSE LineOf(headers[k])
  <2>1. CASE k = n
    BY <1>2, <1>3, <1>6, <1>9, <1>10, <2>1
  <2>2. CASE k # n
    <3>1. k + 1 \in 1..n
      BY <2>2
    <3>2. read[k + 1] = all[k + 1]
      BY <1>6, <1>10, <3>1
    <3> QED BY <1>2, <1>3, <2>2, <3>2
  <2> QED BY <2>1, <2>2
<1> QED
  BY <1>1, <1>8, <1>10, <1>11, <1>12

\* The headers of a message that is printed, one '\r' apart.
LEMMA MessageHeaders ==
  ASSUME NEW first \in Text, first # <<>>, Occurrences(first, CRLF) = {},
         NEW headers \in Seq(Fields), headers # <<>>, Clean(headers),
         NEW body \in Text, NEW text, text = Message(first, headers, body)
  PROVE  /\ HeadersOf(text) \in Seq(Fields) /\ Len(HeadersOf(text)) = Len(headers)
         /\ \A k \in 1..Len(headers) :
              HeadersOf(text)[k] = IF k = Len(headers)
                                   THEN Header(headers[k].key, Cat(headers[k].value, <<CR>>))
                                   ELSE headers[k]
         /\ HeadersAreValid(text)
<1>1. PICK n \in Nat \ {0} : n = Len(headers)
  <2>1. Len(headers) \in Nat /\ Len(headers) # 0
    BY EmptySeq
  <2> QED BY <2>1
<1> DEFINE Read(k) == IF k = n THEN Header(headers[k].key, Cat(headers[k].value, <<CR>>)) ELSE headers[k]
<1>2. /\ text \in Text /\ Len(Lines(text)) = n + 1
      /\ \A k \in 1..n : Lines(text)[k + 1] = IF k = n
                                              THEN Cat(LineOf(headers[k]), <<CR>>)
                                              ELSE LineOf(headers[k])
  BY <1>1, MessageLines
<1>3. ASSUME NEW k \in 1..n
      PROVE  /\ Read(k) \in Fields /\ Occurrences(Read(k).key, ColonSpace) = {}
             /\ Lines(text)[k + 1] = LineOf(Read(k))
  <2>1. headers[k] \in Fields /\ Occurrences(headers[k].key, ColonSpace) = {}
    BY <1>1, ElementOfSeq DEF Clean
  <2>2. CASE k = n
    <3>1. Read(k) = Header(headers[k].key, Cat(headers[k].value, <<CR>>))
      BY <2>2
    <3> HIDE DEF Read
    <3>2. /\ Read(k) \in Fields /\ Read(k).key = headers[k].key
          /\ LineOf(Read(k)) = Cat(LineOf(headers[k]), <<CR>>)
      BY <2>1, <3>1, LineMarked
    <3> QED BY <1>2, <2>1, <2>2, <3>2
  <2>3. CASE k # n
    BY <1>2, <2>1, <2>3
  <2> QED BY <2>2, <2>3
<1> HIDE DEF Read
<1>4. \A k \in 1..n : FindIn(Lines(text)[k + 1], ColonSpace) # 0 /\ HeaderOf(Lines(text)[k + 1]) = Read(k)
  BY <1>3, LineRead
<1>5. /\ HeadersOf(text) \in Seq(Fields) /\ Len(HeadersOf(text)) = n
      /\ \A k \in 1..n : HeadersOf(text)[k] = Read(k)
  <2>1. /\ HeadersOf(text) \in Seq(Fields) /\ Len(HeadersOf(text)) = Len(Lines(text)) - 1
        /\ \A k \in 1..Len(HeadersOf(text)) : HeadersOf(text)[k] = HeaderOf(Lines(text)[k + 1])
    BY <1>2, HeadersType
  <2>2. Len(HeadersOf(text)) = n
    BY <1>2, <2>1
  <2> QED BY <1>4, <2>1, <2>2
<1>6. HeadersAreValid(text)
  <2>1. PICK lines \in Seq(Text) : lines = Lines(text) /\ Len(lines) = n + 1 /\ lines # <<>>
    <3>1. Lines(text) \in Seq(Text)
      BY <1>2, LinesType
    <3>2. n + 1 # 0
      OBVIOUS
    <3> QED BY <1>2, <3>1, <3>2, EmptySeq
  <2>2. ASSUME NEW line \in ToSet(Tail(lines))
        PROVE  FindIn(line, ColonSpace) # 0
    <3>1. PICK j \in 1..(Len(lines) - 1) : line = lines[j + 1]
      BY <2>1, <2>2, TailIsRest
    <3>2. j \in 1..n
      BY <2>1
    <3> QED BY <1>4, <2>1, <3>1, <3>2
  <2> QED BY <2>1, <2>2 DEF HeadersAreValid
<1> QED
  BY <1>1, <1>5, <1>6 DEF Read

\* The first line of a request.
ThreeWords(m, u, v) == Cat(m, Cat(Space, Cat(u, Cat(Space, v))))

LEMMA NoSeparator ==
  ASSUME NEW s \in Text, NEW sep \in Text, sep # <<>>, Occurrences(s, sep) = {}
  PROVE  Split(s, sep) = <<s>>
<1>1. FindIn(s, sep) = 0
  BY FindFirst
<1> QED
  BY <1>1, SplitUnfold

LEMMA WordsSplit ==
  ASSUME NEW m \in Text, NEW u \in Text, NEW v \in Text,
         Occurrences(m, Space) = {}, Occurrences(u, Space) = {}, Occurrences(v, Space) = {}
  PROVE  /\ ThreeWords(m, u, v) \in Text
         /\ Len(Split(ThreeWords(m, u, v), Space)) = 3
         /\ Split(ThreeWords(m, u, v), Space)[1] = m
         /\ Split(ThreeWords(m, u, v), Space)[2] = u
         /\ Split(ThreeWords(m, u, v), Space)[3] = v
<1>1. PICK sp \in Text : sp = Space /\ sp # <<>> /\ Simple(sp)
  BY WordsAreTexts, SimpleSeparators
<1>2. PICK uv \in Text : uv = Cat(u, Cat(sp, v))
  <2>1. Cat(sp, v) \in Text
    BY CatElements
  <2> QED BY <2>1, CatElements
<1>3. PICK all \in Text : all = Cat(m, Cat(sp, uv))
  <2>1. Cat(sp, uv) \in Text
    BY CatElements
  <2> QED BY <2>1, CatElements
<1>4. Split(m, sp) = <<m>> /\ Split(u, sp) = <<u>> /\ Split(v, sp) = <<v>>
  BY <1>1, NoSeparator
<1>5. PICK one \in Seq(Text) : one = <<v>> /\ Len(one) = 1 /\ one[1] = v
  <2>1. <<v>> \in Seq(Text) /\ Len(<<v>>) = 1 /\ <<v>>[1] = v
    OBVIOUS
  <2> QED BY <2>1
<1>6. PICK two : two = <<u>> \o one
  OBVIOUS
<1>7. two \in Seq(Text) /\ Len(two) = 2 /\ two[1] = u /\ two[2] = v
  <2>1. /\ two \in Seq(Text) /\ Len(two) = Len(one) + 1 /\ two[1] = u
        /\ \A j \in 1..Len(one) : two[j + 1] = one[j]
    BY <1>6, ConsElements
  <2>2. 1 \in 1..Len(one) /\ 1 + 1 = 2
    BY <1>5
  <2> QED BY <1>5, <2>1, <2>2
<1>8. PICK three : three = <<m>> \o two
  OBVIOUS
<1>9. Len(three) = 3 /\ three[1] = m /\ three[2] = u /\ three[3] = v
  <2>1. /\ Len(three) = Len(two) + 1 /\ three[1] = m
        /\ \A j \in 1..Len(two) : three[j + 1] = two[j]
    BY <1>7, <1>8, ConsElements
  <2>2. 1 \in 1..Len(two) /\ 2 \in 1..Len(two) /\ 1 + 1 = 2 /\ 2 + 1 = 3
    BY <1>7
  <2> QED BY <1>7, <2>1, <2>2
<1>10. three = Split(all, sp)
  <2>1. Split(Cat(u, Cat(sp, v)), sp) = Split(u, sp) \o Split(v, sp)
    BY <1>1, SplitCat
  <2>2. Split(uv, sp) = two
    BY <1>2, <1>4, <1>5, <1>6, <2>1, Zenon
  <2>3. Split(Cat(m, Cat(sp, uv)), sp) = Split(m, sp) \o Split(uv, sp)
    BY <1>1, SplitCat
  <2> QED BY <1>3, <1>4, <1>8, <2>2, <2>3, Zenon
<1> QED
  BY <1>1, <1>2, <1>3, <1>9, <1>10, Zenon DEF ThreeWords

\* A word in a line has no separator that the line has not.
LEMMA WordsInside ==
  ASSUME NEW m \in Text, NEW u \in Text, NEW v \in Text, NEW sep \in Text,
         Occurrences(ThreeWords(m, u, v), sep) = {}
  PROVE  Occurrences(m, sep) = {} /\ Occurrences(u, sep) = {} /\ Occurrences(v, sep) = {}
<1>1. PICK sp \in Text, spv \in Text : sp = Space /\ spv = Cat(sp, v)
  BY WordsAreTexts, CatElements
<1>2. PICK uspv \in Text : uspv = Cat(u, spv)
  BY CatElements
<1>3. PICK others \in Text : others = Cat(sp, uspv)
  BY CatElements
<1>4. Occurrences(Cat(m, others), sep) = {}
  BY <1>1, <1>2, <1>3 DEF ThreeWords
<1>5. Occurrences(m, sep) = {} /\ Occurrences(others, sep) = {}
  BY <1>4, NoneInside
<1>6. Occurrences(uspv, sep) = {}
  BY <1>3, <1>5, NoneInside
<1>7. Occurrences(u, sep) = {} /\ Occurrences(spv, sep) = {}
  BY <1>2, <1>6, NoneInside
<1>8. Occurrences(v, sep) = {}
  BY <1>1, <1>7, NoneInside
<1> QED
  BY <1>5, <1>7, <1>8

\* A space next to a text makes no line break with it.
LEMMA WordsUnbroken ==
  ASSUME NEW m \in Text, NEW u \in Text, NEW v \in Text,
         Occurrences(m, CRLF) = {}, Occurrences(u, CRLF) = {}, Occurrences(v, CRLF) = {}
  PROVE  Occurrences(ThreeWords(m, u, v), CRLF) = {} /\ ThreeWords(m, u, v) # <<>>
<1>1. PICK sp \in Text : sp = Space /\ Len(sp) = 1 /\ sp[1] # CR /\ sp[1] # "\n"
  BY WordsAreTexts DEF Space, CR
<1>2. Occurrences(sp, CRLF) = {}
  <2>1. PICK crlf \in Text : crlf = CRLF /\ Len(crlf) = 2
    BY WordsAreTexts
  <2>2. \A k : k \in Occurrences(sp, crlf) => k \in Nat /\ 1 <= k /\ k + Len(crlf) <= Len(sp) + 1
    BY OccurrenceTokens
  <2> QED BY <1>1, <2>1, <2>2
<1>3. PICK spv \in Text : spv = Cat(sp, v) /\ Occurrences(spv, CRLF) = {} /\ spv[1] = sp[1] /\ Len(spv) # 0
  <2>1. Cat(sp, v) \in Text /\ Len(Cat(sp, v)) = Len(sp) + Len(v) /\ Len(v) \in Nat
        /\ \A k \in 1..Len(sp) : Cat(sp, v)[k] = sp[k]
    BY CatElements
  <2>2. Occurrences(Cat(sp, v), CRLF) = {}
    BY <1>1, <1>2, CatUnbroken
  <2>3. PICK spv \in Text : spv = Cat(sp, v)
    BY <2>1
  <2>4. Len(spv) # 0 /\ spv[1] = sp[1]
    BY <1>1, <2>1, <2>3
  <2> QED BY <2>2, <2>3, <2>4
<1>4. PICK uspv \in Text : uspv = Cat(u, spv) /\ Occurrences(uspv, CRLF) = {}
  <2>1. spv[1] # "\n"
    BY <1>1, <1>3
  <2>2. Occurrences(Cat(u, spv), CRLF) = {}
    BY <1>3, <2>1, CatUnbroken
  <2>3. Cat(u, spv) \in Text
    BY CatElements
  <2> QED BY <2>2, <2>3
<1>5. PICK others \in Text : others = Cat(sp, uspv) /\ Occurrences(others, CRLF) = {} /\ others[1] = sp[1] /\ Len(others) # 0
  <2>1. Cat(sp, uspv) \in Text /\ Len(Cat(sp, uspv)) = Len(sp) + Len(uspv) /\ Len(uspv) \in Nat
        /\ \A k \in 1..Len(sp) : Cat(sp, uspv)[k] = sp[k]
    BY CatElements
  <2>2. Occurrences(Cat(sp, uspv), CRLF) = {}
    BY <1>1, <1>2, <1>4, CatUnbroken
  <2>3. PICK o \in Text : o = Cat(sp, uspv)
    BY <2>1
  <2>4. Len(o) # 0 /\ o[1] = sp[1]
    BY <1>1, <2>1, <2>3
  <2> QED BY <2>2, <2>3, <2>4
<1>6. Occurrences(Cat(m, others), CRLF) = {}
  BY <1>1, <1>5, CatUnbroken
<1>7. Cat(m, others) # <<>>
  <2>1. PICK all \in Text : all = Cat(m, others) /\ Len(all) = Len(m) + Len(others) /\ Len(m) \in Nat /\ Len(others) \in Nat
    BY CatElements
  <2>2. Len(all) # 0
    BY <1>5, <2>1
  <2> QED BY <2>1, <2>2, EmptySeq
<1> QED
  BY <1>1, <1>3, <1>4, <1>5, <1>6, <1>7 DEF ThreeWords

Requests == [method : Text, uri : Text, version : Text, headers : Seq(Fields), body : Text, raw : Text]

LEMMA HeaderTextType ==
  ASSUME NEW headers \in Seq(Fields)
  PROVE  HeaderText(headers) \in Text
<1>1. PICK lines \in Seq(Text) : HeaderText(headers) = Printed(lines)
  BY HeadersPrinted
<1>2. <<>> \in Text
  BY EmptySeq DEF Text
<1> QED
  BY <1>1, <1>2, PrintedAppend

\* The same request, as ToString writes it.
LEMMA RequestPrinted ==
  ASSUME NEW r \in Requests
  PROVE  RequestText(r) = Message(ThreeWords(r.method, r.uri, r.version), r.headers, Cat(r.body, CRLF))
<1>1. PICK m \in Text, u \in Text, v \in Text, h \in Text, b \in Text, sp \in Text, nl \in Text :
        /\ m = r.method /\ u = r.uri /\ v = r.version /\ b = r.body
        /\ h = HeaderText(r.headers) /\ sp = Space /\ nl = CRLF
  <2>1. r.headers \in Seq(Fields)
    BY DEF Requests
  <2>2. HeaderText(r.headers) \in Text
    BY <2>1, HeaderTextType
  <2>3. r.method \in Text /\ r.uri \in Text /\ r.version \in Text /\ r.body \in Text
    BY DEF Requests
  <2> QED BY <2>2, <2>3, WordsAreTexts
<1>2. PICK m1 \in Text : m1 = Cat(m, sp)
  BY CatElements
<1>3. PICK m2 \in Text : m2 = Cat(m1, u)
  BY CatElements
<1>4. PICK m3 \in Text : m3 = Cat(m2, sp)
  BY CatElements
<1>5. PICK line \in Text : line = Cat(m3, v)
  BY CatElements
<1>6. PICK ended \in Text : ended = Cat(line, nl)
  BY CatElements
<1>7. PICK head \in Text : head = Cat(ended, h)
  BY CatElements
<1>8. PICK blank \in Text : blank = Cat(head, nl)
  BY CatElements
<1>9. RequestText(r) = Cat(Cat(blank, b), nl)
  BY <1>1, <1>2, <1>3, <1>4, <1>5, <1>6, <1>7, <1>8, Zenon DEF RequestText, Cat
<1>10. PICK body \in Text : body = Cat(b, nl)
  BY CatElements
<1>11. PICK others \in Text : others = Cat(nl, body)
  BY CatElements
<1>12. Cat(Cat(blank, b), nl) = Cat(ended, Cat(h, others))
  <2>1. Cat(Cat(blank, b), nl) = Cat(blank, body)
    BY <1>10, CatsAssociate
  <2>2. Cat(Cat(head, nl), body) = Cat(head, others)
    BY <1>11, CatsAssociate
  <2>3. Cat(Cat(ended, h), others) = Cat(ended, Cat(h, others))
    BY CatsAssociate
  <2> QED BY <1>7, <1>8, <2>1, <2>2, <2>3
<1>13. line = ThreeWords(m, u, v)
  <2>1. PICK spv \in Text : spv = Cat(sp, v)
    BY CatElements
  <2>2. PICK uspv \in Text : uspv = Cat(u, spv)
    BY CatElements
  <2>3. Cat(Cat(m2, sp), v) = Cat(m2, spv)
    BY <2>1, CatsAssociate
  <2>4. Cat(Cat(m1, u), spv) = Cat(m1, uspv)
    BY <2>2, CatsAssociate
  <2>5. Cat(Cat(m, sp), uspv) = Cat(m, Cat(sp, uspv))
    BY CatsAssociate
  <2> QED BY <1>1, <1>2, <1>3, <1>4, <1>5, <2>1, <2>2, <2>3, <2>4, <2>5 DEF ThreeWords
<1> QED
  BY <1>1, <1>6, <1>9, <1>10, <1>11, <1>12, <1>13 DEF Message

\* A request that is read as it is written.
Readable(r) ==
  /\ r.method \in {<<"GET">>, <<"POST">>}
  /\ Plain(r.uri) /\ Plain(r.version)
  /\ Clean(r.headers)

LEMMA PlainParts ==
  ASSUME NEW s \in Text
  PROVE  Plain(s) <=> Occurrences(s, Space) = {} /\ Occurrences(s, CRLF) = {}
<1>1. FindIn(s, Space) = 0 <=> Occurrences(s, Space) = {}
  BY FindFirst, WordsAreTexts
<1>2. FindIn(s, CRLF) = 0 <=> Occurrences(s, CRLF) = {}
  BY FindFirst, WordsAreTexts
<1> QED
  BY <1>1, <1>2 DEF Plain

\* A text of one token, which is not a space.
LEMMA TokenIsPlain ==
  ASSUME NEW t \in Text, NEW blank, <<blank>> = Space, Len(t) = 1, t[1] # blank
  PROVE  Plain(t)
<1>1. Occurrences(t, Space) = {}
  <2>1. PICK sp \in Text : sp = Space /\ Len(sp) = 1 /\ sp[1] = blank
    <3>1. <<blank>> \in Text /\ Len(<<blank>>) = 1 /\ <<blank>>[1] = blank
      BY WordsAreTexts
    <3> QED BY <3>1
  <2>2. ASSUME NEW k \in Occurrences(t, sp)
        PROVE  FALSE
    <3>1. /\ k \in Nat /\ 1 <= k /\ k + Len(sp) <= Len(t) + 1
          /\ \A j \in 1..Len(sp) : t[k + j - 1] = sp[j]
      BY OccurrenceTokens
    <3>2. k = 1 /\ 1 + 1 - 1 = 1 /\ 1 \in 1..Len(sp)
      BY <2>1, <3>1
    <3>3. t[1 + 1 - 1] = sp[1]
      BY <3>1, <3>2
    <3> QED BY <2>1, <3>2, <3>3
  <2> QED BY <2>1, <2>2
<1>2. Occurrences(t, CRLF) = {}
  <2>1. PICK crlf \in Text : crlf = CRLF /\ Len(crlf) = 2
    BY WordsAreTexts
  <2>2. ASSUME NEW k \in Occurrences(t, crlf)
        PROVE  FALSE
    <3>1. k \in Nat /\ 1 <= k /\ k + Len(crlf) <= Len(t) + 1
      BY OccurrenceTokens
    <3> QED BY <2>1, <3>1
  <2> QED BY <2>1, <2>2
<1> QED
  BY <1>1, <1>2, PlainParts

LEMMA MethodIsPlain ==
  ASSUME NEW method \in Text, method \in {<<"GET">>, <<"POST">>}
  PROVE  Plain(method)
<1>1. PICK blank : blank = " " /\ <<blank>> = Space
  BY DEF Space
<1>2. CASE method = <<"GET">>
  <2>1. Len(method) = 1 /\ method[1] # blank
    BY <1>1, <1>2
  <2> QED BY <1>1, <2>1, TokenIsPlain
<1>3. CASE method = <<"POST">>
  <2>1. Len(method) = 1 /\ method[1] # blank
    BY <1>1, <1>3
  <2> QED BY <1>1, <2>1, TokenIsPlain
<1> QED
  BY <1>2, <1>3

LEMMA FieldsOfParse ==
  ASSUME NEW t
  PROVE  /\ ParseRequest(t).method = FirstLine(t)[1] /\ ParseRequest(t).uri = FirstLine(t)[2]
         /\ ParseRequest(t).version = FirstLine(t)[3] /\ ParseRequest(t).headers = HeadersOf(t)
         /\ ParseRequest(t).body = BodyOf(t) /\ ParseRequest(t).raw = t
BY Zenon DEF ParseRequest

\* What is written from a request is read as the request, but for a '\r' at the
\* end of the last header and a line break at the end of the body.
LEMMA RequestRead ==
  ASSUME NEW r \in Requests, Readable(r), r.headers # <<>>, NEW text, text = RequestText(r)
  PROVE  /\ text \in Text
         /\ IsRequest(text)
         /\ FirstLine(text)[1] = r.method /\ FirstLine(text)[2] = r.uri /\ FirstLine(text)[3] = r.version
         /\ HeadersOf(text) \in Seq(Fields) /\ Len(HeadersOf(text)) = Len(r.headers)
         /\ \A k \in 1..Len(r.headers) :
              HeadersOf(text)[k] = IF k = Len(r.headers)
                                   THEN Header(r.headers[k].key, Cat(r.headers[k].value, <<CR>>))
                                   ELSE r.headers[k]
         /\ BodyOf(text) = Cat(r.body, CRLF)
<1>1. PICK m \in Text, u \in Text, v \in Text, h \in Seq(Fields), b \in Text :
        m = r.method /\ u = r.uri /\ v = r.version /\ b = r.body /\ h = r.headers
  BY DEF Requests
<1>2. PICK body \in Text : body = Cat(b, CRLF)
  BY CatElements, WordsAreTexts
<1>3. /\ Occurrences(m, Space) = {} /\ Occurrences(u, Space) = {} /\ Occurrences(v, Space) = {}
      /\ Occurrences(m, CRLF) = {} /\ Occurrences(u, CRLF) = {} /\ Occurrences(v, CRLF) = {}
      /\ m \in {<<"GET">>, <<"POST">>} /\ Clean(h)
  <2>1. m \in {<<"GET">>, <<"POST">>} /\ Plain(u) /\ Plain(v) /\ Clean(h)
    BY <1>1 DEF Readable
  <2>2. Plain(m)
    BY <2>1, MethodIsPlain
  <2> QED BY <2>1, <2>2, PlainParts
<1>4. PICK first \in Text :
        /\ first = ThreeWords(m, u, v) /\ Occurrences(first, CRLF) = {} /\ first # <<>>
        /\ Len(Split(first, Space)) = 3 /\ Split(first, Space)[1] = m
        /\ Split(first, Space)[2] = u /\ Split(first, Space)[3] = v
  BY <1>3, WordsSplit, WordsUnbroken
<1>5. text = Message(first, h, body)
  BY <1>1, <1>2, <1>4, RequestPrinted
<1>6. text \in Text /\ FindIn(text, BlankLine) # 0 /\ BodyOf(text) = body /\ Lines(text)[1] = first
  BY <1>1, <1>3, <1>4, <1>5, MessageLines
<1>7. /\ HeadersOf(text) \in Seq(Fields) /\ Len(HeadersOf(text)) = Len(h)
      /\ \A k \in 1..Len(h) : HeadersOf(text)[k] = IF k = Len(h)
                                                   THEN Header(h[k].key, Cat(h[k].value, <<CR>>))
                                                   ELSE h[k]
      /\ HeadersAreValid(text)
  BY <1>1, <1>3, <1>4, <1>5, MessageHeaders
<1>8. FirstLine(text) = Split(first, Space)
  BY <1>6 DEF FirstLine
<1> QED
  BY <1>1, <1>2, <1>3, <1>4, <1>6, <1>7, <1>8 DEF IsRequest

\* Pieces of a line have no line breaks.
LEMMA PiecesInside ==
  ASSUME NEW s \in Text, NEW sep \in Text, sep # <<>>, NEW other \in Text, Occurrences(s, other) = {}
  PROVE  \A j \in 1..Len(Split(s, sep)) : Occurrences(Split(s, sep)[j], other) = {}
<1>1. PICK pieces \in Seq(Text) : pieces = Split(s, sep) /\ Len(pieces) \in Nat \ {0}
  BY SplitType
<1>2. Occurrences(pieces[1], other) = {}
  <2>1. PICK after \in Text : s = pieces[1] \o after
    <3>1. \E after \in Text : s = Split(s, sep)[1] \o after
      BY SplitHead, Zenon
    <3> QED BY <1>1, <3>1, Zenon
  <2>2. PICK piece \in Text : piece = pieces[1]
    BY <1>1
  <2>3. Occurrences(Cat(piece, after), other) = {}
    BY <2>1, <2>2 DEF Cat
  <2> QED BY <2>2, <2>3, NoneInside
<1>3. ASSUME NEW j \in 2..Len(pieces)
      PROVE  Occurrences(pieces[j], other) = {}
  <2>1. PICK before \in Text, after \in Text : s = before \o sep \o pieces[j] \o after
    <3>1. \A i \in 2..Len(Split(s, sep)) :
            \E before \in Text, after \in Text :
              /\ s = before \o sep \o Split(s, sep)[i] \o after
              /\ i = Len(Split(s, sep)) => after = <<>>
              /\ i # Len(Split(s, sep)) => \E more \in Text : after = sep \o more
      BY SplitWhere
    <3> QED BY <1>1, <3>1, Zenon
  <2>2. PICK piece \in Text : piece = pieces[j]
    <3>1. j \in 1..Len(pieces)
      BY <1>1
    <3> QED BY <3>1, ElementOfSeq
  <2>3. PICK front \in Text : front = Cat(before, sep)
    BY CatElements
  <2>4. PICK most \in Text : most = Cat(front, piece)
    BY CatElements
  <2>5. Occurrences(Cat(most, after), other) = {}
    BY <2>1, <2>2, <2>3, <2>4, Zenon DEF Cat
  <2>6. Occurrences(Cat(front, piece), other) = {}
    BY <2>4, <2>5, NoneInside
  <2> QED BY <2>2, <2>6, NoneInside
<1>4. \A j \in 1..Len(pieces) : j = 1 \/ j \in 2..Len(pieces)
  BY <1>1
<1> QED
  BY <1>1, <1>2, <1>3, <1>4

LEMMA LinesUnbroken ==
  ASSUME NEW t \in Text, FindIn(t, BlankLine) # 0
  PROVE  /\ Lines(t) \in Seq(Text) /\ Len(Lines(t)) \in Nat \ {0}
         /\ \A j \in 1..Len(Lines(t)) : Lines(t)[j] \in Text /\ Occurrences(Lines(t)[j], CRLF) = {}
<1>1. PICK lines \in Seq(Text) :
        /\ lines = Lines(t) /\ Len(lines) \in Nat \ {0}
        /\ \A j \in 1..Len(lines) : lines[j] \in Text /\ Occurrences(lines[j], CRLF) = {}
  <2>1. PICK lines \in Seq(Text) : lines = Lines(t) /\ Len(lines) \in Nat \ {0}
    BY LinesType
  <2>2. PICK head \in Text : head = SubSeq(t, 1, FindIn(t, BlankLine))
    <3>1. PICK k : k = FindIn(t, BlankLine)
      OBVIOUS
    <3>2. k \in Nat /\ k # 0 /\ k + 4 <= Len(t) + 1 /\ Len(t) \in Nat
      <4>1. Len(t) \in Nat
        BY DEF Text
      <4> QED BY <3>1, <4>1, FindFirst, WordsAreTexts
    <3>3. k \in Int /\ k <= Len(t)
      BY <3>2
    <3>4. SubSeq(t, 1, k) \in Text
      BY <3>3, PartIsText
    <3> QED BY <3>1, <3>4
  <2>3. \A j \in 1..Len(lines) : Occurrences(lines[j], CRLF) = {}
    BY <2>1, <2>2, SplitFree, WordsAreTexts DEF Lines
  <2>4. \A j \in 1..Len(lines) : lines[j] \in Text
    BY ElementOfSeq
  <2> QED BY <2>1, <2>3, <2>4
<1> QED
  BY <1>1

\* The headers of a message are those that a message can be written from.
LEMMA HeadersAreClean ==
  ASSUME NEW t \in Text, FindIn(t, BlankLine) # 0, HeadersAreValid(t)
  PROVE  Clean(HeadersOf(t))
<1>1. PICK lines \in Seq(Text) :
        /\ lines = Lines(t) /\ Len(lines) \in Nat \ {0}
        /\ \A j \in 1..Len(lines) : lines[j] \in Text /\ Occurrences(lines[j], CRLF) = {}
  BY LinesUnbroken
<1>2. Clean(HeadersOf(t))
  <2>1. /\ HeadersOf(t) \in Seq(Fields) /\ Len(HeadersOf(t)) = Len(lines) - 1
        /\ \A k \in 1..Len(HeadersOf(t)) : HeadersOf(t)[k] = HeaderOf(lines[k + 1])
    BY <1>1, HeadersType
  <2>2. ASSUME NEW k \in 1..Len(HeadersOf(t))
        PROVE  /\ Occurrences(HeadersOf(t)[k].key, ColonSpace) = {}
               /\ Occurrences(LineOf(HeadersOf(t)[k]), CRLF) = {}
    <3>1. k + 1 \in 1..Len(lines) /\ k + 1 # 1 /\ k \in 1..(Len(lines) - 1)
      BY <1>1, <2>1
    <3>2. PICK line \in Text : line = lines[k + 1] /\ Occurrences(line, CRLF) = {}
      BY <1>1, <3>1
    <3>3. FindIn(line, ColonSpace) # 0
      <4>1. lines # <<>>
        BY <1>1, EmptySeq
      <4>2. Tail(lines) \in Seq(Text) /\ Len(Tail(lines)) = Len(lines) - 1 /\ Tail(lines)[k] = lines[k + 1]
        BY <3>1, <4>1
      <4>3. PICK others \in Seq(Text) : others = Tail(lines) /\ k \in 1..Len(others) /\ others[k] = line
        BY <3>1, <3>2, <4>2
      <4>4. line \in ToSet(others)
        BY <4>3 DEF ToSet
      <4> QED BY <1>1, <4>3, <4>4 DEF HeadersAreValid
    <3>4. /\ HeaderOf(line) \in Fields
          /\ line = HeaderOf(line).key \o ColonSpace \o HeaderOf(line).value
          /\ Occurrences(HeaderOf(line).key, ColonSpace) = {}
      BY <3>3, HeaderOfLine
    <3>5. line = LineOf(HeaderOf(line))
      BY <3>4, Zenon DEF LineOf, Cat
    <3> QED BY <2>1, <3>2, <3>4, <3>5
  <2> QED BY <2>2 DEF Clean
<1> QED
  BY <1>2

\* What is read can be written again.
LEMMA ParseIsReadable ==
  ASSUME NEW t \in Text, IsRequest(t)
  PROVE  Readable(ParseRequest(t))
<1>1. PICK lines \in Seq(Text) :
        /\ lines = Lines(t) /\ Len(lines) \in Nat \ {0}
        /\ \A j \in 1..Len(lines) : lines[j] \in Text /\ Occurrences(lines[j], CRLF) = {}
  BY LinesUnbroken DEF IsRequest
<1>2. PICK first \in Text : first = lines[1] /\ Occurrences(first, CRLF) = {}
  <2>1. 1 \in 1..Len(lines)
    BY <1>1
  <2> QED BY <1>1, <2>1
<1>3. PICK words \in Seq(Text) : words = Split(first, Space) /\ words = FirstLine(t) /\ Len(words) = 3
  <2>1. Split(first, Space) \in Seq(Text)
    BY SplitType, WordsAreTexts
  <2> QED BY <1>1, <1>2, <2>1 DEF FirstLine, IsRequest
<1>4. ASSUME NEW j \in 1..3
      PROVE  Plain(words[j])
  <2>1. PICK word \in Text : word = words[j]
    <3>1. j \in 1..Len(words)
      BY <1>3
    <3> QED BY <3>1, ElementOfSeq
  <2>2. Occurrences(word, Space) = {}
    BY <1>3, <2>1, SplitFree, WordsAreTexts
  <2>3. Occurrences(word, CRLF) = {}
    <3>1. \A k \in 1..Len(Split(first, Space)) : Occurrences(Split(first, Space)[k], CRLF) = {}
      BY <1>2, PiecesInside, WordsAreTexts
    <3> QED BY <1>3, <2>1, <3>1
  <2> QED BY <2>1, <2>2, <2>3, PlainParts
<1>5. Clean(HeadersOf(t))
  BY HeadersAreClean DEF IsRequest
<1>6. words[1] \in {<<"GET">>, <<"POST">>} /\ Plain(words[2]) /\ Plain(words[3])
  BY <1>3, <1>4 DEF IsRequest
<1> QED
  BY <1>3, <1>5, <1>6, FieldsOfParse DEF Readable

-----------------------------------------------------------------------------
\* Responses

\* Words, each with a space after it.
WithSpaces(words) == [k \in DOMAIN words |-> words[k] \o Space]

LEMMA SpacedWordsType ==
  ASSUME NEW words \in Seq(Text)
  PROVE  /\ WithSpaces(words) \in Seq(Text)
         /\ Len(words) \in Nat /\ Len(WithSpaces(words)) = Len(words)
         /\ \A k \in 1..Len(words) : WithSpaces(words)[k] = Cat(words[k], Space)
<1>1. PICK n \in Nat : n = Len(words) /\ DOMAIN words = 1..n
  OBVIOUS
<1>2. \A k \in 1..n : words[k] \o Space = Cat(words[k], Space) /\ Cat(words[k], Space) \in Text
  <2>1. \A k \in 1..n : words[k] \in Text
    BY <1>1
  <2> QED BY <2>1, WordsAreTexts, CatsAssociate DEF Cat
<1>3. WithSpaces(words) = [k \in 1..n |-> Cat(words[k], Space)]
  BY <1>1, <1>2 DEF WithSpaces
<1>4. PICK f : f = WithSpaces(words)
  OBVIOUS
<1>5. f \in [1..n -> Text]
  BY <1>2, <1>3, <1>4
<1>6. f \in Seq(Text) /\ Len(f) = n
  BY <1>5
<1>7. \A k \in 1..n : f[k] = Cat(words[k], Space)
  BY <1>3, <1>4
<1> QED
  BY <1>1, <1>4, <1>6, <1>7

LEMMA SpacedWordsCons ==
  ASSUME NEW first \in Text, NEW words \in Seq(Text)
  PROVE  FlattenSeq(WithSpaces(<<first>> \o words))
           = Cat(Cat(first, Space), FlattenSeq(WithSpaces(words)))
<1>1. PICK word \in Text, n \in Nat : word = Cat(first, Space) /\ n = Len(words)
  BY WordsAreTexts, CatsAssociate
<1>2. PICK longer \in Seq(Text) :
        /\ longer = <<first>> \o words /\ Len(longer) = n + 1
        /\ longer[1] = first /\ \A k \in 1..n : longer[k + 1] = words[k]
  <2>1. /\ <<first>> \o words \in Seq(Text)
        /\ Len(<<first>> \o words) = Len(words) + 1
        /\ (<<first>> \o words)[1] = first
        /\ \A j \in 1..Len(words) : (<<first>> \o words)[j + 1] = words[j]
    BY ConsElements
  <2> QED BY <1>1, <2>1, Zenon
<1>3. PICK spaced \in Seq(Text) : spaced = WithSpaces(words)
  BY SpacedWordsType
<1>4. WithSpaces(longer) = <<word>> \o spaced
  <2>1. Len(spaced) = n /\ \A k \in 1..n : spaced[k] = Cat(words[k], Space)
    <3>1. /\ Len(WithSpaces(words)) = Len(words)
          /\ \A k \in 1..Len(words) : WithSpaces(words)[k] = Cat(words[k], Space)
      BY SpacedWordsType
    <3> QED BY <1>1, <1>3, <3>1, Zenon
  <2>2. PICK s \in Seq(Text) :
          /\ s = <<word>> \o spaced /\ Len(s) = n + 1
          /\ s[1] = word /\ \A k \in 1..n : s[k + 1] = spaced[k]
    <3>1. /\ <<word>> \o spaced \in Seq(Text)
          /\ Len(<<word>> \o spaced) = Len(spaced) + 1
          /\ (<<word>> \o spaced)[1] = word
          /\ \A j \in 1..Len(spaced) : (<<word>> \o spaced)[j + 1] = spaced[j]
      BY ConsElements
    <3> QED BY <2>1, <3>1, Zenon
  <2>3. PICK b \in Seq(Text) : b = WithSpaces(longer)
    BY SpacedWordsType
  <2>4. Len(b) = n + 1 /\ \A k \in 1..(n + 1) : b[k] = Cat(longer[k], Space)
    <3>1. /\ Len(WithSpaces(longer)) = Len(longer)
          /\ \A k \in 1..Len(longer) : WithSpaces(longer)[k] = Cat(longer[k], Space)
      BY SpacedWordsType
    <3> QED BY <1>2, <2>3, <3>1, Zenon
  <2>5. ASSUME NEW k \in 1..(n + 1)
        PROVE  b[k] = s[k]
    <3>1. CASE k = 1
      BY <1>1, <1>2, <2>2, <2>4, <3>1
    <3>2. CASE k # 1
      <4>1. PICK j \in 1..n : k = j + 1
        <5>1. k - 1 \in 1..n /\ k = (k - 1) + 1
          BY <3>2
        <5> QED BY <5>1
      <4> QED BY <1>2, <2>1, <2>2, <2>4, <4>1
    <3> QED BY <3>1, <3>2
  <2>6. b = s
    BY <2>2, <2>4, <2>5, SeqEqual
  <2> QED BY <2>2, <2>3, <2>6
<1>5. FlattenSeq(<<word>> \o spaced) = word \o FlattenSeq(spaced)
  BY FlattenCons DEF Text
<1> QED
  BY <1>1, <1>2, <1>3, <1>4, <1>5, Zenon DEF Cat

\* The words of a line, each with a space after it, are the line and a space.
LEMMA WordsSpaced ==
  \A s \in Text : FlattenSeq(WithSpaces(Split(s, Space))) = Cat(s, Space)
<1> DEFINE Good(t) == FlattenSeq(WithSpaces(Split(t, Space))) = Cat(t, Space)
           Others == {n \in Nat : \E t \in Text : Len(t) = n /\ ~ Good(t)}
           least == Min(Others)
<1>1. ASSUME Others # {}
      PROVE  FALSE
  <2>1. Others \in SUBSET Nat
    OBVIOUS
  <2>2. least \in Others /\ \A k \in Others : least <= k
    BY <1>1, <2>1, MinIsLeast
  <2>3. PICK t \in Text : Len(t) = least /\ ~ Good(t)
    BY <2>2
  <2> HIDE DEF least
  <2>4. PICK space \in Text : space = Space /\ space # <<>>
    BY WordsAreTexts
  <2>5. CASE FindIn(t, space) = 0
    <3>1. Split(t, Space) = <<t>>
      BY <2>4, <2>5, SplitUnfold
    <3>2. PICK none \in Seq(Text) : none = <<>>
      BY EmptySeq
    <3>3. <<t>> \o none = <<t>>
      BY <3>2, ConcatEmptySeq
    <3>4. FlattenSeq(WithSpaces(<<t>> \o none)) = Cat(Cat(t, Space), FlattenSeq(WithSpaces(none)))
      BY SpacedWordsCons
    <3>5. WithSpaces(none) = <<>>
      BY <3>2 DEF WithSpaces
    <3>6. PICK word \in Text : word = Cat(t, Space)
      BY <2>4, CatsAssociate
    <3>7. Cat(word, <<>>) = word
      BY ConcatEmptySeq DEF Cat, Text
    <3> QED BY <2>3, <3>1, <3>3, <3>4, <3>5, <3>6, <3>7, FlattenEmpty, Zenon
  <2>6. CASE FindIn(t, space) # 0
    <3>1. PICK first \in Text, rest \in Text :
            /\ t = first \o space \o rest
            /\ Len(t) \in Nat /\ Len(rest) \in Nat /\ Len(rest) < Len(t)
            /\ Split(t, space) = <<first>> \o Split(rest, space)
      <4>1. \E first \in Text, rest \in Text :
              /\ first = SubSeq(t, 1, FindIn(t, space) - 1) /\ Len(first) = FindIn(t, space) - 1
              /\ rest = Rest(t, space)
              /\ t = first \o space \o rest
              /\ Len(t) \in Nat /\ Len(rest) \in Nat /\ Len(rest) < Len(t)
              /\ Occurrences(first, space) = {}
              /\ Split(t, space) = <<first>> \o Split(rest, space)
        BY <2>4, <2>6, SplitFirst, Zenon
      <4> QED BY <4>1, Zenon
    <3>2. PICK others \in Seq(Text) : others = Split(rest, space)
      BY <2>4, SplitType
    <3>3. FlattenSeq(WithSpaces(others)) = Cat(rest, Space)
      <4>1. Len(rest) \in Nat /\ ~ (least <= Len(rest))
        BY <2>3, <3>1
      <4>2. Good(rest)
        <5> HIDE DEF Good
        <5> QED BY <2>2, <4>1
      <4> QED BY <2>4, <3>2, <4>2, Zenon
    <3>4. FlattenSeq(WithSpaces(<<first>> \o others)) = Cat(Cat(first, Space), FlattenSeq(WithSpaces(others)))
      BY SpacedWordsCons
    <3>5. PICK head \in Text : head = Cat(first, space)
      BY CatsAssociate
    <3>6. Cat(Cat(head, rest), space) = Cat(head, Cat(rest, space))
      BY CatsAssociate
    <3>7. t = Cat(head, rest)
      BY <3>1, <3>5, Zenon DEF Cat
    <3> QED BY <2>3, <2>4, <3>1, <3>2, <3>3, <3>4, <3>5, <3>6, <3>7, Zenon
  <2> QED BY <2>5, <2>6
<1>2. \A t \in Text : Len(t) \in Nat
  BY DEF Text
<1> QED
  BY <1>1, <1>2

\* A response from its parts, as ToString writes it.
LEMMA ResponsePrinted ==
  ASSUME NEW first \in Text, NEW headers \in Seq(Fields), NEW body \in Text, NEW response,
         response.first_line = Cat(first, CRLF), response.headers = headers, response.body = body
  PROVE  ResponseText(response) = Message(first, headers, body)
<1>1. PICK crlf \in Text, line \in Text, headertext \in Text :
        /\ crlf = CRLF /\ line = Cat(first, crlf) /\ headertext = HeaderText(headers)
  <2>1. CRLF \in Text /\ Cat(first, CRLF) \in Text
    BY WordsAreTexts, CatsAssociate
  <2> QED BY <2>1, HeaderTextType
<1>2. ResponseText(response) = Cat(Cat(Cat(line, headertext), crlf), body)
  BY <1>1, Zenon DEF ResponseText, Cat
<1>3. PICK end \in Text : end = Cat(crlf, body)
  BY CatsAssociate
<1>4. PICK head \in Text : head = Cat(line, headertext)
  BY CatsAssociate
<1>5. Cat(Cat(head, crlf), body) = Cat(head, Cat(crlf, body))
  BY CatsAssociate
<1>6. Cat(Cat(line, headertext), end) = Cat(line, Cat(headertext, end))
  BY CatsAssociate
<1>7. Message(first, headers, body) = Cat(line, Cat(headertext, end))
  BY <1>1, <1>3, Zenon DEF Message
<1> QED
  BY <1>2, <1>3, <1>4, <1>5, <1>6, <1>7, Zenon

\* A '\r' is no space.
LEMMA MarkIsNoSpace ==
  ASSUME NEW s \in Text, Occurrences(s, Space) = {}
  PROVE  Occurrences(Cat(s, <<CR>>), Space) = {}
<1>1. PICK space \in Text, cr \in Text :
        /\ space = Space /\ cr = <<CR>> /\ Len(space) = 1 /\ Len(cr) = 1 /\ cr[1] # space[1]
  <2>1. Space[1] # CR
    BY DEF Space, CR
  <2> QED BY <2>1, WordsAreTexts, CRAlone
<1>2. PICK n \in Nat, both \in Text :
        /\ n = Len(s) /\ both = Cat(s, cr) /\ Len(both) = n + 1 /\ both[n + 1] = cr[1]
        /\ \A j \in 1..n : both[j] = s[j]
  <2>1. /\ Cat(s, cr) \in Text /\ Len(s) \in Nat /\ Len(Cat(s, cr)) = Len(s) + Len(cr)
        /\ \A k \in 1..Len(s) : Cat(s, cr)[k] = s[k]
        /\ \A k \in 1..Len(cr) : Cat(s, cr)[Len(s) + k] = cr[k]
    BY CatElements
  <2>2. 1 \in 1..Len(cr)
    BY <1>1
  <2> QED BY <1>1, <2>1, <2>2
<1>3. ASSUME NEW k \in Occurrences(both, space)
      PROVE  FALSE
  <2>1. /\ k \in Nat /\ 1 <= k /\ k + Len(space) <= Len(both) + 1
        /\ \A j \in 1..Len(space) : both[k + j - 1] = space[j]
    BY OccurrenceTokens
  <2>2. k \in 1..(n + 1)
    BY <1>1, <1>2, <2>1
  <2>3. both[k] = space[1]
    <3>1. 1 \in 1..Len(space) /\ k + 1 - 1 = k
      BY <1>1, <2>2
    <3> QED BY <2>1, <3>1
  <2>4. k \in 1..n /\ s[k] = space[1]
    BY <1>1, <1>2, <2>2, <2>3
  <2>5. \A j \in 1..Len(space) : s[k + j - 1] = space[j]
    BY <1>1, <2>4
  <2>6. k \in Nat /\ 1 <= k /\ k + Len(space) <= Len(s) + 1
    BY <1>1, <1>2, <2>4
  <2>7. k \in Occurrences(s, space)
    BY <2>5, <2>6, OccurrenceTokens
  <2> QED BY <1>1, <2>7
<1> QED
  BY <1>1, <1>2, <1>3

\* What is before the last space of a line is split into the same words.
LEMMA WordsBefore ==
  ASSUME NEW head \in Text, NEW last \in Text, Occurrences(last, Space) = {}
  PROVE  LET words == Split(head, Space)
             all == Split(Cat(head, Cat(Space, last)), Space)
         IN  /\ all \in Seq(Text)
             /\ Len(words) \in Nat
             /\ Len(all) = Len(words) + 1
             /\ \A k \in 1..Len(words) : all[k] = words[k]
<1>1. PICK words \in Seq(Text) : words = Split(head, Space)
  BY SplitType, WordsAreTexts
<1>2. Split(Cat(head, Cat(Space, last)), Space) = words \o Split(last, Space)
  BY <1>1, SplitCat, SimpleSeparators, WordsAreTexts
<1>3. PICK end \in Seq(Text) : end = Split(last, Space) /\ Len(end) = 1
  <2>1. Split(last, Space) = <<last>>
    BY NoSeparator, WordsAreTexts
  <2>2. <<last>> \in Seq(Text) /\ Len(<<last>>) = 1
    OBVIOUS
  <2> QED BY <2>1, <2>2, Zenon
<1>4. /\ words \o end \in Seq(Text)
      /\ Len(words \o end) = Len(words) + Len(end)
      /\ Len(words) \in Nat
      /\ \A k \in 1..Len(words) : (words \o end)[k] = words[k]
  BY ConcatElements
<1> QED
  BY <1>1, <1>2, <1>3, <1>4

\* A response that is printed is read as it was, but for a '\r' at the end of
\* the headers.
LEMMA ResponseRead ==
  ASSUME NEW head \in Text, NEW last \in Text, Occurrences(last, Space) = {},
         NEW line, line = Cat(head, Cat(Space, last)), Occurrences(line, CRLF) = {},
         Len(Split(head, Space)) >= 2,
         Len(Split(head, Space)[2]) = 1, IsNumber(Split(head, Space)[2][1]),
         NEW headers \in Seq(Fields), Clean(headers), NEW body \in Text,
         NEW text, text = Message(line, headers, body)
  PROVE  /\ text \in Text
         /\ IsResponse(text)
         /\ ParseResponse(text).status = IntToResponseCode(NumberOf[Split(head, Space)[2][1]])
         /\ ParseResponse(text).body = body
         /\ ParseResponse(text).headers = HeadersOf(text)
         /\ HeadersOf(text) \in Seq(Fields) /\ Len(HeadersOf(text)) = Len(headers)
         /\ \A k \in 1..Len(headers) :
              HeadersOf(text)[k] = IF k = Len(headers)
                                   THEN Header(headers[k].key, Cat(headers[k].value, <<CR>>))
                                   ELSE headers[k]
<1>1. PICK space \in Text, cr \in Text :
        /\ space = Space /\ cr = <<CR>> /\ Len(space) = 1
  BY WordsAreTexts, CRAlone
<1>2. PICK end \in Text, marked \in Text :
        /\ end = Cat(space, last) /\ marked = Cat(last, cr) /\ line = Cat(head, end)
  BY <1>1, CatsAssociate
<1>3. line \in Text /\ line # <<>>
  <2>1. /\ Len(Cat(head, end)) = Len(head) + Len(end) /\ Len(head) \in Nat
        /\ Len(Cat(space, last)) = Len(space) + Len(last) /\ Len(last) \in Nat
        /\ Cat(head, end) \in Text
    BY CatElements
  <2>2. Len(line) # 0
    BY <1>1, <1>2, <2>1
  <2> QED BY <1>2, <2>1, <2>2
<1>4. Cat(line, cr) = Cat(head, Cat(space, marked))
  <2>1. Cat(Cat(head, end), cr) = Cat(head, Cat(end, cr))
    BY CatsAssociate
  <2>2. Cat(Cat(space, last), cr) = Cat(space, Cat(last, cr))
    BY CatsAssociate
  <2> QED BY <1>2, <2>1, <2>2
<1>5. Occurrences(marked, Space) = {}
  BY <1>1, <1>2, MarkIsNoSpace
<1>6. /\ text \in Text /\ FindIn(text, BlankLine) # 0 /\ HeadersAreValid(text)
      /\ BodyOf(text) = body
      /\ Lines(text)[1] = line \/ Lines(text)[1] = Cat(line, cr)
      /\ HeadersOf(text) \in Seq(Fields) /\ Len(HeadersOf(text)) = Len(headers)
      /\ \A k \in 1..Len(headers) :
           HeadersOf(text)[k] = IF k = Len(headers)
                                THEN Header(headers[k].key, Cat(headers[k].value, <<CR>>))
                                ELSE headers[k]
  <2>1. CASE headers = <<>>
    <3>1. /\ text \in Text /\ FindIn(text, BlankLine) # 0
          /\ Lines(text) = <<Cat(line, <<CR>>)>>
          /\ HeadersOf(text) = <<>> /\ HeadersAreValid(text)
          /\ BodyOf(text) = body
      BY <1>3, <2>1, BareMessageRead
    <3>2. Lines(text)[1] = Cat(line, cr)
      BY <1>1, <3>1
    <3>3. HeadersOf(text) = headers /\ Len(headers) = 0
      BY <2>1, <3>1
    <3> QED BY <3>1, <3>2, <3>3
  <2>2. CASE headers # <<>>
    <3>1. /\ text \in Text /\ FindIn(text, BlankLine) # 0
          /\ BodyOf(text) = body /\ Lines(text)[1] = line
      BY <1>3, <2>2, MessageLines
    <3>2. /\ HeadersOf(text) \in Seq(Fields) /\ Len(HeadersOf(text)) = Len(headers)
          /\ \A k \in 1..Len(headers) :
               HeadersOf(text)[k] = IF k = Len(headers)
                                    THEN Header(headers[k].key, Cat(headers[k].value, <<CR>>))
                                    ELSE headers[k]
          /\ HeadersAreValid(text)
      BY <1>3, <2>2, MessageHeaders
    <3> QED BY <3>1, <3>2
  <2> QED BY <2>1, <2>2
<1>7. PICK n \in Nat : n = Len(Split(head, Space)) /\ n >= 2
  BY SplitType, WordsAreTexts
<1>8. Len(FirstLine(text)) > 2 /\ FirstLine(text)[2] = Split(head, Space)[2]
  <2>1. \A l \in {last, marked} :
          /\ Len(Split(Cat(head, Cat(Space, l)), Space)) = n + 1
          /\ Split(Cat(head, Cat(Space, l)), Space)[2] = Split(head, Space)[2]
    <3> TAKE l \in {last, marked}
    <3>1. PICK other : other = Cat(head, Cat(Space, l))
      OBVIOUS
    <3>2. /\ Len(Split(other, Space)) = n + 1
          /\ \A k \in 1..n : Split(other, Space)[k] = Split(head, Space)[k]
      <4>1. l \in Text /\ Occurrences(l, Space) = {}
        BY <1>5
      <4>2. /\ Len(Split(Cat(head, Cat(Space, l)), Space)) = Len(Split(head, Space)) + 1
            /\ \A k \in 1..Len(Split(head, Space)) :
                 Split(Cat(head, Cat(Space, l)), Space)[k] = Split(head, Space)[k]
        BY <4>1, WordsBefore
      <4> QED BY <1>7, <3>1, <4>2, Zenon
    <3>3. 2 \in 1..n
      BY <1>7
    <3> QED BY <3>1, <3>2, <3>3
  <2>2. FirstLine(text) \in {Split(Cat(head, Cat(Space, l)), Space) : l \in {last, marked}}
    BY <1>1, <1>2, <1>4, <1>6, Zenon DEF FirstLine
  <2>3. n + 1 > 2
    BY <1>7
  <2> QED BY <2>1, <2>2, <2>3
<1>9. IsResponse(text)
  BY <1>6, <1>8 DEF IsResponse
<1>10. /\ ParseResponse(text).status = IntToResponseCode(NumberOf[FirstLine(text)[2][1]])
       /\ ParseResponse(text).body = BodyOf(text) /\ ParseResponse(text).headers = HeadersOf(text)
  BY DEF ParseResponse
<1> QED
  BY <1>6, <1>8, <1>9, <1>10

LEMMA BodyType ==
  ASSUME NEW t \in Text
  PROVE  BodyOf(t) \in Text
<1>1. FindIn(t, BlankLine) \in Nat
  BY FindFirst, WordsAreTexts
<1>2. PICK k \in Nat \ {0} : k = FindIn(t, BlankLine) + 4
  BY <1>1
<1>3. Len(t) \in Int /\ Len(t) <= Len(t)
  BY DEF Text
<1> QED
  BY <1>2, <1>3, PartIsText DEF BodyOf

LEMMA EmptyText ==
  /\ <<>> \in Text /\ Len(<<>>) = 0
  /\ \A s \in Text : Cat(s, <<>>) = s /\ Cat(<<>>, s) = s
  /\ \A sep \in Text : sep # <<>> => Occurrences(<<>>, sep) = {}
<1>1. <<>> \in Text /\ Len(<<>>) = 0
  BY EmptySeq DEF Text
<1>2. \A s \in Text : s \o <<>> = s /\ <<>> \o s = s
  BY ConcatEmptySeq DEF Text
<1>3. ASSUME NEW sep \in Text, sep # <<>>, NEW k \in Occurrences(<<>>, sep)
      PROVE  FALSE
  <2>1. PICK none \in Text : none = <<>> /\ Len(none) = 0
    BY <1>1
  <2>2. k \in Nat /\ 1 <= k /\ k + Len(sep) <= Len(none) + 1
    BY <1>3, <2>1, OccurrenceTokens
  <2>3. Len(sep) \in Nat /\ (Len(sep) = 0 => sep = <<>>)
    BY EmptySeq DEF Text
  <2> QED BY <1>3, <2>1, <2>2, <2>3
<1> QED
  BY <1>1, <1>2, <1>3, Zenon DEF Cat

\* A space after a line does not break it.
LEMMA SpaceUnbroken ==
  ASSUME NEW line \in Text, Occurrences(line, CRLF) = {}
  PROVE  Occurrences(Cat(line, Space), CRLF) = {}
<1>1. PICK space \in Text, crlf \in Text :
        space = Space /\ crlf = CRLF /\ Len(space) = 1 /\ Len(crlf) = 2 /\ space[1] # "\n"
  <2>1. Space[1] # "\n"
    BY DEF Space
  <2> QED BY <2>1, WordsAreTexts
<1>2. ASSUME NEW k \in Occurrences(space, crlf)
      PROVE  FALSE
  <2>1. k \in Nat /\ 1 <= k /\ k + Len(crlf) <= Len(space) + 1
    BY OccurrenceTokens
  <2> QED BY <1>1, <2>1
<1> QED
  BY <1>1, <1>2, CatUnbroken

\* The first line of a response that is passed on, with the space it gets.
Passed(t) == Cat(Lines(t)[1], Space)

LEMMA FirstLineKept ==
  ASSUME NEW t \in Text
  PROVE  /\ Lines(t)[1] \in Text /\ Passed(t) \in Text
         /\ ParseResponse(t).first_line = Cat(Passed(t), CRLF)
<1>1. PICK line \in Text, space \in Text, crlf \in Text :
        line = Lines(t)[1] /\ space = Space /\ crlf = CRLF
  <2>1. Lines(t) \in Seq(Text) /\ Len(Lines(t)) \in Nat \ {0}
    BY LinesType
  <2>2. Lines(t)[1] \in Text
    BY <2>1
  <2> QED BY <2>2, WordsAreTexts
<1>2. FlattenSeq(WithSpaces(FirstLine(t))) = Cat(line, space)
  BY <1>1, WordsSpaced DEF FirstLine
<1>3. ParseResponse(t).first_line = FlattenSeq(WithSpaces(FirstLine(t))) \o CRLF
  BY DEF ParseResponse, WithSpaces
<1>4. PICK first \in Text : first = Passed(t) /\ first = Cat(line, space)
  <2>1. Cat(line, space) \in Text
    BY CatsAssociate
  <2> QED BY <1>1, <2>1 DEF Passed
<1>5. ParseResponse(t).first_line = Cat(first, CRLF)
  BY <1>1, <1>2, <1>3, <1>4, Zenon DEF Cat
<1> QED
  BY <1>1, <1>4, <1>5, Zenon

LEMMA PassedIs ==
  ASSUME NEW t \in Text, IsResponse(t)
  PROVE  ResponseText(ParseResponse(t)) = Message(Passed(t), HeadersOf(t), BodyOf(t))
<1>1. PICK first \in Text : first = Passed(t) /\ ParseResponse(t).first_line = Cat(first, CRLF)
  BY FirstLineKept
<1>2. ParseResponse(t).headers = HeadersOf(t) /\ ParseResponse(t).body = BodyOf(t)
  BY DEF ParseResponse
<1>3. HeadersOf(t) \in Seq(Fields)
  BY HeadersType
<1>4. BodyOf(t) \in Text
  BY BodyType
<1> QED
  BY <1>1, <1>2, <1>3, <1>4, ResponsePrinted

\* What is passed on is read as what was received.
LEMMA PassedRead ==
  ASSUME NEW t \in Text, IsResponse(t), NEW text, text = ResponseText(ParseResponse(t))
  PROVE  /\ text \in Text /\ IsResponse(text)
         /\ ParseResponse(text).status = ParseResponse(t).status
         /\ ParseResponse(text).body = BodyOf(t)
<1>1. PICK line \in Text : line = Lines(t)[1] /\ Occurrences(line, CRLF) = {}
  <2>1. FindIn(t, BlankLine) # 0
    BY DEF IsResponse
  <2>2. /\ Lines(t) \in Seq(Text) /\ Len(Lines(t)) \in Nat \ {0}
        /\ \A j \in 1..Len(Lines(t)) : Lines(t)[j] \in Text /\ Occurrences(Lines(t)[j], CRLF) = {}
    BY <2>1, LinesUnbroken
  <2>3. 1 \in 1..Len(Lines(t))
    BY <2>2
  <2> QED BY <2>2, <2>3
<1>2. /\ text = Message(Passed(t), HeadersOf(t), BodyOf(t))
      /\ Passed(t) = Cat(line, Cat(Space, <<>>))
  <2>1. Cat(Space, <<>>) = Space
    BY EmptyText, WordsAreTexts
  <2> QED BY <1>1, <2>1, PassedIs, Zenon DEF Passed
<1>3. Occurrences(<<>>, Space) = {} /\ <<>> \in Text
  BY EmptyText, WordsAreTexts
<1>4. Occurrences(Passed(t), CRLF) = {}
  <2>1. Occurrences(Cat(line, Space), CRLF) = {}
    BY <1>1, SpaceUnbroken
  <2> QED BY <1>1, <2>1, Zenon DEF Passed
<1>5. Split(line, Space) = FirstLine(t) /\ Len(FirstLine(t)) > 2
  BY <1>1 DEF FirstLine, IsResponse
<1>6. Len(FirstLine(t)[2]) = 1 /\ IsNumber(FirstLine(t)[2][1]) /\ Clean(HeadersOf(t))
  BY HeadersAreClean DEF IsResponse
<1>7. HeadersOf(t) \in Seq(Fields) /\ BodyOf(t) \in Text
  BY HeadersType, BodyType DEF IsResponse
<1>8. Len(Split(line, Space)) >= 2
  <2>1. Space \in Text /\ Space # <<>>
    BY WordsAreTexts DEF Space
  <2>2. Len(Split(line, Space)) \in Nat
    BY <2>1, SplitType
  <2> QED BY <1>5, <2>2
<1>9. /\ text \in Text /\ IsResponse(text)
      /\ ParseResponse(text).status = IntToResponseCode(NumberOf[Split(line, Space)[2][1]])
      /\ ParseResponse(text).body = BodyOf(t)
  <2>1. PICK first : first = Passed(t)
    OBVIOUS
  <2>2. first = Cat(line, Cat(Space, <<>>)) /\ Occurrences(first, CRLF) = {} /\ text = Message(first, HeadersOf(t), BodyOf(t))
    BY <1>2, <1>4, <2>1
  <2>3. Len(Split(line, Space)[2]) = 1 /\ IsNumber(Split(line, Space)[2][1])
    BY <1>5, <1>6
  <2> QED BY <1>3, <1>6, <1>7, <1>8, <2>2, <2>3, ResponseRead
<1>10. ParseResponse(t).status = IntToResponseCode(NumberOf[FirstLine(t)[2][1]])
  BY DEF ParseResponse
<1> QED
  BY <1>5, <1>9, <1>10

\* The lines after the first are those of the headers.
LEMMA HeadersAreLines ==
  ASSUME NEW t \in Text, HeadersAreValid(t), NEW line \in Text, NEW more \in Seq(Text),
         NEW last \in Text, Lines(t) = Append(<<line>> \o more, last)
  PROVE  /\ Lines(t)[1] = line
         /\ HeadersOf(t) \in Seq(Fields) /\ Len(HeadersOf(t)) = Len(more) + 1 /\ Len(more) \in Nat
         /\ \A k \in 1..Len(more) : LineOf(HeadersOf(t)[k]) = more[k]
         /\ LineOf(HeadersOf(t)[Len(more) + 1]) = last
<1>1. PICK n \in Nat, lines \in Seq(Text), longer \in Seq(Text), after \in Seq(Text) :
        /\ n = Len(more) /\ lines = Lines(t) /\ longer = <<line>> \o more
        /\ after = Append(more, last)
  <2>1. Lines(t) \in Seq(Text)
    BY LinesType
  <2>2. <<line>> \o more \in Seq(Text)
    BY ConsElements
  <2>3. Append(more, last) \in Seq(Text) /\ Len(more) \in Nat
    BY AppendProperties
  <2> QED BY <2>1, <2>2, <2>3, Zenon
<1>2. Len(longer) = n + 1 /\ \A k \in 1..n : longer[k + 1] = more[k]
  <2>1. /\ Len(<<line>> \o more) = Len(more) + 1
        /\ \A j \in 1..Len(more) : (<<line>> \o more)[j + 1] = more[j]
    BY ConsElements
  <2> QED BY <1>1, <2>1, Zenon
<1>3. /\ Len(after) = n + 1 /\ after[n + 1] = last
      /\ \A k \in 1..n : after[k] = more[k]
  <2>1. /\ Len(Append(more, last)) = Len(more) + 1
        /\ Append(more, last)[Len(more) + 1] = last
        /\ \A k \in 1..Len(more) : Append(more, last)[k] = more[k]
    BY AppendProperties
  <2> QED BY <1>1, <2>1, Zenon
<1>4. /\ Len(lines) = (n + 1) + 1 /\ lines[(n + 1) + 1] = last
      /\ \A k \in 1..(n + 1) : lines[k] = longer[k]
  <2>1. /\ Len(Append(longer, last)) = Len(longer) + 1
        /\ Append(longer, last)[Len(longer) + 1] = last
        /\ \A k \in 1..Len(longer) : Append(longer, last)[k] = longer[k]
    BY AppendProperties
  <2> QED BY <1>1, <1>2, <2>1, Zenon
<1>5. \A k \in 1..(n + 1) : lines[k + 1] = after[k]
  <2> TAKE k \in 1..(n + 1)
  <2>1. CASE k = n + 1
    BY <1>3, <1>4, <2>1
  <2>2. CASE k # n + 1
    <3>1. k \in 1..n /\ k + 1 \in 1..(n + 1)
      BY <2>2
    <3> QED BY <1>2, <1>3, <1>4, <3>1
  <2> QED BY <2>1, <2>2
<1>6. PICK headers \in Seq(Fields) :
        /\ headers = HeadersOf(t) /\ Len(headers) = n + 1
        /\ \A k \in 1..(n + 1) : headers[k] = HeaderOf(after[k])
  <2>1. /\ HeadersOf(t) \in Seq(Fields)
        /\ Len(HeadersOf(t)) = Len(Lines(t)) - 1
        /\ \A k \in 1..Len(HeadersOf(t)) : HeadersOf(t)[k] = HeaderOf(Lines(t)[k + 1])
    BY HeadersType
  <2>2. Len(HeadersOf(t)) = n + 1
    BY <1>1, <1>4, <2>1
  <2> QED BY <1>1, <1>5, <2>1, <2>2, Zenon
<1>7. \A k \in 1..(n + 1) : FindIn(after[k], ColonSpace) # 0
  <2> TAKE k \in 1..(n + 1)
  <2>1. lines # <<>>
    BY <1>4, EmptySeq
  <2>2. Tail(lines) \in Seq(Text) /\ Len(Tail(lines)) = Len(lines) - 1
        /\ \A j \in 1..Len(Tail(lines)) : Tail(lines)[j] = lines[j + 1]
    BY <2>1, HeadTailProperties
  <2>3. k \in 1..Len(Tail(lines))
    BY <1>4, <2>2
  <2>4. after[k] = Tail(lines)[k] /\ k \in DOMAIN Tail(lines)
    BY <1>5, <2>2, <2>3
  <2>5. after[k] \in ToSet(Tail(lines))
    BY <2>4, Zenon DEF ToSet
  <2> QED BY <1>1, <2>5, Zenon DEF HeadersAreValid
<1>8. \A k \in 1..(n + 1) : LineOf(headers[k]) = after[k]
  <2> TAKE k \in 1..(n + 1)
  <2>1. PICK l \in Text : l = after[k]
    BY <1>1, <1>3
  <2>2. l = HeaderOf(l).key \o ColonSpace \o HeaderOf(l).value
    BY <1>7, <2>1, HeaderOfLine
  <2>3. LineOf(HeaderOf(l)) = l
    BY <2>2, Zenon DEF LineOf, Cat
  <2> QED BY <1>6, <2>1, <2>3, Zenon
<1>9. lines[1] = line
  <2>1. (<<line>> \o more)[1] = line
    BY ConsElements
  <2>2. 1 \in 1..(n + 1)
    OBVIOUS
  <2> QED BY <1>1, <1>4, <2>1, <2>2, Zenon
<1>10. \A k \in 1..n : LineOf(headers[k]) = more[k]
  <2> TAKE k \in 1..n
  <2>1. k \in 1..(n + 1)
    OBVIOUS
  <2> QED BY <1>3, <1>8, <2>1, Zenon
<1>11. LineOf(headers[n + 1]) = last
  <2>1. n + 1 \in 1..(n + 1)
    OBVIOUS
  <2> QED BY <1>3, <1>8, <2>1, Zenon
<1> QED
  BY <1>1, <1>6, <1>9, <1>10, <1>11

\* They are written as they were read.
LEMMA LinesOfHeaders ==
  ASSUME NEW t \in Text, HeadersAreValid(t), NEW line \in Text, NEW more \in Seq(Text),
         NEW last \in Text, Lines(t) = Append(<<line>> \o more, last)
  PROVE  HeaderText(HeadersOf(t)) = Cat(Printed(more), Cat(last, CRLF))
<1>1. PICK n \in Nat, headers \in Seq(Fields) :
        /\ n = Len(more) /\ headers = HeadersOf(t) /\ Len(headers) = n + 1
        /\ \A k \in 1..n : LineOf(headers[k]) = more[k]
        /\ LineOf(headers[n + 1]) = last
  BY HeadersAreLines
<1>2. PICK after \in Seq(Text) :
        /\ after = Append(more, last) /\ Len(after) = n + 1 /\ after[n + 1] = last
        /\ \A k \in 1..n : after[k] = more[k]
  <2>1. /\ Append(more, last) \in Seq(Text) /\ Len(Append(more, last)) = Len(more) + 1
        /\ Append(more, last)[Len(more) + 1] = last
        /\ \A k \in 1..Len(more) : Append(more, last)[k] = more[k]
    BY AppendProperties
  <2> QED BY <1>1, <2>1, Zenon
<1>3. PICK printed \in Seq(Text) :
        /\ printed = HeaderLines(headers) /\ Len(printed) = n + 1
        /\ \A k \in 1..(n + 1) : printed[k] = LineOf(headers[k])
  <2>1. /\ HeaderLines(headers) \in Seq(Text)
        /\ Len(HeaderLines(headers)) = Len(headers)
        /\ \A k \in 1..Len(headers) : HeaderLines(headers)[k] = LineOf(headers[k])
    BY HeadersPrinted
  <2> QED BY <1>1, <2>1, Zenon
<1>4. \A k \in 1..(n + 1) : printed[k] = after[k]
  <2> TAKE k \in 1..(n + 1)
  <2>1. CASE k = n + 1
    BY <1>1, <1>2, <1>3, <2>1
  <2>2. CASE k # n + 1
    <3>1. k \in 1..n
      BY <2>2
    <3> QED BY <1>1, <1>2, <1>3, <3>1
  <2> QED BY <2>1, <2>2
<1>5. printed = after
  BY <1>2, <1>3, <1>4, SeqEqual
<1>6. HeaderText(headers) = Printed(HeaderLines(headers))
  BY HeadersPrinted
<1>7. Printed(Append(more, last)) = Cat(Printed(more), Cat(last, CRLF))
  BY PrintedAppend
<1> QED
  BY <1>1, <1>2, <1>3, <1>5, <1>6, <1>7, Zenon

\* How the parts lie in a text that is Cat(head, Cat(middle, tail)): the mark
\* cr begins the tail, at the position end.
Lie(t, head, middle, tail, cr, end) ==
  /\ SubSeq(t, 1, end) = Cat(head, Cat(middle, cr))
  /\ SubSeq(t, 1, Len(head)) = head
  /\ SubSeq(t, Len(head) + 1, end) = Cat(middle, cr)
  /\ SubSeq(t, end + 1, end) = <<>>
  /\ SubSeq(t, end, Len(t)) = tail

\* Where the parts of a message lie.
LEMMA PartsLie ==
  ASSUME NEW head \in Text, NEW middle \in Text, NEW cr \in Text, NEW lf \in Text, NEW crlf \in Text,
         NEW body \in Text, Len(cr) = 1, crlf = Cat(cr, lf)
  PROVE  Lie(Cat(head, Cat(middle, Cat(crlf, Cat(crlf, body)))), head, middle, Cat(crlf, Cat(crlf, body)),
             cr, Len(head) + Len(middle) + 1)
<1>0. PICK t \in Text, end \in Nat :
        /\ t = Cat(head, Cat(middle, Cat(crlf, Cat(crlf, body)))) /\ end = Len(head) + Len(middle) + 1
  <2>1. PICK rest \in Text : rest = Cat(crlf, body)
    BY CatsAssociate
  <2>2. PICK tail \in Text : tail = Cat(crlf, rest)
    BY CatsAssociate
  <2>3. PICK more \in Text : more = Cat(middle, tail)
    BY CatsAssociate
  <2>4. Cat(head, more) \in Text
    BY CatsAssociate
  <2>5. Len(head) + Len(middle) + 1 \in Nat
    <3>1. Len(head) \in Nat /\ Len(middle) \in Nat
      BY DEF Text
    <3> QED BY <3>1
  <2> QED BY <2>1, <2>2, <2>3, <2>4, <2>5
<1>1. PICK rest \in Text, tail \in Text, more \in Text, left \in Text, marked \in Text, both \in Text :
        /\ rest = Cat(crlf, body) /\ tail = Cat(crlf, rest) /\ more = Cat(middle, tail)
        /\ left = Cat(head, middle) /\ marked = Cat(middle, cr) /\ both = Cat(head, marked)
  <2>1. PICK rest \in Text : rest = Cat(crlf, body)
    BY CatsAssociate
  <2>2. PICK tail \in Text : tail = Cat(crlf, rest)
    BY CatsAssociate
  <2>3. PICK marked \in Text : marked = Cat(middle, cr)
    BY CatsAssociate
  <2> QED BY <2>1, <2>2, <2>3, CatsAssociate
<1>2. PICK after \in Text : after = Cat(lf, rest) /\ tail = Cat(cr, after)
  <2>1. Cat(Cat(cr, lf), rest) = Cat(cr, Cat(lf, rest))
    BY CatsAssociate
  <2> QED BY <1>1, <2>1, CatsAssociate
<1>3. t = Cat(head, more) /\ t = Cat(left, tail) /\ t = Cat(both, after) /\ t = Cat(head, Cat(marked, after))
  <2>1. t = Cat(head, more)
    BY <1>0, <1>1
  <2>2. Cat(Cat(head, middle), tail) = Cat(head, Cat(middle, tail))
    BY CatsAssociate
  <2>3. Cat(Cat(middle, cr), after) = Cat(middle, Cat(cr, after))
    BY CatsAssociate
  <2>4. Cat(Cat(head, marked), after) = Cat(head, Cat(marked, after))
    BY CatsAssociate
  <2> QED BY <1>1, <1>2, <2>1, <2>2, <2>3, <2>4, Zenon
<1>4. PICK h \in Nat, m \in Nat, n \in Nat :
        /\ h = Len(head) /\ m = Len(middle) /\ n = Len(tail) /\ Len(left) = h + m
        /\ Len(marked) = m + 1 /\ Len(both) = h + (m + 1) /\ Len(t) = (h + m) + n
  <2>1. /\ Len(head) \in Nat /\ Len(middle) \in Nat /\ Len(tail) \in Nat
        /\ Len(Cat(head, middle)) = Len(head) + Len(middle)
        /\ Len(Cat(middle, cr)) = Len(middle) + Len(cr)
        /\ Len(Cat(head, marked)) = Len(head) + Len(marked)
        /\ Len(Cat(left, tail)) = Len(left) + Len(tail)
    BY CatElements
  <2> QED BY <1>1, <1>3, <2>1
<1>5. SubSeq(t, 1, end) = both
  <2>1. SubSeq(both \o after, 1, Len(both)) = both
    BY ConcatParts DEF Text
  <2>2. Len(both) = end
    BY <1>0, <1>4
  <2> QED BY <1>3, <2>1, <2>2 DEF Cat
<1>6. SubSeq(t, 1, Len(head)) = head
  <2>1. SubSeq(head \o more, 1, Len(head)) = head
    BY ConcatParts DEF Text
  <2> QED BY <1>3, <2>1 DEF Cat
<1>7. SubSeq(t, Len(head) + 1, end) = marked
  <2>1. IsInside(head, marked, after)
    BY OccurrenceInside
  <2>2. SubSeq(t, Len(head) + 1, Len(head) + Len(marked)) = marked
    BY <1>3, <2>1, Zenon DEF IsInside
  <2>3. Len(head) + Len(marked) = end
    BY <1>0, <1>4
  <2> QED BY <2>2, <2>3
<1>8. SubSeq(t, end + 1, end) = <<>>
  OBVIOUS
<1>9. SubSeq(t, end, Len(t)) = tail
  <2>1. SubSeq(left \o tail, Len(left) + 1, Len(left) + Len(tail)) = tail
    BY ConcatParts DEF Text
  <2>2. Len(left) + 1 = end /\ Len(left) + Len(tail) = Len(t)
    BY <1>0, <1>4
  <2> QED BY <1>3, <2>1, <2>2 DEF Cat
<1>10. Lie(t, head, middle, tail, cr, end)
  <2>1. both = Cat(head, Cat(middle, cr)) /\ marked = Cat(middle, cr)
    BY <1>1
  <2> QED BY <1>5, <1>6, <1>7, <1>8, <1>9, <2>1, Zenon DEF Lie
<1> QED
  BY <1>0, <1>1, <1>10, Zenon
=============================================================================
