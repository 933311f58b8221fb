--------------------------- MODULE SequenceLemmas ---------------------------
(***************************************************************************)
(* What the modules with proofs need to know of smallest numbers and of    *)
(* sequences, beyond the theorems of the library.  The theorems on         *)
(* induction take an operator as a parameter; here the smallest            *)
(* counterexample is named instead.                                        *)
(***************************************************************************)
EXTENDS Integers, Sequences, SequencesExt, FiniteSetsExt, SequenceTheorems,
        WellFoundedInduction, TLAPS

-----------------------------------------------------------------------------
\* A set of natural numbers has a smallest one.
LEMMA MinIsLeast ==
  ASSUME NEW S \in SUBSET Nat, S # {}
  PROVE  Min(S) \in S /\ \A k \in S : Min(S) <= k
<1> DEFINE Less == {pair \in Nat \X Nat : pair[1] < pair[2]}
<1>1. IsWellFoundedOn(Less, Nat)
  BY NatLessThanWellFounded, Zenon DEF OpToRel
<1>2. PICK least \in S : \A k \in S : ~ (<<k, least>> \in Less)
  <2> HIDE DEF Less
  <2> QED BY <1>1, WFMin
<1>3. ASSUME NEW k \in S
      PROVE  least <= k
  <2>1. k \in Nat /\ least \in Nat
    OBVIOUS
  <2>2. k < least => <<k, least>> \in Less
    BY <2>1
  <2> QED
    BY <1>2, <2>1, <2>2
<1> QED
  BY <1>3 DEF Min

\* Among bounded ones there is a largest.
LEMMA LargestExists ==
  ASSUME NEW n \in Nat, NEW S \in SUBSET (0..n), S # {}
  PROVE  \E m \in S : \A k \in S : k <= m
<1> DEFINE Gaps == {n - k : k \in S}
<1>1. Gaps \in SUBSET Nat /\ Gaps # {}
  <2>1. ASSUME NEW k \in S
        PROVE  n - k \in Nat
    BY k \in 0..n
  <2>2. PICK k \in S : TRUE
    OBVIOUS
  <2>3. n - k \in Gaps
    BY <2>2
  <2> QED
    BY <2>1, <2>3, Zenon
<1>2. Min(Gaps) \in Gaps /\ \A g \in Gaps : Min(Gaps) <= g
  BY <1>1, MinIsLeast
<1>3. PICK m \in S : Min(Gaps) = n - m
  BY <1>2
<1>4. ASSUME NEW k \in S
      PROVE  k <= m
  <2>1. n - k \in Gaps /\ k \in Nat /\ m \in Nat
    OBVIOUS
  <2>2. n - m <= n - k
    BY <1>2, <1>3, <2>1
  <2> QED
    BY <2>1, <2>2
<1> QED
  BY <1>4

-----------------------------------------------------------------------------
\* Concatenation and parts, in the form the proofs use them

LEMMA ConcatElements ==
  ASSUME NEW S, NEW s \in Seq(S), NEW t \in Seq(S)
  PROVE  /\ s \o t \in Seq(S)
         /\ Len(s \o t) = Len(s) + Len(t)
         /\ Len(s) \in Nat /\ Len(t) \in Nat
         /\ \A k \in 1..Len(s) : (s \o t)[k] = s[k]
         /\ \A k \in 1..Len(t) : (s \o t)[Len(s) + k] = t[k]
<1>1. Len(s) \in Nat /\ Len(t) \in Nat
  OBVIOUS
<1>2. /\ s \o t \in Seq(S)
      /\ Len(s \o t) = Len(s) + Len(t)
      /\ \A k \in 1..(Len(s) + Len(t)) :
           (s \o t)[k] = IF k <= Len(s) THEN s[k] ELSE t[k - Len(s)]
  BY ConcatProperties
<1>3. ASSUME NEW k \in 1..Len(t)
      PROVE  (s \o t)[Len(s) + k] = t[k]
  <2>1. Len(s) + k \in 1..(Len(s) + Len(t)) /\ ~ (Len(s) + k <= Len(s)) /\ (Len(s) + k) - Len(s) = k
    BY <1>1
  <2> QED
    BY <1>2, <2>1
<1>4. ASSUME NEW k \in 1..Len(s)
      PROVE  (s \o t)[k] = s[k]
  BY <1>1, <1>2
<1> QED
  BY <1>1, <1>2, <1>3, <1>4

LEMMA PartElements ==
  ASSUME NEW S, NEW s \in Seq(S), NEW m \in 1..(Len(s) + 1), NEW n \in (m - 1)..Len(s)
  PROVE  /\ SubSeq(s, m, n) \in Seq(S)
         /\ Len(SubSeq(s, m, n)) = n - m + 1
         /\ \A k \in 1..(n - m + 1) : SubSeq(s, m, n)[k] = s[m + k - 1]
<1>1. Len(s) \in Nat /\ m \in Int /\ n \in Int
  OBVIOUS
<1>2. \A k \in m..n : s[k] \in S
  BY <1>1
<1> QED
  BY <1>1, <1>2, SubSeqProperties

\* A concatenation is taken apart again.
LEMMA ConcatParts ==
  ASSUME NEW S, NEW s \in Seq(S), NEW t \in Seq(S)
  PROVE  /\ Len(s) \in Nat /\ Len(t) \in Nat
         /\ SubSeq(s \o t, 1, Len(s)) = s
         /\ SubSeq(s \o t, Len(s) + 1, Len(s) + Len(t)) = t
<1>1. PICK both \in Seq(S) :
        /\ both = s \o t
        /\ Len(both) = Len(s) + Len(t)
        /\ \A k \in 1..Len(s) : both[k] = s[k]
        /\ \A k \in 1..Len(t) : both[Len(s) + k] = t[k]
  <2>1. /\ s \o t \in Seq(S)
        /\ Len(s \o t) = Len(s) + Len(t)
        /\ \A k \in 1..Len(s) : (s \o t)[k] = s[k]
        /\ \A k \in 1..Len(t) : (s \o t)[Len(s) + k] = t[k]
    BY ConcatElements
  <2> QED BY <2>1, Zenon
<1>2. PICK m \in Nat, n \in Nat : m = Len(s) /\ n = Len(t)
  OBVIOUS
<1>3. SubSeq(both, 1, m) = s
  <2>1. PICK one \in 1..(Len(both) + 1) : one = 1 /\ m \in (one - 1)..Len(both)
    BY <1>1, <1>2
  <2>2. /\ SubSeq(both, one, m) \in Seq(S)
        /\ Len(SubSeq(both, one, m)) = m - one + 1
        /\ \A k \in 1..(m - one + 1) : SubSeq(both, one, m)[k] = both[one + k - 1]
    BY <2>1, PartElements
  <2>3. m - one + 1 = m /\ \A k \in 1..m : one + k - 1 = k
    BY <2>1
  <2>4. \A k \in 1..m : SubSeq(both, one, m)[k] = s[k]
    BY <1>1, <1>2, <2>2, <2>3
  <2> QED BY <1>2, <2>1, <2>2, <2>3, <2>4, SeqEqual
<1>4. SubSeq(both, m + 1, m + n) = t
  <2>1. PICK from \in 1..(Len(both) + 1) :
          from = m + 1 /\ m + n \in (from - 1)..Len(both)
    BY <1>1, <1>2
  <2>2. PICK end \in (from - 1)..Len(both) : end = m + n
    BY <2>1
  <2>3. /\ SubSeq(both, from, end) \in Seq(S)
        /\ Len(SubSeq(both, from, end)) = end - from + 1
        /\ \A k \in 1..(end - from + 1) : SubSeq(both, from, end)[k] = both[from + k - 1]
    BY <2>1, PartElements
  <2>4. end - from + 1 = n /\ \A k \in 1..n : from + k - 1 = m + k
    BY <2>1, <2>2
  <2>5. \A k \in 1..n : SubSeq(both, from, end)[k] = t[k]
    BY <1>1, <1>2, <2>3, <2>4
  <2> QED BY <1>2, <2>1, <2>2, <2>3, <2>4, <2>5, SeqEqual
<1> QED
  BY <1>1, <1>2, <1>3, <1>4

-----------------------------------------------------------------------------
\* FlattenSeq

\* The recursion that FlattenSeq is defined by has a solution.
LEMMA FlattenDefined ==
  ASSUME NEW seqs, Len(seqs) \in Nat
  PROVE  \E f : f = [k \in 1..Len(seqs) |-> IF k = 1 THEN seqs[k] ELSE f[k - 1] \o seqs[k]]
<1> DEFINE IsFlat(n, f) == f = [k \in 1..n |-> IF k = 1 THEN seqs[k] ELSE f[k - 1] \o seqs[k]]
           Without == {n \in Nat : ~ \E f : IsFlat(n, f)}
           least == Min(Without)
<1>1. ASSUME Without # {}
      PROVE  FALSE
  <2>1. Without \in SUBSET Nat
    OBVIOUS
  <2>2. least \in Without /\ \A k \in Without : least <= k
    BY <1>1, <2>1, MinIsLeast
  <2>3. least \in Nat /\ ~ \E f : IsFlat(least, f)
    BY <2>2
  <2> HIDE DEF least
  <2>4. least # 0
    <3>1. IsFlat(0, <<>>)
      BY 1..0 = {}
    <3> QED BY <2>3, <3>1, Zenon
  <2>5. PICK f : IsFlat(least - 1, f)
    <3>1. least - 1 \in Nat /\ ~ (least <= least - 1)
      BY <2>3, <2>4
    <3>2. least - 1 \notin Without
      BY <2>2, <3>1
    <3> QED BY <3>1, <3>2
  <2> DEFINE g == [k \in 1..least |-> IF k = 1 THEN seqs[k] ELSE f[k - 1] \o seqs[k]]
  <2>6. ASSUME NEW k \in 1..(least - 1)
        PROVE  g[k] = f[k]
    <3>1. k \in 1..least
      BY <2>3
    <3> QED BY <2>5, <3>1
  <2>7. \A k \in 1..least : g[k] = IF k = 1 THEN seqs[k] ELSE g[k - 1] \o seqs[k]
    <3>1. ASSUME NEW k \in 1..least, k # 1
          PROVE  g[k - 1] = f[k - 1]
      <4>1. k - 1 \in 1..(least - 1)
        BY <2>3, <3>1
      <4> QED BY <2>6, <4>1
    <3> QED BY <3>1
  <2>8. IsFlat(least, g)
    BY <2>7
  <2> QED BY <2>3, <2>8
<1> QED
  BY <1>1

LEMMA FlattenEmpty == FlattenSeq(<<>>) = <<>>
BY DEF FlattenSeq

\* FlattenSeq ends in the last of the concatenations that begin with the first
\* sequence.
LEMMA FlattenUnfold ==
  ASSUME NEW seqs, Len(seqs) \in Nat, Len(seqs) # 0
  PROVE  \E f : /\ FlattenSeq(seqs) = f[Len(seqs)]
                /\ f[1] = seqs[1]
                /\ \A k \in 2..Len(seqs) : f[k] = f[k - 1] \o seqs[k]
<1> DEFINE F(f) == f = [k \in 1..Len(seqs) |-> IF k = 1 THEN seqs[k] ELSE f[k - 1] \o seqs[k]]
           f == CHOOSE f : F(f)
<1>1. F(f)
  BY FlattenDefined
<1>2. FlattenSeq(seqs) = f[Len(seqs)]
  BY DEF FlattenSeq
<1> HIDE DEF f
<1>3. \A k \in 1..Len(seqs) : f[k] = IF k = 1 THEN seqs[k] ELSE f[k - 1] \o seqs[k]
  BY <1>1
<1>4. 1 \in 1..Len(seqs) /\ \A k \in 2..Len(seqs) : k \in 1..Len(seqs) /\ k # 1
  OBVIOUS
<1>5. f[1] = seqs[1]
  BY <1>3, <1>4
<1>6. \A k \in 2..Len(seqs) : f[k] = f[k - 1] \o seqs[k]
  BY <1>3, <1>4
<1> QED
  BY <1>2, <1>5, <1>6

\* All but the last, then the last.
LEMMA FlattenAppend ==
  ASSUME NEW S, NEW seqs \in Seq(Seq(S)), NEW last \in Seq(S)
  PROVE  FlattenSeq(Append(seqs, last)) = FlattenSeq(seqs) \o last
<1>1. PICK n \in Nat : n = Len(seqs)
  OBVIOUS
<1>2. PICK longer \in Seq(Seq(S)) : longer = Append(seqs, last)
  <2>1. Append(seqs, last) \in Seq(Seq(S))
    BY AppendProperties
  <2> QED BY <2>1
<1>3. Len(longer) = n + 1 /\ longer[n + 1] = last /\ \A k \in 1..n : longer[k] = seqs[k]
  BY <1>1, <1>2
<1>4. PICK g : /\ FlattenSeq(longer) = g[n + 1]
               /\ g[1] = longer[1]
               /\ \A k \in 2..(n + 1) : g[k] = g[k - 1] \o longer[k]
  <2>1. Len(longer) \in Nat /\ Len(longer) # 0
    BY <1>3
  <2>2. \E g : /\ FlattenSeq(longer) = g[Len(longer)]
              /\ g[1] = longer[1]
              /\ \A k \in 2..Len(longer) : g[k] = g[k - 1] \o longer[k]
    BY <2>1, FlattenUnfold
  <2> QED BY <1>3, <2>2
<1>5. CASE n = 0
  <2>1. seqs = <<>>
    BY <1>1, <1>5, EmptySeq
  <2>3. <<>> \o last = last
    BY ConcatEmptySeq
  <2>2. FlattenSeq(longer) = last
    BY <1>3, <1>4, <1>5
  <2> QED BY <1>2, <2>1, <2>2, <2>3, FlattenEmpty
<1>6. CASE n # 0
  <2>1. PICK f : /\ FlattenSeq(seqs) = f[n]
                 /\ f[1] = seqs[1]
                 /\ \A k \in 2..n : f[k] = f[k - 1] \o seqs[k]
    BY <1>1, <1>6, FlattenUnfold
  <2> DEFINE Differ == {k \in 1..n : f[k] # g[k]}
             least == Min(Differ)
  <2>2. ASSUME Differ # {}
        PROVE  FALSE
    <3>1. Differ \in SUBSET Nat
      OBVIOUS
    <3>2. least \in Differ /\ \A k \in Differ : least <= k
      BY <2>2, <3>1, MinIsLeast
    <3>3. least \in 1..n /\ f[least] # g[least]
      BY <3>2
    <3> HIDE DEF least
    <3>4. CASE least = 1
      BY <1>3, <1>4, <2>1, <3>3, <3>4
    <3>5. CASE least # 1
      <4>1. least - 1 \in 1..n /\ ~ (least <= least - 1) /\ least \in 2..n /\ least \in 2..(n + 1)
        BY <3>3, <3>5
      <4>2. f[least - 1] = g[least - 1]
        BY <3>2, <4>1
      <4>3. f[least] = f[least - 1] \o seqs[least] /\ g[least] = g[least - 1] \o longer[least]
        BY <1>4, <2>1, <4>1
      <4> QED BY <1>3, <3>3, <4>2, <4>3
    <3> QED BY <3>4, <3>5
  <2>3. f[n] = g[n]
    <3>1. n \in 1..n
      BY <1>6
    <3> QED BY <2>2, <3>1, Zenon
  <2>4. g[n + 1] = g[n] \o last
    <3>1. n + 1 \in 2..(n + 1) /\ (n + 1) - 1 = n
      BY <1>6
    <3> QED BY <1>3, <1>4, <3>1
  <2> QED BY <1>2, <1>4, <2>1, <2>3, <2>4
<1> QED
  BY <1>5, <1>6

LEMMA FlattenOne ==
  ASSUME NEW S, NEW s \in Seq(S)
  PROVE  FlattenSeq(<<s>>) = s
<1>1. FlattenSeq(Append(<<>>, s)) = FlattenSeq(<<>>) \o s
  <2> DEFINE e == <<>>
  <2>1. e \in Seq(Seq(S))
    OBVIOUS
  <2> HIDE DEF e
  <2>2. FlattenSeq(Append(e, s)) = FlattenSeq(e) \o s
    BY <2>1, FlattenAppend
  <2> QED BY <2>2 DEF e
<1>2. Append(<<>>, s) = <<s>> /\ <<>> \o s = s
  OBVIOUS
<1> QED
  BY <1>1, <1>2, FlattenEmpty

LEMMA FlattenType ==
  ASSUME NEW S, NEW seqs \in Seq(Seq(S))
  PROVE  FlattenSeq(seqs) \in Seq(S)
<1> DEFINE Untyped == {n \in Nat : \E ss \in Seq(Seq(S)) : Len(ss) = n /\ FlattenSeq(ss) \notin Seq(S)}
           least == Min(Untyped)
<1>1. ASSUME Untyped # {}
      PROVE  FALSE
  <2>1. Untyped \in SUBSET Nat
    OBVIOUS
  <2>2. least \in Untyped /\ \A k \in Untyped : least <= k
    BY <1>1, <2>1, MinIsLeast
  <2>3. PICK ss \in Seq(Seq(S)) : Len(ss) = least /\ FlattenSeq(ss) \notin Seq(S)
    BY <2>2
  <2>4. ss # <<>>
    BY <2>3, FlattenEmpty
  <2>5. PICK front \in Seq(Seq(S)), last \in Seq(S) : ss = Append(front, last)
    BY <2>4, SequenceEmptyOrAppend
  <2>6. Len(front) \in Nat /\ ~ (least <= Len(front))
    <3>1. Len(ss) = Len(front) + 1 /\ Len(front) \in Nat
      BY <2>5
    <3> QED BY <2>3, <3>1
  <2>7. FlattenSeq(front) \in Seq(S)
    BY <2>2, <2>6
  <2>8. FlattenSeq(ss) = FlattenSeq(front) \o last
    BY <2>5, FlattenAppend
  <2> QED BY <2>3, <2>7, <2>8
<1>2. Len(seqs) \in Nat
  OBVIOUS
<1> QED
  BY <1>1, <1>2

\* The first, then the others.
LEMMA FlattenCons ==
  ASSUME NEW S, NEW first \in Seq(S), NEW seqs \in Seq(Seq(S))
  PROVE  FlattenSeq(<<first>> \o seqs) = first \o FlattenSeq(seqs)
<1> DEFINE Holds(ss) == FlattenSeq(<<first>> \o ss) = first \o FlattenSeq(ss)
           Broken == {n \in Nat : \E ss \in Seq(Seq(S)) : Len(ss) = n /\ ~ Holds(ss)}
           least == Min(Broken)
<1>1. ASSUME Broken # {}
      PROVE  FALSE
  <2>1. Broken \in SUBSET Nat
    OBVIOUS
  <2>2. least \in Broken /\ \A k \in Broken : least <= k
    BY <1>1, <2>1, MinIsLeast
  <2>3. PICK ss \in Seq(Seq(S)) : Len(ss) = least /\ ~ Holds(ss)
    BY <2>2
  <2> HIDE DEF least
  <2>4. ss # <<>>
    <3>1. <<first>> \o <<>> = <<first>> /\ first \o <<>> = first
      OBVIOUS
    <3>2. Holds(<<>>)
      BY <3>1, FlattenEmpty, FlattenOne
    <3> QED BY <2>3, <3>2
  <2>5. PICK front \in Seq(Seq(S)), last \in Seq(S) : ss = Append(front, last)
    BY <2>4, SequenceEmptyOrAppend
  <2>6. Len(front) \in Nat /\ ~ (least <= Len(front))
    <3>1. Len(ss) = Len(front) + 1 /\ Len(front) \in Nat
      BY <2>5
    <3> QED BY <2>3, <3>1
  <2>7. Holds(front)
    BY <2>2, <2>6
  <2>8. FlattenSeq(ss) = FlattenSeq(front) \o last /\ FlattenSeq(front) \in Seq(S)
    BY <2>5, FlattenAppend, FlattenType
  <2>9. <<first>> \o ss = Append(<<first>> \o front, last) /\ <<first>> \o front \in Seq(Seq(S))
    <3>1. <<first>> \in Seq(Seq(S))
      OBVIOUS
    <3> DEFINE one == <<first>>
    <3> HIDE DEF one
    <3>2. one \o Append(front, last) = Append(one \o front, last) /\ one \o front \in Seq(Seq(S))
      BY <3>1 DEF one
    <3> QED BY <2>5, <3>2 DEF one
  <2>10. FlattenSeq(<<first>> \o ss) = FlattenSeq(<<first>> \o front) \o last
    BY <2>9, FlattenAppend
  <2>11. FlattenSeq(<<first>> \o ss) = (first \o FlattenSeq(front)) \o last
    BY <2>7, <2>10
  <2>12. (first \o FlattenSeq(front)) \o last = first \o (FlattenSeq(front) \o last)
    BY <2>8, ConcatAssociative
  <2> QED BY <2>3, <2>8, <2>11, <2>12
<1>2. Len(seqs) \in Nat
  OBVIOUS
<1> QED
  BY <1>1, <1>2
=============================================================================
