------------------------------ MODULE QueueLemmas ----------------------------
(***************************************************************************)
(* Lemmas about queues and other sequences: what is in one after a push    *)
(* and after a pop, and that both keep it in order; an entry taken out of  *)
(* the middle; sequences put together.                                     *)
(***************************************************************************)
EXTENDS Queues, SequencesExt, WellFoundedInduction, TLAPS

LEMMA RangeInside ==
    ASSUME NEW S, NEW s \in Seq(S)
    PROVE  Range(s) \subseteq S
BY DEF Range

LEMMA RangeEmpty == Range(<<>>) = {}
BY DEF Range

LEMMA RangePushed ==
    ASSUME NEW S, NEW s \in Seq(S), NEW e \in S
    PROVE  /\ Append(s, e) \in Seq(S)
           /\ Range(Append(s, e)) = Range(s) \cup {e}
<1>1. /\ DOMAIN Append(s, e) = 1 .. Len(s) + 1
      /\ \A i \in 1 .. Len(s) : Append(s, e)[i] = s[i]
      /\ Append(s, e)[Len(s) + 1] = e
      /\ Len(s) \in Nat
  OBVIOUS
<1>2. 1 .. Len(s) + 1 = (1 .. Len(s)) \cup {Len(s) + 1}
  BY <1>1
<1> QED BY <1>1, <1>2 DEF Range

LEMMA RangePopped ==
    ASSUME NEW S, NEW s \in Seq(S), s # <<>>
    PROVE  /\ Head(s) \in S /\ Tail(s) \in Seq(S)
           /\ Range(s) = {Head(s)} \cup Range(Tail(s))
<1>1. /\ Head(s) = s[1] /\ Tail(s) \in Seq(S) /\ Len(s) \in Nat \ {0}
      /\ Len(Tail(s)) = Len(s) - 1
      /\ \A i \in 1 .. Len(s) - 1 : Tail(s)[i] = s[i + 1]
  OBVIOUS
<1>2. ASSUME NEW e \in Range(s)
      PROVE  e = Head(s) \/ e \in Range(Tail(s))
  <2>1. PICK i \in 1 .. Len(s) : e = s[i]
    BY <1>2 DEF Range
  <2>2. CASE i = 1
    BY <1>1, <2>1, <2>2
  <2>3. CASE i # 1
    <3>1. i - 1 \in 1 .. Len(s) - 1 /\ (i - 1) + 1 = i
      BY <1>1, <2>1, <2>3
    <3>2. e = Tail(s)[i - 1] /\ i - 1 \in DOMAIN Tail(s)
      BY <1>1, <2>1, <3>1
    <3> QED BY <3>2 DEF Range
  <2> QED BY <2>2, <2>3
<1>3. ASSUME NEW e \in Range(Tail(s))
      PROVE  e \in Range(s)
  <2>1. PICK i \in 1 .. Len(s) - 1 : e = s[i + 1]
    BY <1>1, <1>3 DEF Range
  <2>2. i + 1 \in 1 .. Len(s)
    BY <1>1, <2>1
  <2> QED BY <2>1, <2>2 DEF Range
<1>4. Head(s) \in Range(s) /\ Head(s) \in S
  BY <1>1 DEF Range
<1> QED BY <1>1, <1>2, <1>3, <1>4

LEMMA AscendingPushed ==
    ASSUME NEW S \in SUBSET Int, NEW s \in Seq(S), NEW e \in S, Ascending(s),
           \A f \in Range(s) : f < e
    PROVE  Ascending(Append(s, e))
<1>1. /\ DOMAIN s = 1 .. Len(s) /\ Len(s) \in Nat
      /\ DOMAIN Append(s, e) = 1 .. Len(s) + 1
      /\ \A i \in 1 .. Len(s) : Append(s, e)[i] = s[i]
      /\ Append(s, e)[Len(s) + 1] = e
  OBVIOUS
<1>2. ASSUME NEW i \in 1 .. Len(s) + 1, NEW j \in 1 .. Len(s) + 1, i < j
      PROVE  Append(s, e)[i] < Append(s, e)[j]
  <2>1. i \in 1 .. Len(s) /\ s[i] \in Range(s)
    BY <1>1, <1>2 DEF Range
  <2>2. CASE j = Len(s) + 1
    BY <1>1, <2>1, <2>2
  <2>3. CASE j \in 1 .. Len(s)
    BY <1>1, <1>2, <2>1, <2>3 DEF Ascending
  <2> QED BY <1>1, <1>2, <2>2, <2>3
<1> QED BY <1>1, <1>2 DEF Ascending

LEMMA AscendingPopped ==
    ASSUME NEW S \in SUBSET Int, NEW s \in Seq(S), s # <<>>, Ascending(s)
    PROVE  /\ Ascending(Tail(s))
           /\ \A e \in Range(Tail(s)) : Head(s) < e
<1>1. /\ Head(s) = s[1] /\ Len(s) \in Nat \ {0}
      /\ DOMAIN s = 1 .. Len(s) /\ DOMAIN Tail(s) = 1 .. Len(s) - 1
      /\ \A i \in 1 .. Len(s) - 1 : Tail(s)[i] = s[i + 1]
  OBVIOUS
<1>2. \A i \in 1 .. Len(s) - 1 : i + 1 \in 1 .. Len(s) /\ 1 < i + 1
  BY <1>1
<1>3. 1 \in 1 .. Len(s)
  BY <1>1
<1>4. Ascending(Tail(s))
  <2> SUFFICES ASSUME NEW i \in 1 .. Len(s) - 1, NEW j \in 1 .. Len(s) - 1, i < j
               PROVE  s[i + 1] < s[j + 1]
    BY <1>1 DEF Ascending
  <2>1. i + 1 < j + 1
    BY <1>1
  <2> QED BY <1>1, <1>2, <2>1 DEF Ascending
<1>5. \A e \in Range(Tail(s)) : Head(s) < e
  BY <1>1, <1>2, <1>3 DEF Ascending, Range
<1> QED BY <1>4, <1>5

\* Push and pop of a queue that is not empty may be swapped.
LEMMA PushedPopped ==
    ASSUME NEW S, NEW s \in Seq(S), NEW e \in S, s # <<>>
    PROVE  Tail(Append(s, e)) = Append(Tail(s), e)
OBVIOUS

LEMMA PushedHead ==
    ASSUME NEW S, NEW s \in Seq(S), NEW e \in S
    PROVE  /\ Append(s, e) # <<>>
           /\ s # <<>> => Head(Append(s, e)) = Head(s)
<1>1. Append(s, e) \in Seq(S) /\ Len(Append(s, e)) = Len(s) + 1 /\ Len(s) \in Nat
  OBVIOUS
<1>2. Append(s, e) # <<>>
  BY <1>1
<1>3. s # <<>> => Head(Append(s, e)) = Head(s)
  OBVIOUS
<1> QED BY <1>2, <1>3

LEMMA PushedTwice ==
    ASSUME NEW S, NEW s \in Seq(S), NEW e \in S, NEW f \in S
    PROVE  /\ Append(s, e) \in Seq(S)
           /\ Append(s, e) # <<>>
           /\ s \o <<e, f>> = Append(Append(s, e), f)
<1>1. /\ Append(s, e) \in Seq(S)
      /\ Len(Append(s, e)) = Len(s) + 1
      /\ Len(s) \in Nat
  OBVIOUS
<1>2. Append(s, e) # <<>>
  BY <1>1
<1>3. s \o <<e, f>> = Append(Append(s, e), f)
  OBVIOUS
<1> QED BY <1>1, <1>2, <1>3

\* What joining two sequences gives.
LEMMA Concatenated ==
    ASSUME NEW S, NEW a \in Seq(S), NEW b \in Seq(S)
    PROVE  /\ a \o b \in Seq(S)
           /\ Len(a \o b) = Len(a) + Len(b)
           /\ \A i \in 1 .. Len(a) + Len(b) :
                 (a \o b)[i] = IF i <= Len(a) THEN a[i] ELSE b[i - Len(a)]
OBVIOUS

\* Taking entry h out.
LEMMA Removed ==
    ASSUME NEW S, NEW s \in Seq(S), NEW h \in 1 .. Len(s)
    PROVE  /\ RemoveAt(s, h) \in Seq(S)
           /\ Len(RemoveAt(s, h)) = Len(s) - 1
           /\ DOMAIN RemoveAt(s, h) = 1 .. Len(s) - 1
           /\ \A i \in 1 .. Len(s) - 1 :
                 RemoveAt(s, h)[i] = IF i < h THEN s[i] ELSE s[i + 1]
<1> DEFINE a == SubSeq(s, 1, h - 1)
           b == SubSeq(s, h + 1, Len(s))
<1>1. /\ a \in Seq(S) /\ Len(a) = h - 1
      /\ \A i \in 1 .. h - 1 : a[i] = s[i]
  OBVIOUS
<1>2. /\ b \in Seq(S) /\ Len(b) = Len(s) - h
      /\ \A i \in 1 .. Len(s) - h : b[i] = s[i + h]
  OBVIOUS
<1>3. RemoveAt(s, h) = a \o b
  BY DEF RemoveAt
<1> HIDE DEF a, b
<1>4. /\ a \o b \in Seq(S)
      /\ Len(a \o b) = Len(s) - 1
      /\ DOMAIN (a \o b) = 1 .. Len(s) - 1
      /\ \A i \in 1 .. Len(s) - 1 :
            (a \o b)[i] = IF i < h THEN a[i] ELSE b[i - (h - 1)]
  <2>1. a \o b \in Seq(S) /\ Len(a \o b) = Len(a) + Len(b)
    BY <1>1, <1>2, Concatenated
  <2>2. /\ Len(s) \in Nat /\ h \in Nat \ {0}
        /\ Len(a) + Len(b) = Len(s) - 1
    BY <1>1, <1>2
  <2>3. DOMAIN (a \o b) = 1 .. Len(s) - 1
    BY <2>1, <2>2
  <2>4. ASSUME NEW i \in 1 .. Len(s) - 1
        PROVE  (a \o b)[i] = IF i < h THEN a[i] ELSE b[i - (h - 1)]
    <3>1. i \in 1 .. Len(a) + Len(b) /\ (i <= Len(a) <=> i < h)
      BY <1>1, <2>2
    <3>2. (a \o b)[i] = IF i <= Len(a) THEN a[i] ELSE b[i - Len(a)]
      BY <1>1, <1>2, <3>1, Concatenated
    <3> QED BY <1>1, <3>1, <3>2
  <2> QED BY <2>1, <2>2, <2>3, <2>4
<1>5. ASSUME NEW i \in 1 .. Len(s) - 1
      PROVE  (a \o b)[i] = IF i < h THEN s[i] ELSE s[i + 1]
  <2>1. CASE i < h
    BY <1>1, <1>4, <2>1
  <2>2. CASE ~(i < h)
    <3>1. i - (h - 1) \in 1 .. Len(s) - h /\ (i - (h - 1)) + h = i + 1
      BY <2>2
    <3>2. b[i - (h - 1)] = s[i + 1]
      BY <1>2, <3>1
    <3> QED BY <1>4, <2>2, <3>2
  <2> QED BY <2>1, <2>2
<1> QED BY <1>3, <1>4, <1>5

\* Taking out the first entry that is e, when there is no other.
LEMMA RemovedFirst ==
    ASSUME NEW S, NEW s \in Seq(S), NEW h \in 1 .. Len(s), NEW e, e = s[h],
           \A i \in 1 .. Len(s) : s[i] = e => i = h
    PROVE  RemoveFirst(s, e) = RemoveAt(s, h)
<1> DEFINE I == {i \in 1 .. Len(s) : s[i] = e}
<1>1. I = {h} /\ h \in Nat
  OBVIOUS
<1>2. Min(I) = h
  <2> HIDE DEF I
  <2> QED BY <1>1 DEF Min
<1>3. SelectInSeq(s, LAMBDA v : v = e) = h
  BY <1>1, <1>2 DEF SelectInSeq
<1>4. \E i \in 1 .. Len(s) : s[i] = e
  OBVIOUS
<1> HIDE DEF I
<1> QED BY <1>3, <1>4 DEF RemoveFirst

-----------------------------------------------------------------------------
\* Induction, as first-order as the provers need it: a set of numbers that is
\* not empty has a least one.
LEMMA LeastOf ==
    ASSUME NEW T \in SUBSET Nat, T # {}
    PROVE  \E m \in T : \A n \in T : m <= n
<1>1. \E m \in T : \A n \in T : ~(<<n, m>> \in OpToRel(<, Nat))
  BY NatLessThanWellFounded, WFMin
<1>2. PICK m \in T : \A n \in T : ~(<<n, m>> \in OpToRel(<, Nat))
  BY <1>1
<1>3. ASSUME NEW n \in T PROVE m <= n
  <2>1. ~(n < m)
    BY <1>2 DEF OpToRel
  <2> QED BY <2>1
<1> QED BY <1>3

\* The recursive function of FlattenSeq: what it is of the first n sequences.
Flatten(f, s, n) == f = [i \in 1 .. n |-> IF i = 1 THEN s[i] ELSE f[i - 1] \o s[i]]

LEMMA FlattenExists ==
    ASSUME NEW s, NEW n \in Nat
    PROVE  \E f : Flatten(f, s, n)
<1> SUFFICES ASSUME ~(\E f : Flatten(f, s, n)) PROVE FALSE
  OBVIOUS
<1> DEFINE T == {k \in Nat : ~(\E f : Flatten(f, s, k))}
<1>1. n \in T
  OBVIOUS
<1>2. PICK m \in T : \A k \in T : m <= k
  <2> HIDE DEF T
  <2>1. T \subseteq Nat
    BY DEF T
  <2> QED BY <1>1, <2>1, LeastOf
<1>3. m # 0
  <2>1. Flatten(<<>>, s, 0)
    BY DEF Flatten
  <2> QED BY <2>1
<1>4. m \in Nat /\ m - 1 \in Nat /\ m - 1 \notin T
  BY <1>2, <1>3
<1>5. PICK f : Flatten(f, s, m - 1)
  BY <1>4
<1> DEFINE g == [i \in 1 .. m |-> IF i < m THEN f[i]
                                 ELSE IF i = 1 THEN s[i] ELSE f[i - 1] \o s[i]]
<1>6. ASSUME NEW i \in 1 .. m
      PROVE  g[i] = IF i = 1 THEN s[i] ELSE g[i - 1] \o s[i]
  <2>1. i # 1 => i - 1 \in 1 .. m /\ i - 1 < m
    BY <1>4
  <2>2. i # 1 => g[i - 1] = f[i - 1]
    BY <2>1
  <2>3. CASE i < m
    <3>1. i \in 1 .. m - 1
      BY <1>4, <2>3
    <3>2. f[i] = IF i = 1 THEN s[i] ELSE f[i - 1] \o s[i]
      BY <1>5, <3>1 DEF Flatten
    <3> QED BY <2>2, <2>3, <3>2
  <2>4. CASE ~(i < m)
    BY <2>2, <2>4
  <2> QED BY <2>3, <2>4
<1>7. Flatten(g, s, m)
  <2> DEFINE h == [i \in 1 .. m |-> IF i = 1 THEN s[i] ELSE g[i - 1] \o s[i]]
  <2>1. g = h
    <3>1. g = [i \in 1 .. m |-> g[i]]
      OBVIOUS
    <3> HIDE DEF g
    <3> QED BY <1>6, <3>1
  <2> HIDE DEF g
  <2> QED BY <2>1 DEF Flatten
<1> QED BY <1>7

\* The sequences of a sequence, one after the other, are a sequence; the last
\* of them is its end.
LEMMA Flattened ==
    ASSUME NEW S, NEW s \in Seq(Seq(S)), s # <<>>
    PROVE  /\ FlattenSeq(s) \in Seq(S)
           /\ s[Len(s)] # <<>> => FlattenSeq(s) # <<>>
<1> DEFINE f == CHOOSE f : Flatten(f, s, Len(s))
<1>1. Len(s) \in Nat /\ Len(s) # 0 /\ \A i \in 1 .. Len(s) : s[i] \in Seq(S)
  OBVIOUS
<1>2. Flatten(f, s, Len(s))
  <2>1. \E g : Flatten(g, s, Len(s))
    BY <1>1, FlattenExists
  <2> QED BY <2>1
<1>3. FlattenSeq(s) = f[Len(s)]
  BY <1>1 DEF FlattenSeq, Flatten
<1> HIDE DEF f
<1>4. \A i \in 1 .. Len(s) : f[i] = IF i = 1 THEN s[i] ELSE f[i - 1] \o s[i]
  BY <1>2 DEF Flatten
<1>5. \A i \in 1 .. Len(s) : f[i] \in Seq(S)
  <2> SUFFICES ASSUME NEW j \in 1 .. Len(s), f[j] \notin Seq(S) PROVE FALSE
    OBVIOUS
  <2> DEFINE T == {i \in 1 .. Len(s) : f[i] \notin Seq(S)}
  <2>1. PICK m \in T : \A k \in T : m <= k
    <3>1. j \in T /\ T \subseteq Nat
      OBVIOUS
    <3> HIDE DEF T
    <3> QED BY <3>1, LeastOf
  <2>2. m \in 1 .. Len(s) /\ f[m] \notin Seq(S)
    OBVIOUS
  <2>3. m # 1 => m - 1 \in 1 .. Len(s) /\ ~(m <= m - 1)
    BY <1>1, <2>2
  <2>4. m # 1 => f[m - 1] \in Seq(S)
    BY <2>1, <2>3
  <2>5. CASE m = 1
    BY <1>1, <1>4, <2>2, <2>5
  <2>6. CASE m # 1
    <3>1. f[m] = f[m - 1] \o s[m] /\ s[m] \in Seq(S)
      BY <1>1, <1>4, <2>2, <2>6
    <3>2. f[m - 1] \o s[m] \in Seq(S)
      BY <2>4, <2>6, <3>1, Concatenated
    <3> QED BY <2>2, <3>1, <3>2
  <2> QED BY <2>5, <2>6
<1>6. ASSUME s[Len(s)] # <<>>
      PROVE  f[Len(s)] # <<>>
  <2> DEFINE n == Len(s)
             e == s[n]
  <2>1. n \in 1 .. n /\ e \in Seq(S) /\ e # <<>>
    BY <1>1, <1>6
  <2>2. CASE n = 1
    BY <1>4, <2>1, <2>2
  <2>3. CASE n # 1
    <3>1. n - 1 \in 1 .. n
      BY <1>1, <2>3
    <3>2. f[n - 1] \in Seq(S) /\ f[n] = f[n - 1] \o e
      BY <1>4, <1>5, <2>1, <2>3, <3>1
    <3> DEFINE a == f[n - 1]
    <3>3. Len(a \o e) = Len(a) + Len(e) /\ Len(a) \in Nat
      BY <2>1, <3>2, Concatenated
    <3>4. Len(e) \in Nat \ {0}
      <4> HIDE DEF e
      <4> QED BY <2>1
    <3> HIDE DEF a, e
    <3>5. Len(a \o e) # 0
      BY <3>3, <3>4
    <3>6. Len(<<>>) = 0
      OBVIOUS
    <3> QED BY <3>2, <3>5, <3>6 DEF a
  <2> QED BY <2>2, <2>3
<1> QED BY <1>1, <1>3, <1>5, <1>6
=============================================================================
