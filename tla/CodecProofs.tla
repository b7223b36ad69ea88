----------------------------- MODULE CodecProofs ----------------------------
(***************************************************************************)
(* What is written is read: the framing of packets, for data of every      *)
(* length, wherever the stream is cut and whatever follows; and the fields *)
(* of messages, for every class and every value.                           *)
(***************************************************************************)
EXTENDS Frames, Protobuf, SequenceTheorems, WellFoundedInduction, TLAPS

\* Induction, over a set instead of a formula.
LEMMA SetInduction ==
  ASSUME NEW T, 0 \in T, \A n \in T : n \in Nat => n + 1 \in T
  PROVE  Nat \subseteq T
<1> DEFINE R == OpToRel(<, Nat)
           U == Nat \ T
<1>1. IsWellFoundedOn(R, Nat)
  BY NatLessThanWellFounded, Zenon
<1>2. \A x, y \in Nat : x < y => <<x, y>> \in R
  BY Zenon DEF OpToRel
<1> HIDE DEF R
<1>3. SUFFICES ASSUME U # {} PROVE FALSE
  OBVIOUS
<1>4. PICK x \in U : \A y \in U : ~(<<y, x>> \in R)
  <2> HIDE DEF U
  <2>1. U \subseteq Nat
    BY DEF U
  <2> QED
    BY <1>1, <1>3, <2>1, WFMin
<1>5. x # 0
  OBVIOUS
<1>6. x - 1 \in Nat /\ x - 1 < x /\ (x - 1) + 1 = x
  BY <1>5
<1>7. x - 1 \in U
  BY <1>6
<1> QED
  BY <1>2, <1>4, <1>6, <1>7

-----------------------------------------------------------------------------
(* Sequences, of whatever.                                                 *)

IsSeq(s) == \E T : s \in Seq(T)

LEMMA SeqElim ==
  ASSUME NEW s, IsSeq(s)
  PROVE  Len(s) \in Nat /\ DOMAIN s = 1 .. Len(s) /\ s = [i \in 1 .. Len(s) |-> s[i]]
<1>1. PICK T : s \in Seq(T)
  BY DEF IsSeq
<1> QED
  BY <1>1, LenProperties

LEMMA SeqIntro ==
  ASSUME NEW s, NEW n \in Nat, s = [i \in 1 .. n |-> s[i]]
  PROVE  IsSeq(s) /\ Len(s) = n
<1> DEFINE T == {s[i] : i \in 1 .. n}
<1>1. s \in [1 .. n -> T]
  OBVIOUS
<1>2. s \in Seq(T) /\ Len(s) = n
  BY <1>1, SeqDef
<1> QED
  BY <1>2 DEF IsSeq

\* Two sequences have a set of elements in common.
LEMMA SeqTogether ==
  ASSUME NEW s, NEW t, IsSeq(s), IsSeq(t)
  PROVE  \E T : s \in Seq(T) /\ t \in Seq(T)
<1>1. PICK A, B : s \in Seq(A) /\ t \in Seq(B)
  BY DEF IsSeq
<1>2. s \in Seq(A \cup B)
  BY <1>1, SeqMonotonic, A \subseteq A \cup B
<1>3. t \in Seq(A \cup B)
  BY <1>1, SeqMonotonic, B \subseteq A \cup B
<1> QED
  BY <1>2, <1>3

LEMMA SeqSame ==
  ASSUME NEW s, NEW t, IsSeq(s), IsSeq(t), Len(s) = Len(t), \A i \in 1 .. Len(s) : s[i] = t[i]
  PROVE  s = t
<1>1. PICK T : s \in Seq(T) /\ t \in Seq(T)
  BY SeqTogether
<1> QED
  BY <1>1, SeqEqual

LEMMA CatFacts ==
  ASSUME NEW a, NEW b, IsSeq(a), IsSeq(b)
  PROVE  /\ IsSeq(a \o b) /\ Len(a \o b) = Len(a) + Len(b)
         /\ \A i \in 1 .. Len(a) : (a \o b)[i] = a[i]
         /\ \A i \in 1 .. Len(b) : (a \o b)[Len(a) + i] = b[i]
<1>1. PICK T : a \in Seq(T) /\ b \in Seq(T)
  BY SeqTogether
<1>0. PICK n, m \in Nat : n = Len(a) /\ m = Len(b)
  BY <1>1, LenProperties
<1>2. /\ a \o b \in Seq(T) /\ Len(a \o b) = n + m
      /\ \A i \in 1 .. n + m : (a \o b)[i] = IF i <= n THEN a[i] ELSE b[i - n]
  BY <1>0, <1>1, ConcatProperties
<1>3. ASSUME NEW i \in 1 .. n PROVE (a \o b)[i] = a[i]
  <2>1. i \in 1 .. n + m /\ i <= n
    OBVIOUS
  <2> QED
    BY <1>2, <2>1
<1>4. ASSUME NEW i \in 1 .. m PROVE (a \o b)[n + i] = b[i]
  <2>1. n + i \in 1 .. n + m /\ ~(n + i <= n) /\ n + i - n = i
    OBVIOUS
  <2> QED
    BY <1>2, <2>1
<1>5. IsSeq(a \o b)
  BY <1>2 DEF IsSeq
<1> QED
  BY <1>0, <1>2, <1>3, <1>4, <1>5

\* The same with names for the lengths.
LEMMA Joined ==
  ASSUME NEW a, NEW b, IsSeq(a), IsSeq(b), NEW n \in Nat, NEW m \in Nat, n = Len(a), m = Len(b)
  PROVE  /\ IsSeq(a \o b) /\ Len(a \o b) = n + m
         /\ \A i \in 1 .. n : (a \o b)[i] = a[i]
         /\ \A i \in 1 .. m : (a \o b)[n + i] = b[i]
<1>1. IsSeq(a \o b) /\ Len(a \o b) = n + m
  BY CatFacts
<1>2. \A i \in 1 .. Len(a) : (a \o b)[i] = a[i]
  BY CatFacts
<1>3. \A i \in 1 .. Len(b) : (a \o b)[Len(a) + i] = b[i]
  BY CatFacts
<1> QED
  BY <1>1, <1>2, <1>3

LEMMA CatAssoc ==
  ASSUME NEW a, NEW b, NEW c, IsSeq(a), IsSeq(b), IsSeq(c)
  PROVE  (a \o b) \o c = a \o (b \o c)
<1>1. PICK A, B, C : a \in Seq(A) /\ b \in Seq(B) /\ c \in Seq(C)
  BY DEF IsSeq
<1> DEFINE T == A \cup B \cup C
<1>2. a \in Seq(T)
  BY <1>1, SeqMonotonic, A \subseteq T
<1>3. b \in Seq(T)
  BY <1>1, SeqMonotonic, B \subseteq T
<1>4. c \in Seq(T)
  BY <1>1, SeqMonotonic, C \subseteq T
<1> HIDE DEF T
<1> QED
  BY <1>2, <1>3, <1>4, ConcatAssociative

LEMMA CatEmpty ==
  ASSUME NEW s, IsSeq(s)
  PROVE  s \o << >> = s /\ << >> \o s = s
<1>1. PICK T : s \in Seq(T)
  BY DEF IsSeq
<1> QED
  BY <1>1, ConcatEmptySeq

LEMMA EmptyIsSeq == IsSeq(<< >>) /\ Len(<< >>) = 0
<1>1. << >> \in Seq({})
  OBVIOUS
<1> QED
  BY <1>1 DEF IsSeq

LEMMA OneIsSeq ==
  ASSUME NEW e
  PROVE  IsSeq(<<e>>) /\ Len(<<e>>) = 1 /\ <<e>>[1] = e
<1>1. <<e>> \in Seq({e})
  OBVIOUS
<1> QED
  BY <1>1 DEF IsSeq

LEMMA EmptyIfNoLen ==
  ASSUME NEW s, IsSeq(s)
  PROVE  Len(s) = 0 <=> s = << >>
<1>1. PICK T : s \in Seq(T)
  BY DEF IsSeq
<1> QED
  BY <1>1, EmptySeq

\* A stretch of a sequence.
LEMMA SubFacts ==
  ASSUME NEW s, IsSeq(s), NEW m \in Nat, NEW k \in Nat, m + k <= Len(s)
  PROVE  LET u == SubSeq(s, m + 1, m + k)
         IN  IsSeq(u) /\ Len(u) = k /\ \A i \in 1 .. k : u[i] = s[m + i]
<1>1. PICK T : s \in Seq(T)
  BY DEF IsSeq
<1>2. PICK l \in Nat : l = Len(s)
  BY <1>1, LenProperties
<1>3. \A i \in m + 1 .. m + k : s[i] \in T
  BY <1>1, <1>2, ElementOfSeq
<1>4. /\ SubSeq(s, m + 1, m + k) \in Seq(T)
      /\ Len(SubSeq(s, m + 1, m + k)) = IF m + 1 <= m + k THEN m + k - (m + 1) + 1 ELSE 0
      /\ \A i \in 1 .. m + k - (m + 1) + 1 : SubSeq(s, m + 1, m + k)[i] = s[m + 1 + i - 1]
  BY <1>3, SubSeqProperties
<1>5. /\ (IF m + 1 <= m + k THEN m + k - (m + 1) + 1 ELSE 0) = k
      /\ m + k - (m + 1) + 1 = k
      /\ \A i \in 1 .. k : m + 1 + i - 1 = m + i
  OBVIOUS
<1> QED
  BY <1>4, <1>5 DEF IsSeq

\* A stretch of a sequence is the sequence whose elements it has.
LEMMA Stretch ==
  ASSUME NEW s, NEW t, IsSeq(s), IsSeq(t), NEW m \in Nat, m + Len(t) <= Len(s),
         \A i \in 1 .. Len(t) : s[m + i] = t[i]
  PROVE  SubSeq(s, m + 1, m + Len(t)) = t
<1>1. PICK k \in Nat : k = Len(t)
  BY SeqElim
<1>2. LET u == SubSeq(s, m + 1, m + k)
      IN  IsSeq(u) /\ Len(u) = k /\ \A i \in 1 .. k : u[i] = s[m + i]
  BY <1>1, SubFacts, SMTT(30)
<1>3. PICK u : /\ u = SubSeq(s, m + 1, m + k)
               /\ IsSeq(u) /\ Len(u) = k /\ \A i \in 1 .. k : u[i] = s[m + i]
  BY <1>2
<1>4. u = t
  BY <1>1, <1>3, SeqSame
<1> QED
  BY <1>1, <1>3, <1>4

LEMMA Beginning ==
  ASSUME NEW s, IsSeq(s), NEW k \in Nat, k <= Len(s)
  PROVE  LET u == SubSeq(s, 1, k)
         IN  IsSeq(u) /\ Len(u) = k /\ \A i \in 1 .. k : u[i] = s[i]
<1>1. PICK m \in Nat : m = 0
  OBVIOUS
<1>2. m + k <= Len(s)
  BY <1>1
<1>3. LET u == SubSeq(s, m + 1, m + k)
      IN  IsSeq(u) /\ Len(u) = k /\ \A i \in 1 .. k : u[i] = s[m + i]
  BY ONLY <1>2, SubFacts, IsSeq(s), m \in Nat, k \in Nat
<1>4. PICK u : u = SubSeq(s, m + 1, m + k)
  OBVIOUS
<1>5. IsSeq(u) /\ Len(u) = k /\ \A i \in 1 .. k : u[i] = s[m + i]
  BY <1>3, <1>4
<1>6. m + 1 = 1 /\ m + k = k /\ \A i \in 1 .. k : m + i = i
  BY <1>1
<1>7. u = SubSeq(s, 1, k) /\ \A i \in 1 .. k : u[i] = s[i]
  BY <1>4, <1>5, <1>6
<1> QED
  BY <1>5, <1>7

LEMMA BeginningIs ==
  ASSUME NEW s, NEW t, IsSeq(s), IsSeq(t), NEW k \in Nat, k = Len(t), k <= Len(s),
         \A i \in 1 .. k : s[i] = t[i]
  PROVE  SubSeq(s, 1, k) = t
<1>1. LET u == SubSeq(s, 1, k)
      IN  IsSeq(u) /\ Len(u) = k /\ \A i \in 1 .. k : u[i] = s[i]
  BY Beginning
<1> QED
  BY <1>1, SeqSame


-----------------------------------------------------------------------------
(* FlattenSeq: the sequences of a sequence, joined.                        *)

\* w has the joined beginnings of ss.
Joins(w, ss) ==
    /\ w = [k \in 0 .. Len(ss) |-> w[k]]
    /\ w[0] = << >>
    /\ \A k \in 1 .. Len(ss) : w[k] = w[k - 1] \o ss[k]

AllSeqs(ss) == IsSeq(ss) /\ \A i \in 1 .. Len(ss) : IsSeq(ss[i])

LEMMA JoinsAreSeqs ==
  ASSUME NEW w, NEW ss, AllSeqs(ss), Joins(w, ss), NEW k \in 0 .. Len(ss)
  PROVE  IsSeq(w[k])
<1> DEFINE T == {j \in Nat : j <= Len(ss) => IsSeq(w[j])}
<1>1. PICK n \in Nat : n = Len(ss)
  BY SeqElim DEF AllSeqs
<1>2. 0 \in T
  BY EmptyIsSeq DEF Joins
<1>3. ASSUME NEW j \in T, j \in Nat PROVE j + 1 \in T
  <2> SUFFICES ASSUME j + 1 <= n PROVE IsSeq(w[j + 1])
    BY <1>1
  <2>1. j + 1 \in 1 .. n /\ j + 1 - 1 = j /\ j <= n
    BY <1>3
  <2>2. w[j + 1] = w[j] \o ss[j + 1]
    BY <1>1, <2>1 DEF Joins
  <2>3. IsSeq(w[j]) /\ IsSeq(ss[j + 1])
    BY <1>1, <1>3, <2>1 DEF AllSeqs
  <2> QED
    BY <2>2, <2>3, CatFacts
<1> HIDE DEF T
<1>4. Nat \subseteq T
  BY <1>2, <1>3, SetInduction
<1> QED
  BY <1>1, <1>4 DEF T

\* There is one.
LEMMA JoinsExist ==
  ASSUME NEW ss, AllSeqs(ss)
  PROVE  \E w : Joins(w, ss)
<1> DEFINE Part(w, n) == /\ w = [k \in 0 .. n |-> w[k]] /\ w[0] = << >>
                         /\ \A k \in 1 .. n : w[k] = w[k - 1] \o ss[k]
           T == {n \in Nat : \E w : Part(w, n)}
<1>1. 0 \in T
  <2>1. Part([k \in 0 .. 0 |-> << >>], 0)
    OBVIOUS
  <2> QED
    BY <2>1
<1>2. ASSUME NEW n \in T, n \in Nat PROVE n + 1 \in T
  <2>1. PICK w : Part(w, n)
    BY <1>2
  <2> DEFINE v == [k \in 0 .. n + 1 |-> IF k <= n THEN w[k] ELSE w[n] \o ss[n + 1]]
  <2>2. v = [k \in 0 .. n + 1 |-> v[k]]
    OBVIOUS
  <2>3. v[0] = << >>
    BY <2>1
  <2>4. ASSUME NEW k \in 1 .. n + 1 PROVE v[k] = v[k - 1] \o ss[k]
    <3>1. CASE k <= n
      <4>1. k \in 1 .. n /\ k \in 0 .. n + 1 /\ k - 1 \in 0 .. n + 1 /\ k - 1 <= n
        BY <3>1
      <4>2. v[k] = w[k] /\ v[k - 1] = w[k - 1]
        BY <3>1, <4>1
      <4> HIDE DEF v
      <4> QED
        BY <2>1, <4>1, <4>2
    <3>2. CASE ~(k <= n)
      <4>1. k = n + 1 /\ k - 1 = n /\ n \in 0 .. n + 1 /\ k \in 0 .. n + 1 /\ n <= n
        BY <3>2
      <4>2. v[k] = w[n] \o ss[n + 1] /\ v[n] = w[n]
        BY <3>2, <4>1
      <4> QED
        BY <4>1, <4>2
    <3> QED
      BY <3>1, <3>2
  <2> HIDE DEF v
  <2>5. Part(v, n + 1)
    BY <2>2, <2>3, <2>4
  <2> QED
    BY <2>5
<1> HIDE DEF T
<1>3. Nat \subseteq T
  BY <1>1, <1>2, SetInduction
<1>4. Len(ss) \in T
  BY <1>3, SeqElim DEF AllSeqs
<1> QED
  BY <1>4 DEF T, Joins

\* There is only one.
LEMMA JoinsEqual ==
  ASSUME NEW v, NEW w, NEW ss, AllSeqs(ss), Joins(v, ss), Joins(w, ss)
  PROVE  v = w
<1> DEFINE T == {j \in Nat : j <= Len(ss) => v[j] = w[j]}
<1>1. PICK n \in Nat : n = Len(ss)
  BY SeqElim DEF AllSeqs
<1>5. \A k \in 1 .. n : w[k] = w[k - 1] \o ss[k] /\ v[k] = v[k - 1] \o ss[k]
  BY <1>1 DEF Joins
<1>2. 0 \in T
  BY DEF Joins
<1>3. ASSUME NEW j \in T, j \in Nat PROVE j + 1 \in T
  <2> SUFFICES ASSUME j + 1 <= n PROVE v[j + 1] = w[j + 1]
    BY <1>1
  <2>1. PICK k \in 1 .. n : k = j + 1 /\ k - 1 = j /\ j <= n
    BY <1>3
  <2>2. v[j] = w[j]
    BY <1>1, <1>3, <2>1
  <2> HIDE DEF T
  <2>3. w[k] = w[k - 1] \o ss[k] /\ v[k] = v[k - 1] \o ss[k]
    BY <1>5
  <2> QED
    BY <2>1, <2>2, <2>3
<1> HIDE DEF T
<1>4. Nat \subseteq T
  BY <1>2, <1>3, SetInduction
<1>6. \A k \in 0 .. n : v[k] = w[k]
  BY <1>1, <1>4 DEF T
<1> QED
  BY <1>1, <1>6 DEF Joins

LEMMA FlattenIsJoin ==
  ASSUME NEW w, NEW ss, AllSeqs(ss), Joins(w, ss)
  PROVE  FlattenSeq(ss) = w[Len(ss)] /\ IsSeq(FlattenSeq(ss))
<1>1. PICK n \in Nat : n = Len(ss)
  BY SeqElim DEF AllSeqs
<1>2. CASE n = 0
  <2>1. ss = << >>
    BY <1>1, <1>2, EmptyIfNoLen DEF AllSeqs
  <2>2. FlattenSeq(ss) = ss
    BY <1>1, <1>2 DEF FlattenSeq
  <2> QED
    BY <1>1, <1>2, <2>1, <2>2, EmptyIsSeq DEF Joins
<1>3. CASE n # 0
  <2> DEFINE Def(f) == f = [i \in 1 .. Len(ss) |-> IF i = 1 THEN ss[i] ELSE f[i - 1] \o ss[i]]
             f == CHOOSE f : Def(f)
             g == [k \in 1 .. n |-> w[k]]
  <2>1. FlattenSeq(ss) = f[Len(ss)]
    BY <1>1, <1>3 DEF FlattenSeq
  <2>2. Def(g)
    <3>1. ASSUME NEW i \in 1 .. n PROVE g[i] = IF i = 1 THEN ss[i] ELSE g[i - 1] \o ss[i]
      <4>1. w[i] = w[i - 1] \o ss[i]
        BY <1>1 DEF Joins
      <4>2. CASE i = 1
        <5>1. w[i - 1] = << >> /\ IsSeq(ss[i])
          BY <1>1, <4>2 DEF Joins, AllSeqs
        <5> QED
          BY <4>1, <4>2, <5>1, CatEmpty
      <4>3. CASE i # 1
        <5>1. i - 1 \in 1 .. n
          BY <4>3
        <5> QED
          BY <4>1, <4>3, <5>1
      <4> QED
        BY <4>2, <4>3
    <3> HIDE DEF g
    <3>2. g = [k \in 1 .. n |-> g[k]]
      BY DEF g
    <3> QED
      BY <1>1, <3>1, <3>2
  <2>3. Def(f)
    <3> HIDE DEF g, Def
    <3> QED
      BY <2>2
  <2> HIDE DEF f
  <2> DEFINE v == [k \in 0 .. n |-> IF k = 0 THEN << >> ELSE f[k]]
  <2>4. Joins(v, ss)
    <3>1. v = [k \in 0 .. Len(ss) |-> v[k]]
      BY <1>1
    <3>2. v[0] = << >>
      OBVIOUS
    <3>3. ASSUME NEW k \in 1 .. Len(ss) PROVE v[k] = v[k - 1] \o ss[k]
      <4>0. k \in 0 .. n /\ k # 0 /\ k - 1 \in 0 .. n
        BY <1>1
      <4>1. v[k] = f[k] /\ f[k] = IF k = 1 THEN ss[k] ELSE f[k - 1] \o ss[k]
        BY <2>3, <4>0
      <4>2. CASE k = 1
        <5>1. v[k - 1] = << >> /\ IsSeq(ss[k])
          BY <1>1, <4>2 DEF AllSeqs
        <5> HIDE DEF v
        <5>2. << >> \o ss[k] = ss[k]
          BY <5>1, CatEmpty
        <5> QED
          BY <4>1, <4>2, <5>1, <5>2
      <4>3. CASE k # 1
        <5>1. v[k - 1] = f[k - 1]
          BY <4>0, <4>3
        <5> HIDE DEF v
        <5> QED
          BY <4>1, <4>3, <5>1
      <4> QED
        BY <4>2, <4>3
    <3> HIDE DEF v
    <3> QED
      BY <3>1, <3>2, <3>3 DEF Joins
  <2>5. v[n] = f[n]
    BY <1>3
  <2> HIDE DEF v
  <2>6. v = w
    BY <2>4, JoinsEqual
  <2>7. IsSeq(w[n])
    BY <1>1, JoinsAreSeqs
  <2> QED
    BY <1>1, <2>1, <2>5, <2>6, <2>7
<1> QED
  BY <1>2, <1>3

LEMMA AppendFacts ==
  ASSUME NEW s, IsSeq(s), NEW e
  PROVE  /\ IsSeq(Append(s, e)) /\ Len(Append(s, e)) = Len(s) + 1
         /\ \A i \in 1 .. Len(s) : Append(s, e)[i] = s[i]
         /\ Append(s, e)[Len(s) + 1] = e
<1>1. PICK A : s \in Seq(A)
  BY DEF IsSeq
<1>2. PICK T : T = A \cup {e}
  OBVIOUS
<1>3. s \in Seq(T) /\ e \in T
  BY <1>1, <1>2, SeqMonotonic, A \subseteq T
<1> QED
  BY <1>3, AppendProperties DEF IsSeq

LEMMA HeadTailFacts ==
  ASSUME NEW s, IsSeq(s), s # << >>
  PROVE  /\ Len(s) \in Nat \ {0} /\ Head(s) = s[1]
         /\ IsSeq(Tail(s)) /\ Len(Tail(s)) = Len(s) - 1
         /\ \A i \in 1 .. Len(s) - 1 : Tail(s)[i] = s[i + 1]
<1>1. PICK T : s \in Seq(T)
  BY DEF IsSeq
<1>2. Len(s) \in Nat \ {0}
  BY <1>1, EmptySeq
<1>3. Tail(s) \in Seq(T) /\ Len(Tail(s)) = Len(s) - 1
  BY <1>1, HeadTailProperties
<1>4. \A i \in 1 .. Len(Tail(s)) : Tail(s)[i] = s[i + 1]
  BY <1>1, HeadTailProperties
<1>5. Head(s) = s[1]
  BY <1>1
<1> QED
  BY <1>2, <1>3, <1>4, <1>5 DEF IsSeq

LEMMA FlattenIsSeq ==
  ASSUME NEW ss, AllSeqs(ss)
  PROVE  IsSeq(FlattenSeq(ss))
<1>1. PICK w : Joins(w, ss)
  BY JoinsExist
<1> QED
  BY <1>1, FlattenIsJoin

LEMMA FlattenNone == AllSeqs(<< >>) /\ FlattenSeq(<< >>) = << >>
<1>1. AllSeqs(<< >>)
  BY EmptyIsSeq DEF AllSeqs
<1> QED
  BY <1>1, EmptyIsSeq DEF FlattenSeq

LEMMA FlattenAppend ==
  ASSUME NEW ss, AllSeqs(ss), NEW s, IsSeq(s)
  PROVE  /\ AllSeqs(Append(ss, s))
         /\ FlattenSeq(Append(ss, s)) = FlattenSeq(ss) \o s
<1>1. PICK n \in Nat : n = Len(ss)
  BY SeqElim DEF AllSeqs
<1>2. PICK t : /\ t = Append(ss, s) /\ IsSeq(t) /\ Len(t) = n + 1
               /\ \A i \in 1 .. n : t[i] = ss[i]
               /\ t[n + 1] = s
  BY <1>1, AppendFacts DEF AllSeqs
<1>3. AllSeqs(t)
  <2> SUFFICES ASSUME NEW i \in 1 .. n + 1 PROVE IsSeq(t[i])
    BY <1>2 DEF AllSeqs
  <2>1. CASE i = n + 1
    BY <1>2, <2>1
  <2>2. CASE i # n + 1
    <3>1. i \in 1 .. n
      BY <2>2
    <3> QED
      BY <1>1, <1>2, <3>1 DEF AllSeqs
  <2> QED
    BY <2>1, <2>2
<1>4. PICK w : Joins(w, t)
  BY <1>3, JoinsExist
<1>5. PICK m \in Nat \ {0} : m = n + 1 /\ m - 1 = n
  OBVIOUS
<1>6. FlattenSeq(t) = w[m] /\ w[m] = w[n] \o s
  <2>1. m \in 1 .. Len(t)
    BY <1>2, <1>5
  <2>2. w[m] = w[m - 1] \o t[m]
    BY <1>4, <2>1 DEF Joins
  <2> QED
    BY <1>2, <1>3, <1>4, <1>5, <2>2, FlattenIsJoin
<1>7. PICK v : v = [k \in 0 .. n |-> w[k]]
  OBVIOUS
<1>8. Joins(v, ss)
  <2>1. v = [k \in 0 .. Len(ss) |-> v[k]]
    BY <1>1, <1>7
  <2>2. v[0] = << >>
    BY <1>4, <1>7 DEF Joins
  <2>3. ASSUME NEW k \in 1 .. Len(ss) PROVE v[k] = v[k - 1] \o ss[k]
    <3>1. k \in 0 .. n /\ k - 1 \in 0 .. n /\ k \in 1 .. n /\ k \in 1 .. Len(t)
      BY <1>1, <1>2
    <3>2. w[k] = w[k - 1] \o t[k] /\ t[k] = ss[k]
      BY <1>2, <1>4, <3>1 DEF Joins
    <3>3. v[k] = w[k] /\ v[k - 1] = w[k - 1]
      BY <1>7, <3>1
    <3> QED
      BY <3>2, <3>3
  <2> QED
    BY <2>1, <2>2, <2>3 DEF Joins
<1>9. FlattenSeq(ss) = v[n] /\ v[n] = w[n]
  BY <1>1, <1>7, <1>8, FlattenIsJoin
<1> QED
  BY <1>2, <1>3, <1>6, <1>9

LEMMA FlattenFirst ==
  ASSUME NEW ss, AllSeqs(ss), ss # << >>
  PROVE  /\ AllSeqs(Tail(ss)) /\ IsSeq(ss[1])
         /\ FlattenSeq(ss) = ss[1] \o FlattenSeq(Tail(ss))
<1>1. PICK n \in Nat \ {0} : n = Len(ss)
  BY HeadTailFacts DEF AllSeqs
<1>2. PICK t : /\ t = Tail(ss) /\ IsSeq(t) /\ Len(t) = n - 1
               /\ \A i \in 1 .. n - 1 : t[i] = ss[i + 1]
  BY <1>1, HeadTailFacts DEF AllSeqs
<1>3. AllSeqs(t)
  <2> SUFFICES ASSUME NEW i \in 1 .. n - 1 PROVE IsSeq(t[i])
    BY <1>2 DEF AllSeqs
  <2>1. i + 1 \in 1 .. Len(ss)
    BY <1>1
  <2> QED
    BY <1>2, <2>1 DEF AllSeqs
<1>4. IsSeq(ss[1])
  BY <1>1 DEF AllSeqs
<1>5. PICK w : Joins(w, t)
  BY <1>3, JoinsExist
<1>6. PICK v : v = [k \in 0 .. n |-> IF k = 0 THEN << >> ELSE ss[1] \o w[k - 1]]
  OBVIOUS
<1>7. Joins(v, ss)
  <2>1. v = [k \in 0 .. Len(ss) |-> v[k]]
    BY <1>1, <1>6
  <2>2. v[0] = << >>
    BY <1>6
  <2>3. ASSUME NEW k \in 1 .. n PROVE v[k] = v[k - 1] \o ss[k]
    <3>1. CASE k = 1
      <4>0. k - 1 = 0 /\ k # 0 /\ k \in 0 .. n /\ 0 \in 0 .. n
        BY <3>1
      <4>3. v[k] = ss[1] \o w[k - 1] /\ v[0] = << >>
        BY <1>6, <4>0
      <4>1. v[k] = ss[1] \o w[0] /\ w[0] = << >> /\ v[k - 1] = << >>
        BY <1>5, <4>0, <4>3 DEF Joins
      <4>2. ss[1] \o << >> = ss[1] /\ << >> \o ss[1] = ss[1]
        BY <1>4, CatEmpty
      <4> QED
        BY <3>1, <4>1, <4>2
    <3>2. CASE k # 1
      <4>1. PICK j \in 1 .. n - 1 : j = k - 1 /\ j + 1 = k /\ j - 1 \in 0 .. Len(t) /\ j \in 1 .. Len(t)
        BY <1>2, <3>2
      <4>2. v[k] = ss[1] \o w[j] /\ v[j] = ss[1] \o w[j - 1]
        BY <1>6, <4>1
      <4>3. w[j] = w[j - 1] \o t[j] /\ t[j] = ss[k]
        BY <1>2, <1>5, <4>1 DEF Joins
      <4>4. IsSeq(w[j - 1])
        BY <1>3, <1>5, <4>1, JoinsAreSeqs
      <4>5. IsSeq(t[j])
        BY <1>3, <4>1 DEF AllSeqs
      <4>6. (ss[1] \o w[j - 1]) \o t[j] = ss[1] \o (w[j - 1] \o t[j])
        <5>1. PICK a, b, c : a = ss[1] /\ b = w[j - 1] /\ c = t[j]
          OBVIOUS
        <5>2. IsSeq(a) /\ IsSeq(b) /\ IsSeq(c)
          BY <1>4, <4>4, <4>5, <5>1
        <5>3. (a \o b) \o c = a \o (b \o c)
          BY ONLY <5>2, CatAssoc
        <5> QED
          BY <5>1, <5>3
      <4> QED
        BY <4>1, <4>2, <4>3, <4>6
    <3> QED
      BY <3>1, <3>2
  <2> QED
    BY <1>1, <2>1, <2>2, <2>3 DEF Joins
<1>8. FlattenSeq(ss) = v[n] /\ v[n] = ss[1] \o w[n - 1]
  BY <1>1, <1>6, <1>7, FlattenIsJoin
<1>9. FlattenSeq(t) = w[n - 1]
  BY <1>2, <1>3, <1>5, FlattenIsJoin
<1> QED
  BY <1>2, <1>3, <1>4, <1>8, <1>9

\* The length of the whole is the total of the lengths.
LEMMA TotalLength ==
  ASSUME NEW ss, AllSeqs(ss), NEW ls, IsSeq(ls), Len(ls) = Len(ss),
         \A i \in 1 .. Len(ss) : ls[i] = Len(ss[i])
  PROVE  Total(ls) = Len(FlattenSeq(ss))
<1>1. PICK n \in Nat : n = Len(ss) /\ n = Len(ls)
  BY SeqElim DEF AllSeqs
<1>2. PICK w : Joins(w, ss)
  BY JoinsExist
<1> DEFINE Def(f) == f = [k \in 0 .. Len(ls) |-> IF k = 0 THEN 0 ELSE f[k - 1] + ls[k]]
           sum == CHOOSE f : Def(f)
           g == [k \in 0 .. n |-> Len(w[k])]
<1>3. ASSUME NEW k \in 1 .. n PROVE Len(w[k]) = Len(w[k - 1]) + ls[k]
  <2>1. w[k] = w[k - 1] \o ss[k]
    BY <1>1, <1>2 DEF Joins
  <2>2. IsSeq(ss[k]) /\ ls[k] = Len(ss[k])
    BY <1>1 DEF AllSeqs
  <2>3. IsSeq(w[k - 1])
    <3>1. k - 1 \in 0 .. Len(ss)
      BY <1>1
    <3> QED
      BY <1>2, <3>1, JoinsAreSeqs
  <2> QED
    BY <2>1, <2>2, <2>3, CatFacts
<1>4. w[0] = << >>
  BY <1>2 DEF Joins
<1>5. Def(g)
  <2>1. ASSUME NEW k \in 0 .. n PROVE g[k] = IF k = 0 THEN 0 ELSE g[k - 1] + ls[k]
    <3>1. CASE k = 0
      BY <1>4, <3>1, EmptyIsSeq
    <3>2. CASE k # 0
      <4>1. k \in 1 .. n /\ k - 1 \in 0 .. n
        BY <3>2
      <4> QED
        BY <1>3, <3>2, <4>1
    <3> QED
      BY <3>1, <3>2
  <2>2. g = [k \in 0 .. n |-> g[k]]
    OBVIOUS
  <2> HIDE DEF g
  <2> QED
    BY <1>1, <2>1, <2>2
<1>6. Def(sum)
  <2> HIDE DEF Def, g
  <2> QED
    BY <1>5
<1>7. Total(ls) = sum[n]
  BY <1>1 DEF Total
<1> HIDE DEF sum
<1> DEFINE T == {j \in Nat : j <= n => sum[j] = g[j]}
<1>8. 0 \in T
  BY <1>1, <1>4, <1>6, EmptyIsSeq
<1>9. ASSUME NEW j \in T, j \in Nat PROVE j + 1 \in T
  <2> SUFFICES ASSUME j + 1 <= n PROVE sum[j + 1] = g[j + 1]
    OBVIOUS
  <2>1. PICK k \in 1 .. n : k = j + 1 /\ k - 1 = j /\ j <= n /\ k \in 0 .. n /\ j \in 0 .. n /\ k # 0
    BY <1>9
  <2>2. sum[j] = g[j]
    BY <1>9, <2>1
  <2>3. sum[k] = sum[k - 1] + ls[k] /\ g[k] = g[k - 1] + ls[k]
    <3> HIDE DEF T, g
    <3> QED
      BY <1>1, <1>5, <1>6, <2>1
  <2> HIDE DEF T, g, Def
  <2> QED
    BY <2>1, <2>2, <2>3
<1> HIDE DEF T
<1>10. Nat \subseteq T
  BY <1>8, <1>9, SetInduction
<1>11. sum[n] = Len(w[n])
  <2>1. n \in T
    BY <1>10
  <2>2. sum[n] = g[n] /\ n <= n
    BY <2>1 DEF T
  <2>3. g[n] = Len(w[n])
    OBVIOUS
  <2> QED
    BY <2>2, <2>3
<1>12. FlattenSeq(ss) = w[n]
  BY <1>1, <1>2, FlattenIsJoin
<1> QED
  BY <1>7, <1>11, <1>12

-----------------------------------------------------------------------------
(* Packets.                                                                *)

\* A packet holds header and data, and at most seven cells of padding.
LEMMA PacketSize ==
  ASSUME NEW n \in Nat
  PROVE  /\ PACKET_SIZE(n) \in Nat
         /\ PACKET_SIZE(n) >= 10 + n /\ PACKET_SIZE(n) < 18 + n
BY DEF PACKET_SIZE, CMDHEADER_SIZE, CMDTYPE_SIZE

LEMMA BytesCells ==
  ASSUME NEW what, NEW v, NEW k \in Nat
  PROVE  /\ IsSeq(Bytes(what, v, k)) /\ Len(Bytes(what, v, k)) = k
         /\ k > 0 => Bytes(what, v, k)[1] = <<what, v, 1>>
<1>1. PICK b : b = Bytes(what, v, k)
  OBVIOUS
<1>2. b = [i \in 1 .. k |-> b[i]] /\ (k > 0 => b[1] = <<what, v, 1>>)
  BY <1>1 DEF Bytes
<1>3. IsSeq(b) /\ Len(b) = k
  BY <1>2, SeqIntro
<1> QED
  BY <1>1, <1>2, <1>3

LEMMA ZerosCells ==
  ASSUME NEW k \in Nat
  PROVE  IsSeq(Zeros(k)) /\ Len(Zeros(k)) = k
<1>1. PICK b : b = Zeros(k)
  OBVIOUS
<1>2. b = [i \in 1 .. k |-> b[i]]
  BY <1>1 DEF Zeros
<1>3. IsSeq(b) /\ Len(b) = k
  BY <1>2, SeqIntro
<1> QED
  BY <1>1, <1>3

\* What SetMessage puts where.
LEMMA PacketCells ==
  ASSUME NEW data, IsSeq(data), NEW cmd
  PROVE  LET p == Packet(cmd, data)
             n == Len(data)
         IN  /\ IsSeq(p) /\ Len(p) = PACKET_SIZE(n)
             /\ p[1] = <<"size", n, 1>> /\ p[9] = <<"cmd", cmd, 1>>
             /\ \A i \in 1 .. n : p[10 + i] = data[i]
<1>1. PICK n, m, z \in Nat : /\ n = Len(data) /\ z = PACKET_SIZE(n) /\ z = 10 + n + m
                             /\ m = z - n - CMDHEADER_SIZE - CMDTYPE_SIZE
  <2>1. PICK n \in Nat : n = Len(data)
    BY SeqElim
  <2>2. PICK z \in Nat : z = PACKET_SIZE(n) /\ z >= 10 + n
    BY PacketSize
  <2>3. z - n - 8 - 2 \in Nat /\ z = 10 + n + (z - n - 8 - 2)
    BY <2>2
  <2> QED
    BY <2>1, <2>2, <2>3 DEF CMDHEADER_SIZE, CMDTYPE_SIZE
<1>0. PICK k, l \in Nat \ {0} : k = 4 /\ l = 2
  OBVIOUS
<1>2. PICK a : a = Bytes("size", n, k) /\ IsSeq(a) /\ Len(a) = k /\ a[1] = <<"size", n, 1>>
  BY BytesCells
<1>3. PICK b : b = Zeros(k) /\ IsSeq(b) /\ Len(b) = k
  BY ZerosCells
<1>4. PICK c : c = Bytes("cmd", cmd, l) /\ IsSeq(c) /\ Len(c) = l /\ c[1] = <<"cmd", cmd, 1>>
  BY BytesCells
<1>5. PICK e : e = Zeros(m) /\ IsSeq(e) /\ Len(e) = m
  BY ZerosCells
<1>6. PICK q, kk : q = a \o b /\ kk = k + k
  OBVIOUS
<1>61. kk \in Nat /\ IsSeq(q) /\ Len(q) = kk /\ \A i \in 1 .. k : q[i] = a[i]
  BY <1>2, <1>3, <1>6, Joined
<1>7. PICK r, h : r = q \o c /\ h = kk + l
  OBVIOUS
<1>70. h \in Nat /\ kk \in Nat /\ l \in Nat /\ IsSeq(q) /\ IsSeq(c) /\ kk = Len(q) /\ l = Len(c)
  BY <1>4, <1>61, <1>7
<1>71. /\ h \in Nat /\ IsSeq(r) /\ Len(r) = h
       /\ \A i \in 1 .. kk : r[i] = q[i]
       /\ \A i \in 1 .. l : r[kk + i] = c[i]
  BY ONLY <1>7, <1>70, Joined
<1>8. PICK s, t : s = r \o data /\ t = h + n
  OBVIOUS
<1>80. t \in Nat /\ h \in Nat /\ n \in Nat /\ IsSeq(r) /\ IsSeq(data) /\ h = Len(r) /\ n = Len(data)
  BY <1>1, <1>71, <1>8
<1>81. /\ t \in Nat /\ IsSeq(s) /\ Len(s) = t
       /\ \A i \in 1 .. h : s[i] = r[i]
       /\ \A i \in 1 .. n : s[h + i] = data[i]
  BY ONLY <1>8, <1>80, Joined
<1>9. PICK p : p = s \o e
  OBVIOUS
<1>91. IsSeq(p) /\ Len(p) = t + m /\ \A i \in 1 .. t : p[i] = s[i]
  BY <1>5, <1>81, <1>9, Joined
<1>92. kk = 8 /\ h = 10 /\ t = 10 + n
  BY <1>0, <1>6, <1>7, <1>8
<1>10. p = Packet(cmd, data)
  BY <1>0, <1>1, <1>2, <1>3, <1>4, <1>5, <1>6, <1>7, <1>8, <1>9 DEF Packet
<1>11. p[1] = <<"size", n, 1>>
  <2>1. 1 \in 1 .. t /\ 1 \in 1 .. h /\ 1 \in 1 .. kk /\ 1 \in 1 .. k
    BY <1>0, <1>92
  <2> QED
    BY <1>2, <1>61, <1>71, <1>81, <1>91, <2>1
<1>12. p[9] = <<"cmd", cmd, 1>>
  <2>1. 9 \in 1 .. t /\ 9 \in 1 .. h /\ 9 = kk + 1 /\ 1 \in 1 .. l
    BY <1>0, <1>92
  <2>2. p[9] = r[9]
    BY <1>81, <1>91, <2>1
  <2>3. r[kk + 1] = c[1]
    BY <1>71, <2>1
  <2> QED
    BY <1>4, <2>1, <2>2, <2>3
<1>13. ASSUME NEW i \in 1 .. n PROVE p[10 + i] = data[i]
  <2>1. h + i \in 1 .. t /\ h + i = 10 + i
    BY <1>92
  <2> QED
    BY <1>81, <1>91, <2>1
<1> QED
  BY <1>1, <1>91, <1>92, <1>10, <1>11, <1>12, <1>13

\* The size of a packet is read from its first cell.
LEMMA SizeIsRead ==
  ASSUME NEW n \in Nat, NEW p, p[1] = <<"size", n, 1>>
  PROVE  DataLen(p) = n
BY DEF DataLen

\* What SetMessage makes of some data and a command, whoever gets it reads as that.
THEOREM PacketIsRead ==
  ASSUME NEW data, IsSeq(data), NEW cmd
  PROVE  LET p == Packet(cmd, data)
         IN  /\ DataLen(p) = Len(data) /\ Len(p) = PACKET_SIZE(DataLen(p))
             /\ Cmd(p) = cmd /\ Data(p) = data
<1>1. PICK n, l \in Nat : n = Len(data) /\ l = PACKET_SIZE(n) /\ l >= 10 + n
  BY PacketSize, SeqElim
<1>2. PICK p : /\ p = Packet(cmd, data) /\ IsSeq(p) /\ Len(p) = l
               /\ p[1] = <<"size", n, 1>> /\ p[9] = <<"cmd", cmd, 1>>
               /\ \A i \in 1 .. n : p[10 + i] = data[i]
  BY <1>1, PacketCells
<1>3. DataLen(p) = n
  BY <1>2, SizeIsRead
<1>4. Cmd(p) = cmd
  BY <1>2 DEF Cmd, CMDHEADER_SIZE
<1>5. Data(p) = data
  <2>1. SubSeq(p, 10 + 1, 10 + n) = data
    BY <1>1, <1>2, Stretch, SMTT(30)
  <2> QED
    BY <1>3, <2>1 DEF Data, CMDHEADER_SIZE, CMDTYPE_SIZE
<1> QED
  BY <1>1, <1>2, <1>3, <1>4, <1>5

\* Cells that begin with the size of a packet and its cells.
IsPacket(p) ==
    /\ IsSeq(p) /\ DataLen(p) \in Nat /\ Len(p) = PACKET_SIZE(DataLen(p))
    /\ p[1] = <<"size", DataLen(p), 1>>

LEMMA PacketIsPacket ==
  ASSUME NEW data, IsSeq(data), NEW cmd
  PROVE  IsPacket(Packet(cmd, data))
<1>1. PICK n \in Nat : n = Len(data)
  BY SeqElim
<1>2. PICK p : /\ p = Packet(cmd, data) /\ IsSeq(p) /\ Len(p) = PACKET_SIZE(n)
               /\ p[1] = <<"size", n, 1>>
  BY <1>1, PacketCells
<1>3. DataLen(p) = n
  BY <1>2, SizeIsRead
<1> QED
  BY <1>2, <1>3 DEF IsPacket

LEMMA PacketLength ==
  ASSUME NEW p, IsPacket(p)
  PROVE  Len(p) \in Nat /\ Len(p) >= 10
<1>1. PICK n \in Nat : n = DataLen(p)
  BY DEF IsPacket
<1>2. PACKET_SIZE(n) \in Nat /\ PACKET_SIZE(n) >= 10 + n
  BY PacketSize
<1> QED
  BY <1>1, <1>2 DEF IsPacket

\* A packet and whatever comes behind it, of which n cells have arrived: the receiver
\* (enouthData, newMsgFormBuffer) waits until the whole packet is there, takes that and
\* nothing else, and leaves what has come of the rest.
THEOREM StreamIsCut ==
  ASSUME NEW p, IsPacket(p), NEW rest, IsSeq(rest), NEW n \in 0 .. Len(p \o rest)
  PROVE  LET buf == SubSeq(p \o rest, 1, n)
         IN  /\ EnoughData(buf) <=> n >= Len(p)
             /\ EnoughData(buf) => /\ NewMsgFromBuffer(buf) = p
                                   /\ Retrieved(buf) = SubSeq(rest, 1, n - Len(p))
<1>1. PICK d, l, m \in Nat :
        d = DataLen(p) /\ l = PACKET_SIZE(d) /\ l >= 10 + d /\ m = Len(rest) /\ l = Len(p)
  BY PacketSize, SeqElim DEF IsPacket
<1>2. IsSeq(p) /\ p[1] = <<"size", d, 1>>
  BY <1>1 DEF IsPacket
<1>0. PICK x, buf : x = p \o rest /\ buf = SubSeq(x, 1, n)
  OBVIOUS
<1>3. /\ IsSeq(x) /\ Len(x) = l + m
      /\ \A i \in 1 .. l : x[i] = p[i]
      /\ \A i \in 1 .. m : x[l + i] = rest[i]
  BY <1>0, <1>1, <1>2, Joined
<1>4. n \in Nat /\ n <= l + m
  BY <1>0, <1>3
<1>5. IsSeq(buf) /\ Len(buf) = n /\ \A i \in 1 .. n : buf[i] = x[i]
  BY <1>0, <1>3, <1>4, Beginning
<1>6. n > 4 => DataLen(buf) = d
  <2> SUFFICES ASSUME n > 4 PROVE DataLen(buf) = d
    OBVIOUS
  <2>1. 1 \in 1 .. n /\ 1 \in 1 .. l
    BY <1>1, <1>4
  <2>2. buf[1] = <<"size", d, 1>>
    BY <1>2, <1>3, <1>5, <2>1
  <2> QED
    BY <2>2, SizeIsRead
<1>7. EnoughData(buf) <=> n >= l
  <2>1. CASE n > 4
    <3>1. PACKET_SIZE(DataLen(buf)) = l
      BY <1>1, <1>6, <2>1
    <3> QED
      BY <1>5, <2>1, <3>1 DEF EnoughData
  <2>2. CASE ~(n > 4)
    <3>1. ~(n >= l)
      BY <1>1, <1>4, <2>2
    <3> QED
      BY <1>5, <2>2, <3>1 DEF EnoughData
  <2> QED
    BY <2>1, <2>2
<1>8. ASSUME n >= l PROVE NewMsgFromBuffer(buf) = p
  <2>1. \A i \in 1 .. l : buf[i] = p[i]
    BY <1>1, <1>3, <1>4, <1>5, <1>8
  <2>2. SubSeq(buf, 1, l) = p
    BY <1>1, <1>2, <1>4, <1>5, <1>8, <2>1, BeginningIs
  <2>3. n > 4
    BY <1>1, <1>4, <1>8
  <2> QED
    BY <1>1, <1>5, <1>6, <1>8, <2>2, <2>3 DEF NewMsgFromBuffer, Upto
<1>9. ASSUME n >= l PROVE Retrieved(buf) = SubSeq(rest, 1, n - l)
  <2>1. PICK k \in Nat : k = n - l /\ l + k = n /\ k <= m
    BY <1>4, <1>9
  <2>0. PICK r : r = SubSeq(rest, 1, k)
    OBVIOUS
  <2>2. IsSeq(r) /\ Len(r) = k /\ \A i \in 1 .. k : r[i] = rest[i]
    BY <1>1, <2>0, <2>1, Beginning
  <2>3. \A i \in 1 .. k : buf[l + i] = r[i]
    <3> SUFFICES ASSUME NEW i \in 1 .. k PROVE buf[l + i] = r[i]
      OBVIOUS
    <3>1. l + i \in 1 .. n /\ i \in 1 .. m
      BY <2>1
    <3> QED
      BY <1>3, <1>5, <2>2, <3>1
  <2>4. SubSeq(buf, l + 1, l + Len(r)) = r
    BY <1>5, <2>1, <2>2, <2>3, Stretch
  <2>5. n > 4
    BY <1>1, <1>4, <1>9
  <2> QED
    BY <1>1, <1>5, <1>6, <2>0, <2>1, <2>2, <2>4, <2>5 DEF Retrieved
<1> QED
  BY <1>0, <1>1, <1>7, <1>8, <1>9

\* A packet that travels in another one, behind the user and the server it is about, comes
\* out of it as it went in, padding and all (SetServerMessage, MsgInServer).
THEOREM WrapIsUndone ==
  ASSUME NEW p, IsPacket(p), NEW outer, NEW svrid, NEW userid
  PROVE  LET w == Wrap(outer, svrid, userid, p)
         IN  /\ IsPacket(w) /\ Cmd(w) = outer
             /\ InnerUser(w) = userid /\ Inner(w) = p
<1>0. PICK k, j \in Nat \ {0} : k = 8 /\ j = 4
  OBVIOUS
<1>1. PICK u : u = Bytes("user", userid, k) /\ IsSeq(u) /\ Len(u) = k /\ u[1] = <<"user", userid, 1>>
  BY BytesCells
<1>2. PICK v : v = Bytes("server", svrid, j) /\ IsSeq(v) /\ Len(v) = j
  BY BytesCells
<1>3. PICK l \in Nat : l = Len(p) /\ l = PACKET_SIZE(DataLen(p))
  BY SeqElim DEF IsPacket
<1>4. SubSeq(p, 1, l) = p
  BY <1>3, BeginningIs DEF IsPacket
<1>5. PICK h, m : h = u \o v /\ m = k + j
  OBVIOUS
<1>51. m \in Nat /\ IsSeq(h) /\ Len(h) = m /\ \A i \in 1 .. k : h[i] = u[i]
  BY <1>1, <1>2, <1>5, Joined
<1>6. PICK x : x = h \o p
  OBVIOUS
<1>61. /\ IsSeq(x) /\ Len(x) = m + l
       /\ \A i \in 1 .. m : x[i] = h[i]
       /\ \A i \in 1 .. l : x[m + i] = p[i]
  BY <1>3, <1>51, <1>6, Joined, SMTT(30) DEF IsPacket
<1>7. PICK w : w = Wrap(outer, svrid, userid, p)
  OBVIOUS
<1>8. w = Packet(outer, x)
  BY <1>0, <1>1, <1>2, <1>3, <1>4, <1>5, <1>6, <1>7 DEF Wrap
<1>9. IsPacket(w) /\ Cmd(w) = outer /\ Data(w) = x
  BY <1>61, <1>8, PacketIsRead, PacketIsPacket
<1>10. InnerUser(w) = userid
  <2>1. 1 \in 1 .. m /\ 1 \in 1 .. k
    BY <1>5
  <2>2. x[1] = <<"user", userid, 1>>
    BY <1>1, <1>51, <1>61, <2>1
  <2> QED
    BY <1>9, <2>2 DEF InnerUser
<1>11. Inner(w) = p
  <2>0. /\ IsSeq(p) /\ m \in Nat /\ m + Len(p) <= Len(x)
        /\ \A i \in 1 .. Len(p) : x[m + i] = p[i]
    BY <1>3, <1>51, <1>61 DEF IsPacket
  <2>1. SubSeq(x, m + 1, m + Len(p)) = p
    BY ONLY <1>61, <2>0, Stretch
  <2>2. m = 12
    BY <1>0, <1>5
  <2> QED
    BY <1>3, <1>61, <1>9, <2>1, <2>2 DEF Inner, MSGINSERVER_SIZE
<1> QED
  BY <1>7, <1>9, <1>10, <1>11

-----------------------------------------------------------------------------
(* The tables of the message classes.                                      *)

\* Only messages repeat, and no field is called as the unknown ones.
RowOK(row) ==
    /\ row.name # "unknown" /\ row.repeated \in BOOLEAN
    /\ row.type \in Class \/ (row.type \in {"int", "string"} /\ ~row.repeated)

\* A table has a row for every number from 1, with a name of its own.
TableOK(t) ==
    /\ IsSeq(t)
    /\ \A n \in 1 .. Len(t) : RowOK(t[n])
    /\ \A n, k \in 1 .. Len(t) : t[n].name = t[k].name => n = k

LEMMA ClassIs ==
  /\ "int" \notin Class /\ "string" \notin Class
  /\ {"TimeInfo", "PlayerInfo", "MapLocation", "TaskInfo", "TaskTarget"} \subseteq Class
BY DEF Class, TimeSchema, ChatSchema, LoginSchema, MoveSchema, ServerSchema, TaskSchema

\* The tables with 0 to 8 rows.
LEMMA Table0 == TableOK(<< >>)
BY EmptyIsSeq DEF TableOK

LEMMA Table1 ==
  ASSUME NEW a,
         RowOK(a)
  PROVE  TableOK(<<a>>)
<1>1. PICK t : t = <<a>>
  OBVIOUS
<1>2. IsSeq(t)
  <2>1. t \in Seq({a})
    BY <1>1
  <2> QED
    BY <2>1 DEF IsSeq
<1>3. Len(t) = 1 /\ t[1] = a
  BY <1>1
<1> QED
  BY <1>1, <1>2, <1>3 DEF TableOK

LEMMA Table2 ==
  ASSUME NEW a, NEW b,
         RowOK(a), RowOK(b),
         a.name \notin {b.name}
  PROVE  TableOK(<<a, b>>)
<1>1. PICK t : t = <<a, b>>
  OBVIOUS
<1>2. IsSeq(t)
  <2>1. t \in Seq({a, b})
    BY <1>1
  <2> QED
    BY <2>1 DEF IsSeq
<1>3. Len(t) = 2 /\ t[1] = a /\ t[2] = b
  BY <1>1
<1> QED
  BY <1>1, <1>2, <1>3 DEF TableOK

LEMMA Table3 ==
  ASSUME NEW a, NEW b, NEW c,
         RowOK(a), RowOK(b), RowOK(c),
         a.name \notin {b.name, c.name},
         b.name \notin {c.name}
  PROVE  TableOK(<<a, b, c>>)
<1>1. PICK t : t = <<a, b, c>>
  OBVIOUS
<1>2. IsSeq(t)
  <2>1. t \in Seq({a, b, c})
    BY <1>1
  <2> QED
    BY <2>1 DEF IsSeq
<1>3. Len(t) = 3 /\ t[1] = a /\ t[2] = b /\ t[3] = c
  BY <1>1
<1> QED
  BY <1>1, <1>2, <1>3 DEF TableOK

LEMMA Table4 ==
  ASSUME NEW a, NEW b, NEW c, NEW d,
         RowOK(a), RowOK(b), RowOK(c), RowOK(d),
         a.name \notin {b.name, c.name, d.name},
         b.name \notin {c.name, d.name},
         c.name \notin {d.name}
  PROVE  TableOK(<<a, b, c, d>>)
<1>1. PICK t : t = <<a, b, c, d>>
  OBVIOUS
<1>2. IsSeq(t)
  <2>1. t \in Seq({a, b, c, d})
    BY <1>1
  <2> QED
    BY <2>1 DEF IsSeq
<1>3. Len(t) = 4 /\ t[1] = a /\ t[2] = b /\ t[3] = c /\ t[4] = d
  BY <1>1
<1> QED
  BY <1>1, <1>2, <1>3 DEF TableOK

LEMMA Table5 ==
  ASSUME NEW a, NEW b, NEW c, NEW d, NEW e,
         RowOK(a), RowOK(b), RowOK(c), RowOK(d), RowOK(e),
         a.name \notin {b.name, c.name, d.name, e.name},
         b.name \notin {c.name, d.name, e.name},
         c.name \notin {d.name, e.name},
         d.name \notin {e.name}
  PROVE  TableOK(<<a, b, c, d, e>>)
<1>1. PICK t : t = <<a, b, c, d, e>>
  OBVIOUS
<1>2. IsSeq(t)
  <2>1. t \in Seq({a, b, c, d, e})
    BY <1>1
  <2> QED
    BY <2>1 DEF IsSeq
<1>3. Len(t) = 5 /\ t[1] = a /\ t[2] = b /\ t[3] = c /\ t[4] = d /\ t[5] = e
  BY <1>1
<1> QED
  BY <1>1, <1>2, <1>3 DEF TableOK

LEMMA Table6 ==
  ASSUME NEW a, NEW b, NEW c, NEW d, NEW e, NEW f,
         RowOK(a), RowOK(b), RowOK(c), RowOK(d), RowOK(e), RowOK(f),
         a.name \notin {b.name, c.name, d.name, e.name, f.name},
         b.name \notin {c.name, d.name, e.name, f.name},
         c.name \notin {d.name, e.name, f.name},
         d.name \notin {e.name, f.name},
         e.name \notin {f.name}
  PROVE  TableOK(<<a, b, c, d, e, f>>)
<1>1. PICK t : t = <<a, b, c, d, e, f>>
  OBVIOUS
<1>2. IsSeq(t)
  <2>1. t \in Seq({a, b, c, d, e, f})
    BY <1>1
  <2> QED
    BY <2>1 DEF IsSeq
<1>3. Len(t) = 6 /\ t[1] = a /\ t[2] = b /\ t[3] = c /\ t[4] = d /\ t[5] = e /\ t[6] = f
  BY <1>1
<1> QED
  BY <1>1, <1>2, <1>3 DEF TableOK

LEMMA Table7 ==
  ASSUME NEW a, NEW b, NEW c, NEW d, NEW e, NEW f, NEW g,
         RowOK(a), RowOK(b), RowOK(c), RowOK(d), RowOK(e), RowOK(f), RowOK(g),
         a.name \notin {b.name, c.name, d.name, e.name, f.name, g.name},
         b.name \notin {c.name, d.name, e.name, f.name, g.name},
         c.name \notin {d.name, e.name, f.name, g.name},
         d.name \notin {e.name, f.name, g.name},
         e.name \notin {f.name, g.name},
         f.name \notin {g.name}
  PROVE  TableOK(<<a, b, c, d, e, f, g>>)
<1>1. PICK t : t = <<a, b, c, d, e, f, g>>
  OBVIOUS
<1>2. IsSeq(t)
  <2>1. t \in Seq({a, b, c, d, e, f, g})
    BY <1>1
  <2> QED
    BY <2>1 DEF IsSeq
<1>3. Len(t) = 7 /\ t[1] = a /\ t[2] = b /\ t[3] = c /\ t[4] = d /\ t[5] = e /\ t[6] = f /\ t[7] = g
  BY <1>1
<1> QED
  BY <1>1, <1>2, <1>3 DEF TableOK

LEMMA Table8 ==
  ASSUME NEW a, NEW b, NEW c, NEW d, NEW e, NEW f, NEW g, NEW h,
         RowOK(a), RowOK(b), RowOK(c), RowOK(d), RowOK(e), RowOK(f), RowOK(g), RowOK(h),
         a.name \notin {b.name, c.name, d.name, e.name, f.name, g.name, h.name},
         b.name \notin {c.name, d.name, e.name, f.name, g.name, h.name},
         c.name \notin {d.name, e.name, f.name, g.name, h.name},
         d.name \notin {e.name, f.name, g.name, h.name},
         e.name \notin {f.name, g.name, h.name},
         f.name \notin {g.name, h.name},
         g.name \notin {h.name}
  PROVE  TableOK(<<a, b, c, d, e, f, g, h>>)
<1>1. PICK t : t = <<a, b, c, d, e, f, g, h>>
  OBVIOUS
<1>2. IsSeq(t)
  <2>1. t \in Seq({a, b, c, d, e, f, g, h})
    BY <1>1
  <2> QED
    BY <2>1 DEF IsSeq
<1>3. Len(t) = 8 /\ t[1] = a /\ t[2] = b /\ t[3] = c /\ t[4] = d /\ t[5] = e /\ t[6] = f /\ t[7] = g /\ t[8] = h
  BY <1>1
<1> QED
  BY <1>1, <1>2, <1>3 DEF TableOK
LEMMA Rows ==
  ASSUME NEW name, name # "unknown"
  PROVE  /\ RowOK(Whole(name)) /\ RowOK(Text(name))
         /\ Whole(name).name = name /\ Text(name).name = name
BY DEF RowOK, Whole, Text, Optional, Repeated
LEMMA MessageRows ==
  ASSUME NEW name, name # "unknown", NEW type \in Class
  PROVE  /\ RowOK(Optional(name, type)) /\ RowOK(Repeated(name, type))
         /\ Optional(name, type).name = name /\ Repeated(name, type).name = name
BY DEF RowOK, Whole, Text, Optional, Repeated

LEMMA TimeTables == \A c \in DOMAIN TimeSchema : TableOK(TimeSchema[c])
<1>1. TableOK(TimeInfo)
  BY Table3, Rows DEF TimeInfo
<1> QED
  BY <1>1 DEF TimeSchema

LEMMA ChatTables == \A c \in DOMAIN ChatSchema : TableOK(ChatSchema[c])
<1>1. TableOK(Chat)
  BY Table8, Rows, MessageRows, ClassIs DEF Chat, Times
<1> QED
  BY <1>1 DEF ChatSchema

LEMMA LoginTables == \A c \in DOMAIN LoginSchema : TableOK(LoginSchema[c])
<1>1. TableOK(ReqLogin)
  BY Table6, Rows, MessageRows, ClassIs DEF ReqLogin, Times
<1>2. TableOK(PlayerInfo)
  BY Table7, Rows DEF PlayerInfo
<1>3. TableOK(AckLogin)
  BY Table4, Rows, MessageRows, ClassIs DEF AckLogin, Times
<1>4. TableOK(ReqCreateRole)
  BY Table4, Rows, MessageRows, ClassIs DEF ReqCreateRole, Times
<1>5. TableOK(AckCreateRole)
  BY Table4, Rows, MessageRows, ClassIs DEF AckCreateRole, Times
<1>6. TableOK(ReqEnterGame)
  BY Table2, Rows, MessageRows, ClassIs DEF ReqEnterGame, Times
<1>7. TableOK(AckEnterGame)
  BY Table3, Rows, MessageRows, ClassIs DEF AckEnterGame, Times
<1>8. TableOK(ReqClientReady)
  BY Table1, MessageRows, ClassIs DEF ReqClientReady, Times
<1>9. TableOK(ReqUserLogout)
  BY Table0 DEF ReqUserLogout
<1> QED
  BY <1>1, <1>2, <1>3, <1>4, <1>5, <1>6, <1>7, <1>8, <1>9 DEF LoginSchema

LEMMA MoveTables == \A c \in DOMAIN MoveSchema : TableOK(MoveSchema[c])
<1>1. TableOK(ReqMove)
  BY Table5, Rows, MessageRows, ClassIs DEF ReqMove, Times
<1>2. TableOK(MapLocation)
  BY Table3, Rows DEF MapLocation
<1>3. TableOK(AckMove)
  BY Table6, Rows, MessageRows, ClassIs DEF AckMove, Times
<1>4. TableOK(MapAddObject)
  BY Table7, Rows, MessageRows, ClassIs DEF MapAddObject, Times
<1>5. TableOK(MapDelObject)
  BY Table2, Rows, MessageRows, ClassIs DEF MapDelObject, Times
<1> QED
  BY <1>1, <1>2, <1>3, <1>4, <1>5 DEF MoveSchema

LEMMA ServerTables == \A c \in DOMAIN ServerSchema : TableOK(ServerSchema[c])
<1>1. TableOK(ReqLoginServer)
  BY Table3, Rows DEF ReqLoginServer
<1>2. TableOK(AckLoginServer)
  BY Table3, Rows DEF AckLoginServer
<1>3. TableOK(ServerHeartBeat)
  BY Table2, Rows DEF ServerHeartBeat
<1> QED
  BY <1>1, <1>2, <1>3 DEF ServerSchema

LEMMA TaskTables == \A c \in DOMAIN TaskSchema : TableOK(TaskSchema[c])
<1>1. TableOK(ReqTaskAccept)
  BY Table1, Rows DEF ReqTaskAccept
<1>2. TableOK(TaskTarget)
  BY Table3, Rows DEF TaskTarget
<1>3. TableOK(TaskInfo)
  BY Table3, Rows, MessageRows, ClassIs DEF TaskInfo
<1>4. TableOK(AckTaskAccept)
  BY Table1, MessageRows, ClassIs DEF AckTaskAccept
<1>5. TableOK(AckTaskProgress)
  BY Table1, MessageRows, ClassIs DEF AckTaskProgress
<1>6. TableOK(AckTaskComplete)
  BY Table2, Rows DEF AckTaskComplete
<1>7. TableOK(ReqTaskComplete)
  BY Table1, Rows DEF ReqTaskComplete
<1> QED
  BY <1>1, <1>2, <1>3, <1>4, <1>5, <1>6, <1>7 DEF TaskSchema

\* Every class has one.
LEMMA SchemaOK ==
  ASSUME NEW c \in Class
  PROVE  /\ TableOK(Schema[c]) /\ Len(Schema[c]) \in Nat
         /\ Number(c) = 1 .. Len(Schema[c])
<1> DEFINE table == CASE c \in DOMAIN TimeSchema   -> TimeSchema[c]
                    [] c \in DOMAIN ChatSchema   -> ChatSchema[c]
                    [] c \in DOMAIN LoginSchema  -> LoginSchema[c]
                    [] c \in DOMAIN MoveSchema   -> MoveSchema[c]
                    [] c \in DOMAIN ServerSchema -> ServerSchema[c]
                    [] c \in DOMAIN TaskSchema   -> TaskSchema[c]
<1>3. Schema[c] = table
  BY DEF Schema
<1>4. \/ c \in DOMAIN TimeSchema \/ c \in DOMAIN ChatSchema \/ c \in DOMAIN LoginSchema
      \/ c \in DOMAIN MoveSchema \/ c \in DOMAIN ServerSchema \/ c \in DOMAIN TaskSchema
  BY DEF Class
<1>1. TableOK(Schema[c])
  BY <1>3, <1>4, TimeTables, ChatTables, LoginTables, MoveTables, ServerTables, TaskTables
<1>2. Len(Schema[c]) \in Nat /\ DOMAIN Schema[c] = 1 .. Len(Schema[c])
  BY <1>1, SeqElim DEF TableOK
<1> QED
  BY <1>1, <1>2 DEF Number

-----------------------------------------------------------------------------
(* The methods by the levels of messages they go into: 1 for the message   *)
(* alone, 3 for the messages in its messages too.  0 stands for what a     *)
(* method does below the last level.                                       *)

MergeAt(l, c, a, b) ==
    IF l = 3 THEN MergeFrom(c, a, b) ELSE IF l = 2 THEN MergeFrom1(c, a, b)
    ELSE IF l = 1 THEN MergeFrom0(c, a, b) ELSE b

SizeAt(l, c, m) ==
    IF l = 3 THEN ByteSize(c, m) ELSE IF l = 2 THEN ByteSize1(c, m)
    ELSE IF l = 1 THEN ByteSize0(c, m) ELSE 0

WriteAt(l, c, m) ==
    IF l = 3 THEN Serialize(c, m) ELSE IF l = 2 THEN Serialize1(c, m)
    ELSE IF l = 1 THEN Serialize0(c, m) ELSE << >>

ReadAt(l, c, m, s) ==
    IF l = 3 THEN MergeFromCells(c, m, s) ELSE IF l = 2 THEN MergeFromCells1(c, m, s)
    ELSE IF l = 1 THEN MergeFromCells0(c, m, s) ELSE [ok |-> FALSE, msg |-> m, at |-> 0]

OfClassAt(l, c, m) ==
    IF l = 3 THEN OfClass(c, m) ELSE IF l = 2 THEN OfClass1(c, m)
    ELSE IF l = 1 THEN OfClass0(c, m) ELSE FALSE

-----------------------------------------------------------------------------
(* What the fields of a message are.                                       *)

\* The fields of one number.
FieldsOf(c, m, n) ==
    LET vs == Values(Schema[c][n], m)
    IN  [i \in DOMAIN vs |-> [number |-> n, type |-> Schema[c][n].type, value |-> vs[i]]]

LEMMA FieldsAre ==
  ASSUME NEW c, NEW m
  PROVE  Fields(c, m) = FlattenSeq([n \in Number(c) |-> FieldsOf(c, m, n)])
BY DEF Fields, Numbered, FieldsOf

LEMMA RowFacts ==
  ASSUME NEW c \in Class, NEW n \in Number(c)
  PROVE  /\ RowOK(Schema[c][n])
         /\ \A k \in Number(c) : Schema[c][k].name = Schema[c][n].name => k = n
BY SchemaOK DEF TableOK

\* What it means to be of a class.
LEMMA OfClassFacts ==
  ASSUME NEW l \in 1 .. 3, NEW c \in Class, NEW m, OfClassAt(l, c, m)
  PROVE  /\ m = [f \in DOMAIN m |-> m[f]]
         /\ \A f \in DOMAIN m : \E n \in Number(c) : Schema[c][n].name = f
         /\ \A n \in Number(c) :
               LET vs == Values(Schema[c][n], m)
               IN  /\ IsSeq(vs) /\ Len(vs) \in Nat /\ DOMAIN vs = 1 .. Len(vs)
                   /\ IsSet(m, Schema[c][n].name) => vs # << >>
                   /\ Schema[c][n].type \in Class =>
                         \A i \in 1 .. Len(vs) : OfClassAt(l - 1, Schema[c][n].type, vs[i])
<1>1. /\ m = [f \in DOMAIN m |-> m[f]]
      /\ \A f \in DOMAIN m : \E n \in Number(c) : Schema[c][n].name = f
  <2>1. CASE l = 3
    BY <2>1 DEF OfClassAt, OfClass, OfClassWith
  <2>2. CASE l = 2
    BY <2>2 DEF OfClassAt, OfClass1, OfClassWith
  <2>3. CASE l = 1
    BY <2>3 DEF OfClassAt, OfClass0, OfClassWith
  <2> QED
    BY <2>1, <2>2, <2>3
<1>2. ASSUME NEW n \in Number(c), NEW vs, vs = Values(Schema[c][n], m)
      PROVE  /\ Len(vs) \in Nat /\ vs = [i \in 1 .. Len(vs) |-> vs[i]]
             /\ IsSet(m, Schema[c][n].name) => vs # << >>
             /\ Schema[c][n].type \in Class =>
                   \A i \in DOMAIN vs : OfClassAt(l - 1, Schema[c][n].type, vs[i])
  <2>1. CASE l = 3
    <3>1. OfClassWith(c, m, OfClass1)
      BY <2>1 DEF OfClassAt, OfClass
    <3>2. /\ Len(vs) \in Nat /\ vs = [i \in 1 .. Len(vs) |-> vs[i]]
          /\ IsSet(m, Schema[c][n].name) => vs # << >>
      BY <1>2, <3>1 DEF OfClassWith
    <3>3. \A i \in DOMAIN vs :
             CASE Schema[c][n].type = "int"    -> vs[i] \in Int
               [] Schema[c][n].type = "string" -> vs[i] \in STRING
               [] OTHER                        -> OfClass1(Schema[c][n].type, vs[i])
      BY <1>2, <3>1 DEF OfClassWith
    <3>4. ASSUME Schema[c][n].type \in Class, NEW i \in DOMAIN vs
          PROVE  OfClassAt(l - 1, Schema[c][n].type, vs[i])
      <4>1. Schema[c][n].type # "int" /\ Schema[c][n].type # "string"
        BY <3>4, ClassIs
      <4>2. OfClass1(Schema[c][n].type, vs[i])
        BY <3>3, <3>4, <4>1
      <4> QED
        BY <2>1, <4>2 DEF OfClassAt
    <3> QED
      BY <3>2, <3>4
  <2>2. CASE l = 2
    <3>1. OfClassWith(c, m, OfClass0)
      BY <2>2 DEF OfClassAt, OfClass1
    <3>2. /\ Len(vs) \in Nat /\ vs = [i \in 1 .. Len(vs) |-> vs[i]]
          /\ IsSet(m, Schema[c][n].name) => vs # << >>
      BY <1>2, <3>1 DEF OfClassWith
    <3>3. \A i \in DOMAIN vs :
             CASE Schema[c][n].type = "int"    -> vs[i] \in Int
               [] Schema[c][n].type = "string" -> vs[i] \in STRING
               [] OTHER                        -> OfClass0(Schema[c][n].type, vs[i])
      BY <1>2, <3>1 DEF OfClassWith
    <3>4. ASSUME Schema[c][n].type \in Class, NEW i \in DOMAIN vs
          PROVE  OfClassAt(l - 1, Schema[c][n].type, vs[i])
      <4>1. Schema[c][n].type # "int" /\ Schema[c][n].type # "string"
        BY <3>4, ClassIs
      <4>2. OfClass0(Schema[c][n].type, vs[i])
        BY <3>3, <3>4, <4>1
      <4> QED
        BY <2>2, <4>2 DEF OfClassAt
    <3> QED
      BY <3>2, <3>4
  <2>3. CASE l = 1
    <3>1. OfClass0(c, m)
      BY <2>3 DEF OfClassAt
    <3>2. /\ Len(vs) \in Nat /\ vs = [i \in 1 .. Len(vs) |-> vs[i]]
          /\ IsSet(m, Schema[c][n].name) => vs # << >>
      BY <1>2, <3>1 DEF OfClass0, OfClassWith
    <3>3. \A i \in DOMAIN vs :
             CASE Schema[c][n].type = "int"    -> vs[i] \in Int
               [] Schema[c][n].type = "string" -> vs[i] \in STRING
               [] OTHER                        -> FALSE
      BY <1>2, <3>1 DEF OfClass0, OfClassWith
    <3>4. ASSUME Schema[c][n].type \in Class, NEW i \in DOMAIN vs
          PROVE  OfClassAt(l - 1, Schema[c][n].type, vs[i])
      <4>1. Schema[c][n].type # "int" /\ Schema[c][n].type # "string"
        BY <3>4, ClassIs
      <4>2. FALSE
        BY <3>3, <3>4, <4>1
      <4> QED
        BY <2>3, <4>2 DEF OfClassAt
    <3> QED
      BY <3>2, <3>4
  <2> QED
    BY <2>1, <2>2, <2>3
<1>3. ASSUME NEW n \in Number(c), NEW vs, vs = Values(Schema[c][n], m)
      PROVE  /\ IsSeq(vs) /\ Len(vs) \in Nat /\ DOMAIN vs = 1 .. Len(vs)
             /\ IsSet(m, Schema[c][n].name) => vs # << >>
             /\ Schema[c][n].type \in Class =>
                   \A i \in 1 .. Len(vs) : OfClassAt(l - 1, Schema[c][n].type, vs[i])
  <2>1. Len(vs) \in Nat /\ vs = [i \in 1 .. Len(vs) |-> vs[i]]
    BY <1>2, <1>3
  <2>2. IsSeq(vs) /\ DOMAIN vs = 1 .. Len(vs)
    BY <2>1, SeqIntro
  <2> QED
    BY <1>2, <1>3, <2>1, <2>2
<1> QED
  BY <1>1, <1>3

\* Whatever the lists joined hold, their join holds.
LEMMA FlattenHolds ==
  ASSUME NEW ss, AllSeqs(ss), NEW P, \A k \in 1 .. Len(ss) : \A i \in 1 .. Len(ss[k]) : ss[k][i] \in P
  PROVE  \A i \in 1 .. Len(FlattenSeq(ss)) : FlattenSeq(ss)[i] \in P
<1>1. PICK n \in Nat : n = Len(ss)
  BY SeqElim DEF AllSeqs
<1>2. PICK w : Joins(w, ss)
  BY JoinsExist
<1> DEFINE T == {j \in Nat : j <= n => \A i \in 1 .. Len(w[j]) : w[j][i] \in P}
<1>3. 0 \in T
  BY <1>2, EmptyIsSeq DEF Joins
<1>4. ASSUME NEW j \in T, j \in Nat PROVE j + 1 \in T
  <2> SUFFICES ASSUME j + 1 <= n PROVE \A i \in 1 .. Len(w[j + 1]) : w[j + 1][i] \in P
    OBVIOUS
  <2>1. PICK k \in 1 .. n : k = j + 1 /\ k - 1 = j /\ j <= n /\ j \in 0 .. n
    BY <1>4
  <2>2. PICK a, b : a = w[j] /\ b = ss[k]
    OBVIOUS
  <2>3. w[k] = a \o b
    BY <1>1, <1>2, <2>1, <2>2 DEF Joins
  <2>4. IsSeq(a) /\ IsSeq(b)
    BY <1>1, <1>2, <2>1, <2>2, JoinsAreSeqs DEF AllSeqs
  <2>5. (\A i \in 1 .. Len(a) : a[i] \in P) /\ (\A i \in 1 .. Len(b) : b[i] \in P)
    BY <1>1, <1>4, <2>1, <2>2
  <2> HIDE DEF T
  <2>6. PICK x, y \in Nat : x = Len(a) /\ y = Len(b)
    BY <2>4, SeqElim
  <2>7. PICK u : u = a \o b
    OBVIOUS
  <2>8. /\ Len(u) = x + y
        /\ \A i \in 1 .. x : u[i] = a[i]
        /\ \A i \in 1 .. y : u[x + i] = b[i]
    BY ONLY <2>4, <2>6, <2>7, Joined
  <2>9. ASSUME NEW i \in 1 .. x + y PROVE u[i] \in P
    <3>1. CASE i \in 1 .. x
      BY <2>5, <2>6, <2>8, <3>1
    <3>2. CASE i \notin 1 .. x
      <4>1. PICK h \in 1 .. y : h = i - x /\ x + h = i
        BY <3>2
      <4> QED
        BY <2>5, <2>6, <2>8, <4>1, ZenonT(40)
    <3> QED
      BY <3>1, <3>2
  <2> QED
    BY <2>1, <2>3, <2>7, <2>8, <2>9
<1> HIDE DEF T
<1>5. Nat \subseteq T
  BY <1>3, <1>4, SetInduction
<1>6. \A i \in 1 .. Len(w[n]) : w[n][i] \in P
  BY <1>5 DEF T
<1>7. FlattenSeq(ss) = w[n]
  BY <1>1, <1>2, FlattenIsJoin
<1> QED
  BY <1>6, <1>7

\* What a field of a message is.
FieldOK(l, c, e) ==
    /\ e.number \in Number(c) /\ e.type = Schema[c][e.number].type
    /\ e.type \in Class => OfClassAt(l - 1, e.type, e.value)

LEMMA FieldsFacts ==
  ASSUME NEW l \in 1 .. 3, NEW c \in Class, NEW m, OfClassAt(l, c, m)
  PROVE  /\ AllSeqs([n \in Number(c) |-> FieldsOf(c, m, n)])
         /\ IsSeq(Fields(c, m))
         /\ \A i \in 1 .. Len(Fields(c, m)) : FieldOK(l, c, Fields(c, m)[i])
<1>1. PICK k \in Nat : k = Len(Schema[c]) /\ Number(c) = 1 .. k
  BY SchemaOK
<1>2. PICK ns : ns = [n \in 1 .. k |-> FieldsOf(c, m, n)]
  OBVIOUS
<1>3. IsSeq(ns) /\ Len(ns) = k
  <2>1. ns = [n \in 1 .. k |-> ns[n]]
    BY <1>2
  <2> QED
    BY <2>1, SeqIntro
<1>4. ASSUME NEW n \in 1 .. k
      PROVE  /\ IsSeq(ns[n])
             /\ \A i \in 1 .. Len(ns[n]) : FieldOK(l, c, ns[n][i])
  <2>1. PICK vs : vs = Values(Schema[c][n], m)
    OBVIOUS
  <2>2. /\ Len(vs) \in Nat /\ DOMAIN vs = 1 .. Len(vs)
        /\ Schema[c][n].type \in Class =>
              \A i \in 1 .. Len(vs) : OfClassAt(l - 1, Schema[c][n].type, vs[i])
    BY <1>1, <2>1, OfClassFacts
  <2>3. PICK q \in Nat : q = Len(vs)
    BY <2>2
  <2>4. PICK u : u = FieldsOf(c, m, n)
    OBVIOUS
  <2>5. u = [i \in 1 .. q |-> [number |-> n, type |-> Schema[c][n].type, value |-> vs[i]]]
    BY <2>1, <2>2, <2>3, <2>4 DEF FieldsOf
  <2>6. u = [i \in 1 .. q |-> u[i]]
    BY <2>5
  <2>7. IsSeq(u) /\ Len(u) = q
    BY <2>6, SeqIntro
  <2>8. ASSUME NEW i \in 1 .. q PROVE FieldOK(l, c, u[i])
    BY <1>1, <2>2, <2>3, <2>5 DEF FieldOK
  <2> QED
    BY <1>2, <2>4, <2>7, <2>8
<1>5. AllSeqs(ns)
  BY <1>3, <1>4 DEF AllSeqs
<1> DEFINE all == {ns[n][i] : n \in 1 .. k, i \in Nat}
           P == {e \in all : FieldOK(l, c, e)}
<1>6. \A n \in 1 .. Len(ns) : \A i \in 1 .. Len(ns[n]) : ns[n][i] \in P
  <2>1. ASSUME NEW n \in 1 .. k, NEW i \in 1 .. Len(ns[n]) PROVE ns[n][i] \in P
    <3>1. i \in Nat
      BY <1>4, SeqElim
    <3> QED
      BY <1>4, <3>1
  <2> QED
    BY <1>3, <2>1
<1> HIDE DEF P
<1>7. \A i \in 1 .. Len(FlattenSeq(ns)) : FlattenSeq(ns)[i] \in P
  BY <1>5, <1>6, FlattenHolds
<1>8. Fields(c, m) = FlattenSeq(ns)
  BY <1>1, <1>2, FieldsAre
<1> QED
  BY <1>1, <1>2, <1>5, <1>7, <1>8, FlattenIsSeq DEF P

-----------------------------------------------------------------------------
(* The cells of a field.                                                   *)

\* Where a length is announced it is a number.
LengthsOK(s) == \A i \in 1 .. Len(s) : s[i][1] = "len" => s[i][2] \in Nat

LEMMA LengthsJoin ==
  ASSUME NEW a, NEW b, IsSeq(a), IsSeq(b), LengthsOK(a), LengthsOK(b)
  PROVE  LengthsOK(a \o b)
<1>1. PICK n, m \in Nat : n = Len(a) /\ m = Len(b)
  BY SeqElim
<1>2. PICK u : u = a \o b
  OBVIOUS
<1>3. /\ Len(u) = n + m
      /\ \A i \in 1 .. n : u[i] = a[i]
      /\ \A i \in 1 .. m : u[n + i] = b[i]
  BY <1>1, <1>2, Joined
<1>4. ASSUME NEW i \in 1 .. n + m, u[i][1] = "len" PROVE u[i][2] \in Nat
  <2>1. CASE i \in 1 .. n
    BY <1>1, <1>3, <1>4, <2>1 DEF LengthsOK
  <2>2. CASE i \notin 1 .. n
    <3>1. PICK h \in 1 .. m : h = i - n /\ n + h = i
      BY <2>2
    <3>2. u[i] = b[h]
      BY <1>3, <3>1
    <3> QED
      BY <1>1, <1>4, <3>2 DEF LengthsOK
  <2> QED
    BY <2>1, <2>2
<1> QED
  BY <1>2, <1>3, <1>4 DEF LengthsOK

\* The header of a field, and what comes behind the length.
Headed(x, y, cells) == x \o (y \o cells)

IsHeaded(p, x, y, cells) ==
    /\ IsSeq(p) /\ Len(p) = Len(cells) + 2 /\ p[1] = x[1] /\ p[2] = y[1]
    /\ \A i \in 1 .. Len(cells) : p[i + 2] = cells[i]

LEMMA HeadedCells ==
  ASSUME NEW x, NEW y, IsSeq(x), IsSeq(y), Len(x) = 1, Len(y) = 1,
         NEW cells, IsSeq(cells)
  PROVE  IsHeaded(Headed(x, y, cells), x, y, cells)
<1>0. PICK size \in Nat : size = Len(cells)
  BY SeqElim
<1>1. PICK k, l \in Nat : k = 1 /\ l = 2
  OBVIOUS
<1>2. PICK h, q : h = x \o y /\ q = h \o cells
  OBVIOUS
<1>3. /\ IsSeq(h) /\ Len(h) = l
      /\ \A i \in 1 .. k : h[i] = x[i]
      /\ \A i \in 1 .. k : h[k + i] = y[i]
  <2>1. IsSeq(x) /\ IsSeq(y) /\ k \in Nat /\ k = Len(x) /\ k = Len(y)
    BY <1>1
  <2>2. h = x \o y
    BY <1>2
  <2>3. IsSeq(h) /\ Len(h) = Len(x) + Len(y)
    BY ONLY <2>1, <2>2, CatFacts
  <2>4. IsSeq(x) /\ IsSeq(y)
    OBVIOUS
  <2>5. \A i \in 1 .. Len(x) : (x \o y)[i] = x[i]
    BY ONLY <2>4, CatFacts
  <2>6. \A i \in 1 .. Len(y) : (x \o y)[Len(x) + i] = y[i]
    BY ONLY <2>4, CatFacts
  <2> QED
    BY <1>1, <2>1, <2>2, <2>3, <2>5, <2>6
<1>4. l = Len(h) /\ h[1] = x[1] /\ h[2] = y[1]
  <2>1. 1 \in 1 .. k /\ k + 1 = 2
    BY <1>1
  <2> QED
    BY <1>3, <2>1
<1>5. /\ IsSeq(q) /\ Len(q) = l + size
      /\ \A i \in 1 .. l : q[i] = h[i]
      /\ \A i \in 1 .. size : q[l + i] = cells[i]
  <2>1. IsSeq(h) /\ IsSeq(cells) /\ l \in Nat /\ size \in Nat /\ l = Len(h) /\ size = Len(cells)
    BY <1>0, <1>3, <1>4
  <2>2. q = h \o cells
    BY <1>2
  <2> QED
    BY ONLY <2>1, <2>2, Joined
<1>6. q = Headed(x, y, cells)
  <2>1. (x \o y) \o cells = x \o (y \o cells)
    BY CatAssoc
  <2> QED
    BY <1>2, <2>1 DEF Headed
<1>7. q[1] = x[1] /\ q[2] = y[1]
  <2>1. 1 \in 1 .. l /\ 2 \in 1 .. l
    BY <1>1
  <2> QED
    BY <1>4, <1>5, <2>1
<1>8. ASSUME NEW i \in 1 .. size PROVE q[i + 2] = cells[i]
  <2>1. l + i = i + 2
    BY <1>1
  <2> QED
    BY <1>5, <2>1
<1>9. l + size = size + 2
  BY <1>1
<1> QED
  BY <1>0, <1>5, <1>6, <1>7, <1>8, <1>9 DEF IsHeaded

LEMMA NumberCells ==
  ASSUME NEW f, f.type = "int", NEW size, NEW cells
  PROVE  LET p == FieldCells(f, size, cells)
         IN  /\ IsSeq(p) /\ Len(p) = 2 /\ FieldLength(f, size) = 2
             /\ p[1] = <<"tag", f.number, "varint">> /\ p[2] = <<"int", f.value>>
<1>1. PICK a, b : a = <<"tag", f.number, "varint">> /\ b = <<"int", f.value>>
  OBVIOUS
<1>2. PICK x, y, t : x = <<a>> /\ y = <<b>> /\ t = << >>
  OBVIOUS
<1>3. FieldCells(f, size, cells) = x \o y
  BY <1>1, <1>2 DEF FieldCells, WireType
<1>4. FieldLength(f, size) = 2
  BY DEF FieldLength
<1>5. /\ IsSeq(x) /\ IsSeq(y) /\ Len(x) = 1 /\ Len(y) = 1 /\ x[1] = a /\ y[1] = b
      /\ IsSeq(t) /\ Len(t) = 0
  BY <1>2, OneIsSeq, EmptyIsSeq
<1>6. y \o t = y
  BY <1>2, <1>5, CatEmpty
<1>7. PICK p, n : p = x \o (y \o t) /\ n = 0
  OBVIOUS
<1>8. IsSeq(p) /\ Len(p) = n + 2 /\ p[1] = x[1] /\ p[2] = y[1]
  <2>1. n \in Nat /\ n = Len(t)
    BY <1>5, <1>7
  <2>2. IsSeq(x) /\ IsSeq(y) /\ Len(x) = 1 /\ Len(y) = 1 /\ IsSeq(t)
    BY <1>5
  <2>3. p = Headed(x, y, t)
    BY <1>7 DEF Headed
  <2>4. IsHeaded(p, x, y, t)
    BY <2>2, <2>3, HeadedCells
  <2> QED
    BY <2>1, <2>4 DEF IsHeaded
<1> QED
  BY <1>1, <1>3, <1>4, <1>5, <1>6, <1>7, <1>8

LEMMA TextCells ==
  ASSUME NEW f, f.type = "string", NEW size, NEW cells
  PROVE  LET p == FieldCells(f, size, cells)
             k == TextSize(f.value)
         IN  /\ k \in {0, 1} /\ (k = 0 <=> f.value = "")
             /\ IsSeq(p) /\ Len(p) = k + 2 /\ FieldLength(f, size) = k + 2
             /\ p[1] = <<"tag", f.number, "delimited">> /\ p[2] = <<"len", k>>
             /\ k = 1 => p[3] = <<"text", f.value>>
<1>0. TextSize(f.value) \in {0, 1} /\ (TextSize(f.value) = 0 <=> f.value = "")
  <2>1. CASE f.value = ""
    BY <2>1 DEF TextSize
  <2>2. CASE f.value # ""
    <3>1. TextSize(f.value) = 1
      BY <2>2 DEF TextSize
    <3>2. PICK s : s = TextSize(f.value)
      OBVIOUS
    <3>3. s = 1 /\ s # 0
      BY <3>1, <3>2
    <3> QED
      BY <2>2, <3>2, <3>3
  <2> QED
    BY <2>1, <2>2
<1>1. PICK k \in Nat : k = TextSize(f.value)
  BY <1>0
<1>2. PICK t : t = IF f.value = "" THEN << >> ELSE <<<<"text", f.value>>>>
  OBVIOUS
<1>3. IsSeq(t) /\ k = Len(t) /\ (k = 1 => t[1] = <<"text", f.value>>)
  <2>1. CASE f.value = ""
    <3>1. t = << >> /\ k = 0
      BY <1>0, <1>1, <1>2, <2>1
    <3> QED
      BY <3>1, EmptyIsSeq
  <2>2. CASE f.value # ""
    <3>1. t = <<<<"text", f.value>>>> /\ k = 1
      BY <1>0, <1>1, <1>2, <2>2
    <3> QED
      BY <3>1, OneIsSeq
  <2> QED
    BY <2>1, <2>2
<1>4. PICK a, b : a = <<"tag", f.number, "delimited">> /\ b = <<"len", k>>
  OBVIOUS
<1>41. PICK x, y : x = <<a>> /\ y = <<b>>
  OBVIOUS
<1>5. FieldCells(f, size, cells) = x \o (y \o t)
  BY <1>1, <1>2, <1>4, <1>41 DEF FieldCells, WireType
<1>6. FieldLength(f, size) = k + 2
  BY <1>1 DEF FieldLength
<1>7. PICK p : p = x \o (y \o t)
  OBVIOUS
<1>8. /\ IsSeq(p) /\ Len(p) = k + 2 /\ p[1] = a /\ p[2] = b
      /\ \A i \in 1 .. k : p[i + 2] = t[i]
  <2>1. IsSeq(t) /\ k \in Nat /\ k = Len(t)
    BY <1>3
  <2>2. IsSeq(x) /\ IsSeq(y) /\ Len(x) = 1 /\ Len(y) = 1 /\ x[1] = a /\ y[1] = b
    BY <1>41, OneIsSeq
  <2>0. p = Headed(x, y, t)
    BY <1>7 DEF Headed
  <2>3. /\ IsSeq(p) /\ Len(p) = k + 2 /\ p[1] = x[1] /\ p[2] = y[1]
        /\ \A i \in 1 .. k : p[i + 2] = t[i]
    <3>1. IsHeaded(p, x, y, t)
      BY <2>0, <2>1, <2>2, HeadedCells
    <3> QED
      BY <2>1, <3>1 DEF IsHeaded
  <2> QED
    BY <2>2, <2>3
<1>9. k = 1 => p[3] = <<"text", f.value>>
  <2> SUFFICES ASSUME k = 1 PROVE p[3] = <<"text", f.value>>
    OBVIOUS
  <2>1. 1 \in 1 .. k /\ 2 + 1 = 3
    OBVIOUS
  <2> QED
    BY <1>3, <1>8, <2>1
<1> QED
  BY <1>0, <1>1, <1>4, <1>5, <1>6, <1>7, <1>8, <1>9

LEMMA MessageCells ==
  ASSUME NEW f, f.type \in Class, NEW size \in Nat, NEW cells, IsSeq(cells), size = Len(cells)
  PROVE  LET p == FieldCells(f, size, cells)
         IN  /\ IsSeq(p) /\ Len(p) = size + 2 /\ FieldLength(f, size) = size + 2
             /\ p[1] = <<"tag", f.number, "delimited">> /\ p[2] = <<"len", size>>
             /\ \A i \in 1 .. size : p[i + 2] = cells[i]
<1>0. f.type # "int" /\ f.type # "string"
  BY ClassIs
<1>1. PICK a, b : a = <<"tag", f.number, "delimited">> /\ b = <<"len", size>>
  OBVIOUS
<1>2. PICK x, y : x = <<a>> /\ y = <<b>>
  OBVIOUS
<1>3. FieldCells(f, size, cells) = x \o (y \o cells)
  BY <1>0, <1>1, <1>2 DEF FieldCells, WireType
<1>4. FieldLength(f, size) = size + 2
  BY <1>0 DEF FieldLength
<1>5. PICK p : p = x \o (y \o cells)
  OBVIOUS
<1>6. /\ IsSeq(p) /\ Len(p) = size + 2 /\ p[1] = a /\ p[2] = b
      /\ \A i \in 1 .. size : p[i + 2] = cells[i]
  <2>1. IsSeq(cells) /\ size \in Nat /\ size = Len(cells)
    OBVIOUS
  <2>2. IsSeq(x) /\ IsSeq(y) /\ Len(x) = 1 /\ Len(y) = 1 /\ x[1] = a /\ y[1] = b
    BY <1>2, OneIsSeq
  <2>0. p = Headed(x, y, cells)
    BY <1>5 DEF Headed
  <2>3. /\ IsSeq(p) /\ Len(p) = size + 2 /\ p[1] = x[1] /\ p[2] = y[1]
        /\ \A i \in 1 .. size : p[i + 2] = cells[i]
    <3>1. IsHeaded(p, x, y, cells)
      BY <2>0, <2>1, <2>2, HeadedCells
    <3> QED
      BY <2>1, <3>1 DEF IsHeaded
  <2> QED
    BY <2>2, <2>3
<1> QED
  BY <1>1, <1>3, <1>4, <1>5, <1>6

-----------------------------------------------------------------------------
(* Writing.                                                                *)

CellsAt(l, f) == FieldCells(f, SizeAt(l - 1, f.type, f.value), WriteAt(l - 1, f.type, f.value))
LengthAt(l, f) == FieldLength(f, SizeAt(l - 1, f.type, f.value))

\* The cells of some fields, one after the other.
CellsOf(l, fs) == FlattenSeq([i \in DOMAIN fs |-> CellsAt(l, fs[i])])

LEMMA WriteIs ==
  ASSUME NEW l \in 1 .. 3, NEW c, NEW m
  PROVE  WriteAt(l, c, m) = CellsOf(l, Fields(c, m)) \o List(m, "unknown")
<1>1. PICK fs, u : fs = Fields(c, m) /\ u = List(m, "unknown")
  OBVIOUS
<1>2. CASE l = 3
  <2>1. WriteAt(l, c, m) = FlattenSeq([i \in DOMAIN fs |->
           FieldCells(fs[i], ByteSize1(fs[i].type, fs[i].value), Serialize1(fs[i].type, fs[i].value))]) \o u
    BY <1>1, <1>2 DEF WriteAt, Serialize, WriteWith, AllCells
  <2>2. \A f : CellsAt(l, f) = FieldCells(f, ByteSize1(f.type, f.value), Serialize1(f.type, f.value))
    BY <1>2 DEF CellsAt, SizeAt, WriteAt
  <2>3. [i \in DOMAIN fs |-> CellsAt(l, fs[i])] = [i \in DOMAIN fs |->
           FieldCells(fs[i], ByteSize1(fs[i].type, fs[i].value), Serialize1(fs[i].type, fs[i].value))]
    BY <2>2
  <2> QED
    BY <1>1, <2>1, <2>3 DEF CellsOf
<1>3. CASE l = 2
  <2>1. WriteAt(l, c, m) = FlattenSeq([i \in DOMAIN fs |->
           FieldCells(fs[i], ByteSize0(fs[i].type, fs[i].value), Serialize0(fs[i].type, fs[i].value))]) \o u
    BY <1>1, <1>3 DEF WriteAt, Serialize1, WriteWith, AllCells
  <2>2. \A f : CellsAt(l, f) = FieldCells(f, ByteSize0(f.type, f.value), Serialize0(f.type, f.value))
    BY <1>3 DEF CellsAt, SizeAt, WriteAt
  <2>3. [i \in DOMAIN fs |-> CellsAt(l, fs[i])] = [i \in DOMAIN fs |->
           FieldCells(fs[i], ByteSize0(fs[i].type, fs[i].value), Serialize0(fs[i].type, fs[i].value))]
    BY <2>2
  <2> QED
    BY <1>1, <2>1, <2>3 DEF CellsOf
<1>4. CASE l = 1
  <2>1. WriteAt(l, c, m) = FlattenSeq([i \in DOMAIN fs |-> FieldCells(fs[i], 0, << >>)]) \o u
    BY <1>1, <1>4 DEF WriteAt, Serialize0, WriteWith, AllCells
  <2>2. \A f : CellsAt(l, f) = FieldCells(f, 0, << >>)
    BY <1>4 DEF CellsAt, SizeAt, WriteAt
  <2>3. [i \in DOMAIN fs |-> CellsAt(l, fs[i])] = [i \in DOMAIN fs |-> FieldCells(fs[i], 0, << >>)]
    BY <2>2
  <2> QED
    BY <1>1, <2>1, <2>3 DEF CellsOf
<1> QED
  BY <1>2, <1>3, <1>4

LEMMA SizeIs ==
  ASSUME NEW l \in 1 .. 3, NEW c, NEW m
  PROVE  SizeAt(l, c, m) =
            Total([i \in DOMAIN Fields(c, m) |-> LengthAt(l, Fields(c, m)[i])]) + Len(List(m, "unknown"))
<1>1. PICK fs, u : fs = Fields(c, m) /\ u = List(m, "unknown")
  OBVIOUS
<1>2. CASE l = 3
  <2>1. SizeAt(l, c, m) = Total([i \in DOMAIN fs |->
           FieldLength(fs[i], ByteSize1(fs[i].type, fs[i].value))]) + Len(u)
    BY <1>1, <1>2 DEF SizeAt, ByteSize, SizeWith, Lengths
  <2>2. \A f : LengthAt(l, f) = FieldLength(f, ByteSize1(f.type, f.value))
    BY <1>2 DEF LengthAt, SizeAt
  <2>3. [i \in DOMAIN fs |-> LengthAt(l, fs[i])] =
           [i \in DOMAIN fs |-> FieldLength(fs[i], ByteSize1(fs[i].type, fs[i].value))]
    BY <2>2
  <2> QED
    BY <1>1, <2>1, <2>3
<1>3. CASE l = 2
  <2>1. SizeAt(l, c, m) = Total([i \in DOMAIN fs |->
           FieldLength(fs[i], ByteSize0(fs[i].type, fs[i].value))]) + Len(u)
    BY <1>1, <1>3 DEF SizeAt, ByteSize1, SizeWith, Lengths
  <2>2. \A f : LengthAt(l, f) = FieldLength(f, ByteSize0(f.type, f.value))
    BY <1>3 DEF LengthAt, SizeAt
  <2>3. [i \in DOMAIN fs |-> LengthAt(l, fs[i])] =
           [i \in DOMAIN fs |-> FieldLength(fs[i], ByteSize0(fs[i].type, fs[i].value))]
    BY <2>2
  <2> QED
    BY <1>1, <2>1, <2>3
<1>4. CASE l = 1
  <2>1. SizeAt(l, c, m) = Total([i \in DOMAIN fs |-> FieldLength(fs[i], 0)]) + Len(u)
    BY <1>1, <1>4 DEF SizeAt, ByteSize0, SizeWith, Lengths
  <2>2. \A f : LengthAt(l, f) = FieldLength(f, 0)
    BY <1>4 DEF LengthAt, SizeAt
  <2>3. [i \in DOMAIN fs |-> LengthAt(l, fs[i])] = [i \in DOMAIN fs |-> FieldLength(fs[i], 0)]
    BY <2>2
  <2> QED
    BY <1>1, <2>1, <2>3
<1> QED
  BY <1>2, <1>3, <1>4

LEMMA LengthsFlatten ==
  ASSUME NEW ss, AllSeqs(ss), \A k \in 1 .. Len(ss) : LengthsOK(ss[k])
  PROVE  LengthsOK(FlattenSeq(ss))
<1> DEFINE all == {ss[k][i] : k \in 1 .. Len(ss), i \in Nat}
           P == {e \in all : e[1] = "len" => e[2] \in Nat}
<1>1. ASSUME NEW k \in 1 .. Len(ss), NEW i \in 1 .. Len(ss[k]) PROVE ss[k][i] \in P
  <2>1. i \in Nat
    BY SeqElim DEF AllSeqs
  <2>2. ss[k][i][1] = "len" => ss[k][i][2] \in Nat
    BY DEF LengthsOK
  <2> QED
    BY <2>1, <2>2
<1>2. \A e \in P : e[1] = "len" => e[2] \in Nat
  OBVIOUS
<1> HIDE DEF P
<1>3. \A i \in 1 .. Len(FlattenSeq(ss)) : FlattenSeq(ss)[i] \in P
  BY <1>1, FlattenHolds
<1> QED
  BY <1>2, <1>3 DEF LengthsOK

\* What is written of the messages of a class has the size announced for it.
WritesWell(l) ==
    \A c \in Class : \A m : OfClassAt(l, c, m) =>
        /\ IsSeq(WriteAt(l, c, m)) /\ LengthsOK(WriteAt(l, c, m))
        /\ SizeAt(l, c, m) = Len(WriteAt(l, c, m))

LEMMA CellsFacts ==
  ASSUME NEW l \in 1 .. 3, WritesWell(l - 1), NEW c \in Class, NEW f, FieldOK(l, c, f)
  PROVE  /\ IsSeq(CellsAt(l, f)) /\ LengthsOK(CellsAt(l, f))
         /\ LengthAt(l, f) = Len(CellsAt(l, f))
<1>1. PICK size, cells, p : /\ size = SizeAt(l - 1, f.type, f.value)
                            /\ cells = WriteAt(l - 1, f.type, f.value)
                            /\ p = FieldCells(f, size, cells)
  OBVIOUS
<1>2. p = CellsAt(l, f) /\ LengthAt(l, f) = FieldLength(f, size)
  BY <1>1 DEF CellsAt, LengthAt
<1>3. f.type = "int" \/ f.type = "string" \/ f.type \in Class
  BY RowFacts DEF FieldOK, RowOK
<1>4. CASE f.type = "int"
  <2>1. /\ IsSeq(p) /\ Len(p) = 2 /\ FieldLength(f, size) = 2
        /\ p[1] = <<"tag", f.number, "varint">> /\ p[2] = <<"int", f.value>>
    BY <1>1, <1>4, NumberCells
  <2>2. LengthsOK(p)
    BY <2>1 DEF LengthsOK
  <2> QED
    BY <1>2, <2>1, <2>2
<1>5. CASE f.type = "string"
  <2>0. LET q == FieldCells(f, size, cells)
            j == TextSize(f.value)
        IN  /\ j \in {0, 1} /\ (j = 0 <=> f.value = "")
            /\ IsSeq(q) /\ Len(q) = j + 2 /\ FieldLength(f, size) = j + 2
            /\ q[1] = <<"tag", f.number, "delimited">> /\ q[2] = <<"len", j>>
            /\ j = 1 => q[3] = <<"text", f.value>>
    BY ONLY <1>5, TextCells
  <2>1. PICK k : k = TextSize(f.value)
    OBVIOUS
  <2>2. /\ k \in {0, 1}
        /\ IsSeq(p) /\ Len(p) = k + 2 /\ FieldLength(f, size) = k + 2
        /\ p[1] = <<"tag", f.number, "delimited">> /\ p[2] = <<"len", k>>
        /\ k = 1 => p[3] = <<"text", f.value>>
    BY <1>1, <2>0, <2>1
  <2>3. LengthsOK(p)
    BY <2>2 DEF LengthsOK
  <2> QED
    BY <1>2, <2>2, <2>3
<1>6. CASE f.type \in Class
  <2>1. IsSeq(cells) /\ size \in Nat /\ size = Len(cells) /\ LengthsOK(cells)
    BY <1>1, <1>6, SeqElim DEF WritesWell, FieldOK
  <2>2. /\ IsSeq(p) /\ Len(p) = size + 2 /\ FieldLength(f, size) = size + 2
        /\ p[1] = <<"tag", f.number, "delimited">> /\ p[2] = <<"len", size>>
        /\ \A i \in 1 .. size : p[i + 2] = cells[i]
    BY <1>1, <1>6, <2>1, MessageCells
  <2>3. ASSUME NEW i \in 1 .. size + 2, p[i][1] = "len" PROVE p[i][2] \in Nat
    <3>1. CASE i = 1
      BY <2>2, <2>3, <3>1
    <3>2. CASE i = 2
      BY <2>1, <2>2, <3>2
    <3>3. CASE i > 2
      <4>1. PICK h \in 1 .. size : h = i - 2 /\ h + 2 = i
        BY <2>1, <3>3
      <4>2. p[i] = cells[h]
        BY <2>2, <4>1
      <4> QED
        BY <2>1, <2>3, <4>2 DEF LengthsOK
    <3> QED
      BY <3>1, <3>2, <3>3
  <2> QED
    BY <1>2, <2>2, <2>3 DEF LengthsOK
<1> QED
  BY <1>3, <1>4, <1>5, <1>6

LEMMA CellsOfFacts ==
  ASSUME NEW l \in 1 .. 3, WritesWell(l - 1), NEW c \in Class,
         NEW fs, IsSeq(fs), \A i \in 1 .. Len(fs) : FieldOK(l, c, fs[i])
  PROVE  /\ AllSeqs([i \in DOMAIN fs |-> CellsAt(l, fs[i])])
         /\ Len([i \in DOMAIN fs |-> CellsAt(l, fs[i])]) = Len(fs)
         /\ IsSeq(CellsOf(l, fs)) /\ LengthsOK(CellsOf(l, fs))
         /\ Total([i \in DOMAIN fs |-> LengthAt(l, fs[i])]) = Len(CellsOf(l, fs))
<1>1. PICK n \in Nat : n = Len(fs) /\ DOMAIN fs = 1 .. n
  BY SeqElim
<1>2. PICK ss : ss = [i \in 1 .. n |-> CellsAt(l, fs[i])]
  OBVIOUS
<1>3. PICK ls : ls = [i \in 1 .. n |-> LengthAt(l, fs[i])]
  OBVIOUS
<1>4. IsSeq(ss) /\ Len(ss) = n
  <2>1. ss = [i \in 1 .. n |-> ss[i]]
    BY <1>2
  <2> QED
    BY <2>1, SeqIntro
<1>5. IsSeq(ls) /\ Len(ls) = n
  <2>1. ls = [i \in 1 .. n |-> ls[i]]
    BY <1>3
  <2> QED
    BY <2>1, SeqIntro
<1>6. \A i \in 1 .. n : IsSeq(ss[i]) /\ LengthsOK(ss[i]) /\ ls[i] = Len(ss[i])
  BY <1>1, <1>2, <1>3, CellsFacts
<1>7. AllSeqs(ss)
  BY <1>4, <1>6 DEF AllSeqs
<1>8. IsSeq(FlattenSeq(ss)) /\ LengthsOK(FlattenSeq(ss))
  BY <1>4, <1>6, <1>7, FlattenIsSeq, LengthsFlatten
<1>9. Total(ls) = Len(FlattenSeq(ss))
  BY <1>4, <1>5, <1>6, <1>7, TotalLength
<1>10. ss = [i \in DOMAIN fs |-> CellsAt(l, fs[i])] /\ ls = [i \in DOMAIN fs |-> LengthAt(l, fs[i])]
  BY <1>1, <1>2, <1>3
<1> QED
  BY <1>1, <1>4, <1>7, <1>8, <1>9, <1>10 DEF CellsOf

\* A message of a class has nothing unknown.
LEMMA NothingUnknown ==
  ASSUME NEW l \in 1 .. 3, NEW c \in Class, NEW m, OfClassAt(l, c, m)
  PROVE  List(m, "unknown") = << >>
<1>1. "unknown" \notin DOMAIN m
  BY OfClassFacts, RowFacts DEF RowOK
<1> QED
  BY <1>1 DEF List, IsSet

LEMMA WritesStep ==
  ASSUME NEW l \in 1 .. 3, WritesWell(l - 1)
  PROVE  WritesWell(l)
<1> SUFFICES ASSUME NEW c \in Class, NEW m, OfClassAt(l, c, m)
             PROVE  /\ IsSeq(WriteAt(l, c, m)) /\ LengthsOK(WriteAt(l, c, m))
                    /\ SizeAt(l, c, m) = Len(WriteAt(l, c, m))
  BY DEF WritesWell
<1>1. PICK fs : fs = Fields(c, m)
  OBVIOUS
<1>2. IsSeq(fs) /\ \A i \in 1 .. Len(fs) : FieldOK(l, c, fs[i])
  BY <1>1, FieldsFacts
<1>3. PICK u : u = CellsOf(l, fs)
  OBVIOUS
<1>4. /\ IsSeq(u) /\ LengthsOK(u)
      /\ Total([i \in DOMAIN fs |-> LengthAt(l, fs[i])]) = Len(u)
  BY <1>2, <1>3, CellsOfFacts
<1>5. WriteAt(l, c, m) = u
  <2>1. WriteAt(l, c, m) = u \o List(m, "unknown")
    BY <1>1, <1>3, WriteIs
  <2>2. List(m, "unknown") = << >>
    BY NothingUnknown
  <2>3. u \o << >> = u
    BY <1>4, CatEmpty
  <2> QED
    BY <2>1, <2>2, <2>3
<1>6. SizeAt(l, c, m) = Len(u)
  <2>1. Len(u) \in Nat /\ Len(u) + 0 = Len(u)
    BY <1>4, SeqElim
  <2>2. Len(List(m, "unknown")) = 0
    BY NothingUnknown, EmptyIsSeq
  <2>3. SizeAt(l, c, m) = Total([i \in DOMAIN fs |-> LengthAt(l, fs[i])]) + Len(List(m, "unknown"))
    BY <1>1, SizeIs
  <2> QED
    BY <1>4, <2>1, <2>2, <2>3
<1> QED
  BY <1>4, <1>5, <1>6

LEMMA AllWriteWell == WritesWell(0) /\ WritesWell(1) /\ WritesWell(2) /\ WritesWell(3)
<1>1. WritesWell(0)
  BY DEF WritesWell, OfClassAt
<1>2. WritesWell(1)
  BY <1>1, WritesStep, 1 - 1 = 0
<1>3. WritesWell(2)
  BY <1>2, WritesStep, 2 - 1 = 1
<1>4. WritesWell(3)
  BY <1>3, WritesStep, 3 - 1 = 2
<1> QED
  BY <1>1, <1>2, <1>3, <1>4

\* ByteSize announces the number of cells that SerializeWithCachedSizes writes, for every
\* class and every message of it.
THEOREM SizeIsAnnounced ==
  ASSUME NEW c \in Class, NEW m, OfClass(c, m)
  PROVE  IsSeq(Serialize(c, m)) /\ ByteSize(c, m) = Len(Serialize(c, m))
BY AllWriteWell DEF WritesWell, OfClassAt, WriteAt, SizeAt

-----------------------------------------------------------------------------
(* Reading.                                                                *)

\* What comes of the message in the field behind the cells read.
SubAt(l, c, s, r) == ReadAt(l - 1, Behind(c, s, r).type, Behind(c, s, r).into, Behind(c, s, r).cells)

\* read has what there is after each turn.
Chain(l, c, s, read) ==
    /\ read = [k \in 0 .. Len(s) |-> read[k]]
    /\ \A k \in 1 .. Len(s) : read[k] = Turn(c, s, read[k - 1], SubAt(l, c, s, read[k - 1]))

\* m has been made of the first j cells.
At(m, j) == [ok |-> TRUE, msg |-> m, at |-> j]

HasChain(l, c, s, r) == \E read : Chain(l, c, s, read) /\ read[0] = r

LEMMA ChainExists ==
  ASSUME NEW l, NEW c, NEW s, IsSeq(s), NEW r
  PROVE  HasChain(l, c, s, r)
<1> DEFINE Part(w, n) == /\ w = [k \in 0 .. n |-> w[k]] /\ w[0] = r
                         /\ \A k \in 1 .. n : w[k] = Turn(c, s, w[k - 1], SubAt(l, c, s, w[k - 1]))
           T == {n \in Nat : \E w : Part(w, n)}
<1>1. 0 \in T
  <2>1. Part([k \in 0 .. 0 |-> r], 0)
    OBVIOUS
  <2> QED
    BY <2>1
<1>2. ASSUME NEW n \in T, n \in Nat PROVE n + 1 \in T
  <2>1. PICK w : Part(w, n)
    BY <1>2
  <2>0. PICK e : e = Turn(c, s, w[n], SubAt(l, c, s, w[n]))
    OBVIOUS
  <2> DEFINE v == [k \in 0 .. n + 1 |-> IF k <= n THEN w[k] ELSE e]
  <2>2. v = [k \in 0 .. n + 1 |-> v[k]]
    OBVIOUS
  <2>3. v[0] = r
    BY <2>1
  <2>4. ASSUME NEW k \in 1 .. n + 1
        PROVE  v[k] = Turn(c, s, v[k - 1], SubAt(l, c, s, v[k - 1]))
    <3>1. CASE k <= n
      <4>1. k \in 1 .. n /\ k \in 0 .. n + 1 /\ k - 1 \in 0 .. n + 1 /\ k - 1 <= n
        BY <3>1
      <4>2. v[k] = w[k] /\ v[k - 1] = w[k - 1]
        BY <3>1, <4>1
      <4> HIDE DEF v
      <4> QED
        BY <2>1, <4>1, <4>2
    <3>2. CASE ~(k <= n)
      <4>1. k = n + 1 /\ k - 1 = n /\ n \in 0 .. n + 1 /\ k \in 0 .. n + 1 /\ n <= n
        BY <3>2
      <4>2. v[k] = e /\ v[k - 1] = w[n]
        BY <3>2, <4>1
      <4> HIDE DEF v
      <4> QED
        BY <2>0, <4>2
    <3> QED
      BY <3>1, <3>2
  <2> HIDE DEF v
  <2>5. Part(v, n + 1)
    BY <2>2, <2>3, <2>4
  <2> HIDE DEF Part
  <2> QED
    BY <2>5
<1> HIDE DEF T
<1>3. Nat \subseteq T
  BY <1>1, <1>2, SetInduction
<1>4. Len(s) \in T
  BY <1>3, SeqElim
<1> QED
  BY <1>4 DEF T, Chain, HasChain

\* What a method reads is at the end of such a chain.
LEMMA ReadIs ==
  ASSUME NEW l \in 1 .. 3, NEW c, NEW m, NEW s, IsSeq(s)
  PROVE  \E read : /\ Chain(l, c, s, read) /\ read[0] = At(m, 0)
                   /\ ReadAt(l, c, m, s) = read[Len(s)]
<1>1. PICK n \in Nat : n = Len(s)
  BY SeqElim
<1>0. HasChain(l, c, s, At(m, 0))
  BY ChainExists
<1>2. PICK g : Chain(l, c, s, g) /\ g[0] = At(m, 0)
  BY <1>0 DEF HasChain
<1>3. CASE l = 3
  <2> DEFINE Def(f) == f = [k \in 0 .. Len(s) |->
                 IF k = 0 THEN [ok |-> TRUE, msg |-> m, at |-> 0]
                 ELSE Turn(c, s, f[k - 1], MergeFromCells1(Behind(c, s, f[k - 1]).type, Behind(c, s, f[k - 1]).into, Behind(c, s, f[k - 1]).cells))]
             read == CHOOSE f : Def(f)
  <2>1. ReadAt(l, c, m, s) = read[Len(s)]
    BY <1>3 DEF ReadAt, MergeFromCells, ReadWith
  <2>2. \A r : SubAt(l, c, s, r) = MergeFromCells1(Behind(c, s, r).type, Behind(c, s, r).into, Behind(c, s, r).cells)
    BY <1>3 DEF SubAt, ReadAt
  <2>3. Def(g)
    <3>1. ASSUME NEW k \in 0 .. n
          PROVE  g[k] = IF k = 0 THEN [ok |-> TRUE, msg |-> m, at |-> 0]
                        ELSE Turn(c, s, g[k - 1], MergeFromCells1(Behind(c, s, g[k - 1]).type, Behind(c, s, g[k - 1]).into, Behind(c, s, g[k - 1]).cells))
      <4>1. CASE k = 0
        BY <1>2, <4>1 DEF At
      <4>2. CASE k # 0
        <5>1. k \in 1 .. n
          BY <4>2
        <5>2. g[k] = Turn(c, s, g[k - 1], SubAt(l, c, s, g[k - 1]))
          BY <1>1, <1>2, <5>1 DEF Chain
        <5> QED
          BY <2>2, <4>2, <5>2
      <4> QED
        BY <4>1, <4>2
    <3>2. g = [k \in 0 .. n |-> g[k]]
      BY <1>1, <1>2 DEF Chain
    <3> QED
      BY <1>1, <3>1, <3>2
  <2>4. Def(read)
    <3> HIDE DEF Def
    <3> QED
      BY <2>3
  <2> HIDE DEF read
  <2>5. read[0] = At(m, 0)
    BY <1>1, <2>4 DEF At
  <2>6. read = [k \in 0 .. Len(s) |-> read[k]]
    BY <2>4
  <2>7. ASSUME NEW k \in 1 .. Len(s)
        PROVE  read[k] = Turn(c, s, read[k - 1], SubAt(l, c, s, read[k - 1]))
    <3>1. k \in 0 .. Len(s) /\ k # 0
      BY <1>1
    <3>2. read[k] = Turn(c, s, read[k - 1], MergeFromCells1(Behind(c, s, read[k - 1]).type, Behind(c, s, read[k - 1]).into, Behind(c, s, read[k - 1]).cells))
      BY <2>4, <3>1
    <3> QED
      BY <2>2, <3>2
  <2> HIDE DEF Def
  <2> QED
    BY <2>1, <2>5, <2>6, <2>7 DEF Chain
<1>4. CASE l = 2
  <2> DEFINE Def(f) == f = [k \in 0 .. Len(s) |->
                 IF k = 0 THEN [ok |-> TRUE, msg |-> m, at |-> 0]
                 ELSE Turn(c, s, f[k - 1], MergeFromCells0(Behind(c, s, f[k - 1]).type, Behind(c, s, f[k - 1]).into, Behind(c, s, f[k - 1]).cells))]
             read == CHOOSE f : Def(f)
  <2>1. ReadAt(l, c, m, s) = read[Len(s)]
    BY <1>4 DEF ReadAt, MergeFromCells1, ReadWith
  <2>2. \A r : SubAt(l, c, s, r) = MergeFromCells0(Behind(c, s, r).type, Behind(c, s, r).into, Behind(c, s, r).cells)
    BY <1>4 DEF SubAt, ReadAt
  <2>3. Def(g)
    <3>1. ASSUME NEW k \in 0 .. n
          PROVE  g[k] = IF k = 0 THEN [ok |-> TRUE, msg |-> m, at |-> 0]
                        ELSE Turn(c, s, g[k - 1], MergeFromCells0(Behind(c, s, g[k - 1]).type, Behind(c, s, g[k - 1]).into, Behind(c, s, g[k - 1]).cells))
      <4>1. CASE k = 0
        BY <1>2, <4>1 DEF At
      <4>2. CASE k # 0
        <5>1. k \in 1 .. n
          BY <4>2
        <5>2. g[k] = Turn(c, s, g[k - 1], SubAt(l, c, s, g[k - 1]))
          BY <1>1, <1>2, <5>1 DEF Chain
        <5> QED
          BY <2>2, <4>2, <5>2
      <4> QED
        BY <4>1, <4>2
    <3>2. g = [k \in 0 .. n |-> g[k]]
      BY <1>1, <1>2 DEF Chain
    <3> QED
      BY <1>1, <3>1, <3>2
  <2>4. Def(read)
    <3> HIDE DEF Def
    <3> QED
      BY <2>3
  <2> HIDE DEF read
  <2>5. read[0] = At(m, 0)
    BY <1>1, <2>4 DEF At
  <2>6. read = [k \in 0 .. Len(s) |-> read[k]]
    BY <2>4
  <2>7. ASSUME NEW k \in 1 .. Len(s)
        PROVE  read[k] = Turn(c, s, read[k - 1], SubAt(l, c, s, read[k - 1]))
    <3>1. k \in 0 .. Len(s) /\ k # 0
      BY <1>1
    <3>2. read[k] = Turn(c, s, read[k - 1], MergeFromCells0(Behind(c, s, read[k - 1]).type, Behind(c, s, read[k - 1]).into, Behind(c, s, read[k - 1]).cells))
      BY <2>4, <3>1
    <3> QED
      BY <2>2, <3>2
  <2> HIDE DEF Def
  <2> QED
    BY <2>1, <2>5, <2>6, <2>7 DEF Chain
<1>5. CASE l = 1
  <2> DEFINE Def(f) == f = [k \in 0 .. Len(s) |->
                 IF k = 0 THEN [ok |-> TRUE, msg |-> m, at |-> 0]
                 ELSE Turn(c, s, f[k - 1], [ok |-> FALSE, msg |-> Behind(c, s, f[k - 1]).into, at |-> 0])]
             read == CHOOSE f : Def(f)
  <2>1. ReadAt(l, c, m, s) = read[Len(s)]
    BY <1>5 DEF ReadAt, MergeFromCells0, ReadWith
  <2>2. \A r : SubAt(l, c, s, r) = [ok |-> FALSE, msg |-> Behind(c, s, r).into, at |-> 0]
    BY <1>5 DEF SubAt, ReadAt
  <2>3. Def(g)
    <3>1. ASSUME NEW k \in 0 .. n
          PROVE  g[k] = IF k = 0 THEN [ok |-> TRUE, msg |-> m, at |-> 0]
                        ELSE Turn(c, s, g[k - 1], [ok |-> FALSE, msg |-> Behind(c, s, g[k - 1]).into, at |-> 0])
      <4>1. CASE k = 0
        BY <1>2, <4>1 DEF At
      <4>2. CASE k # 0
        <5>1. k \in 1 .. n
          BY <4>2
        <5>2. g[k] = Turn(c, s, g[k - 1], SubAt(l, c, s, g[k - 1]))
          BY <1>1, <1>2, <5>1 DEF Chain
        <5> QED
          BY <2>2, <4>2, <5>2
      <4> QED
        BY <4>1, <4>2
    <3>2. g = [k \in 0 .. n |-> g[k]]
      BY <1>1, <1>2 DEF Chain
    <3> QED
      BY <1>1, <3>1, <3>2
  <2>4. Def(read)
    <3> HIDE DEF Def
    <3> QED
      BY <2>3
  <2> HIDE DEF read
  <2>5. read[0] = At(m, 0)
    BY <1>1, <2>4 DEF At
  <2>6. read = [k \in 0 .. Len(s) |-> read[k]]
    BY <2>4
  <2>7. ASSUME NEW k \in 1 .. Len(s)
        PROVE  read[k] = Turn(c, s, read[k - 1], SubAt(l, c, s, read[k - 1]))
    <3>1. k \in 0 .. Len(s) /\ k # 0
      BY <1>1
    <3>2. read[k] = Turn(c, s, read[k - 1], [ok |-> FALSE, msg |-> Behind(c, s, read[k - 1]).into, at |-> 0])
      BY <2>4, <3>1
    <3> QED
      BY <2>2, <3>2
  <2> HIDE DEF Def
  <2> QED
    BY <2>1, <2>5, <2>6, <2>7 DEF Chain
<1> QED
  BY <1>3, <1>4, <1>5

\* t stands in s behind the first j cells.
Place(s, j, t) ==
    /\ IsSeq(s) /\ j \in Nat /\ j + Len(t) <= Len(s)
    /\ \A i \in 1 .. Len(t) : s[j + i] = t[i]

\* After no more turns than cells m has been made of the first j cells.
Gets(read, j, m) == \E k \in 0 .. j : read[k] = At(m, j)

\* Wherever t stands, it makes b of a.
Leads(l, c, a, t, b) ==
    /\ IsSeq(t)
    /\ \A s, j, read : Place(s, j, t) /\ Chain(l, c, s, read) /\ Gets(read, j, a)
                       => Gets(read, j + Len(t), b)

LEMMA LeadsNone ==
  ASSUME NEW l, NEW c, NEW a
  PROVE  Leads(l, c, a, << >>, a)
<1>1. PICK t : t = << >> /\ IsSeq(t) /\ Len(t) = 0
  BY EmptyIsSeq
<1>2. ASSUME NEW s, NEW j, NEW read, Place(s, j, t), Gets(read, j, a)
      PROVE  Gets(read, j + Len(t), a)
  <2>1. j + Len(t) = j
    BY <1>1, <1>2 DEF Place
  <2> QED
    BY <1>2, <2>1
<1> QED
  BY <1>1, <1>2 DEF Leads

LEMMA PlaceBoth ==
  ASSUME NEW s, NEW j, NEW t, NEW u, IsSeq(t), IsSeq(u), Place(s, j, t \o u)
  PROVE  /\ Place(s, j, t) /\ Place(s, j + Len(t), u)
         /\ j + Len(t \o u) = (j + Len(t)) + Len(u)
<1>1. PICK n, m \in Nat : n = Len(t) /\ m = Len(u)
  BY SeqElim
<1>2. PICK v : v = t \o u
  OBVIOUS
<1>3. /\ Len(v) = n + m
      /\ \A i \in 1 .. n : v[i] = t[i]
      /\ \A i \in 1 .. m : v[n + i] = u[i]
  BY <1>1, <1>2, Joined
<1>4. /\ IsSeq(s) /\ j \in Nat /\ j + (n + m) <= Len(s)
      /\ \A i \in 1 .. n + m : s[j + i] = v[i]
  BY <1>2, <1>3 DEF Place
<1>5. PICK z \in Nat : z = Len(s)
  BY <1>4, SeqElim
<1>6. j + n <= z /\ j + n \in Nat /\ (j + n) + m <= z
  BY <1>4, <1>5
<1>7. ASSUME NEW i \in 1 .. n PROVE s[j + i] = t[i]
  <2>1. i \in 1 .. n + m
    OBVIOUS
  <2> QED
    BY <1>3, <1>4, <2>1
<1>8. ASSUME NEW i \in 1 .. m PROVE s[(j + n) + i] = u[i]
  <2>1. PICK h \in 1 .. n + m : h = n + i
    OBVIOUS
  <2>2. s[j + h] = v[h] /\ v[h] = u[i]
    BY <1>3, <1>4, <2>1
  <2>3. (j + n) + i = j + h
    BY <1>4, <2>1
  <2> QED
    BY <2>2, <2>3
<1>9. Place(s, j, t)
  BY <1>1, <1>4, <1>5, <1>6, <1>7 DEF Place
<1>10. Place(s, j + n, u)
  BY <1>1, <1>4, <1>5, <1>6, <1>8 DEF Place
<1>11. j + (n + m) = (j + n) + m
  BY <1>4
<1> QED
  BY <1>1, <1>2, <1>3, <1>9, <1>10, <1>11

LEMMA LeadsThen ==
  ASSUME NEW l, NEW c, NEW a, NEW b, NEW e, NEW t, NEW u,
         Leads(l, c, a, t, b), Leads(l, c, b, u, e)
  PROVE  Leads(l, c, a, t \o u, e)
<1>1. IsSeq(t) /\ IsSeq(u) /\ IsSeq(t \o u)
  BY CatFacts DEF Leads
<1>2. ASSUME NEW s, NEW j, NEW read,
             Place(s, j, t \o u), Chain(l, c, s, read), Gets(read, j, a)
      PROVE  Gets(read, j + Len(t \o u), e)
  <2>1. /\ Place(s, j, t) /\ Place(s, j + Len(t), u)
        /\ j + Len(t \o u) = (j + Len(t)) + Len(u)
    BY <1>1, <1>2, PlaceBoth
  <2>2. Gets(read, j + Len(t), b)
    BY <1>2, <2>1 DEF Leads
  <2>3. Gets(read, (j + Len(t)) + Len(u), e)
    BY <1>2, <2>1, <2>2 DEF Leads
  <2> QED
    BY <2>1, <2>3
<1> QED
  BY <1>1, <1>2 DEF Leads

LEMMA LeadsAlong ==
  ASSUME NEW l, NEW c, NEW ss, AllSeqs(ss), NEW E,
         \A k \in 1 .. Len(ss) : Leads(l, c, E[k - 1], ss[k], E[k])
  PROVE  Leads(l, c, E[0], FlattenSeq(ss), E[Len(ss)])
<1>1. PICK n \in Nat : n = Len(ss)
  BY SeqElim DEF AllSeqs
<1>2. PICK w : Joins(w, ss)
  BY JoinsExist
<1> DEFINE T == {j \in Nat : j <= n => Leads(l, c, E[0], w[j], E[j])}
<1>3. 0 \in T
  BY <1>2, LeadsNone DEF Joins
<1>4. ASSUME NEW j \in T, j \in Nat PROVE j + 1 \in T
  <2> SUFFICES ASSUME j + 1 <= n PROVE Leads(l, c, E[0], w[j + 1], E[j + 1])
    OBVIOUS
  <2>1. PICK k \in 1 .. n : k = j + 1 /\ k - 1 = j /\ j <= n
    BY <1>4
  <2>2. Leads(l, c, E[0], w[j], E[j])
    BY <1>4, <2>1
  <2> HIDE DEF T
  <2>3. w[k] = w[k - 1] \o ss[k]
    BY <1>1, <1>2, <2>1 DEF Joins
  <2>4. Leads(l, c, E[k - 1], ss[k], E[k])
    BY <1>1, <2>1
  <2>5. w[k] = w[j] \o ss[k] /\ Leads(l, c, E[j], ss[k], E[k])
    BY <2>1, <2>3, <2>4
  <2>6. Leads(l, c, E[0], w[j] \o ss[k], E[k])
    BY <2>2, <2>5, LeadsThen
  <2> QED
    BY <2>1, <2>5, <2>6
<1> HIDE DEF T
<1>5. Nat \subseteq T
  BY <1>3, <1>4, SetInduction
<1>6. Leads(l, c, E[0], w[n], E[n])
  BY <1>5 DEF T
<1>7. FlattenSeq(ss) = w[n]
  BY <1>1, <1>2, FlattenIsJoin
<1> QED
  BY <1>1, <1>6, <1>7

\* The field that stands in s behind the first j cells is read in one turn.
LEMMA NumberIsRead ==
  ASSUME NEW c, NEW n \in Number(c), Schema[c][n].type = "int",
         NEW p, Len(p) = 2, NEW v, p[1] = <<"tag", n, "varint">>, p[2] = <<"int", v>>,
         NEW s, NEW j, Place(s, j, p), NEW a, NEW sub
  PROVE  Turn(c, s, At(a, j), sub) = At(Store(a, Schema[c][n], v), j + 2)
<1>1. PICK z \in Nat : z = Len(s)
  BY SeqElim DEF Place
<1>2. PICK i \in Nat : i = j + 1
  BY DEF Place
<1>3. j \in Nat /\ j + 2 <= z /\ i < z /\ j # z /\ ~(j + 2 > z) /\ i + 1 = j + 2
  BY <1>1, <1>2 DEF Place
<1>4. s[i] = <<"tag", n, "varint">> /\ s[i + 1] = <<"int", v>>
  <2>1. 1 \in 1 .. 2 /\ 2 \in 1 .. 2
    OBVIOUS
  <2>2. s[j + 1] = p[1] /\ s[j + 2] = p[2]
    BY <2>1 DEF Place
  <2> QED
    BY <1>2, <1>3, <2>2
<1>5. FieldSize(s, i) = 2
  BY <1>1, <1>3, <1>4 DEF FieldSize
<1>6. PICK r : r = At(a, j)
  OBVIOUS
<1>7. r.ok = TRUE /\ r.at = j /\ r.msg = a /\ r = [ok |-> TRUE, msg |-> a, at |-> j]
  BY <1>6 DEF At
<1>8. PICK row : row = Schema[c][n]
  OBVIOUS
<1>9. /\ r.at + 1 = i /\ r.at + FieldSize(s, r.at + 1) = j + 2
      /\ ~(~r.ok \/ r.at = Len(s)) /\ ~(r.at + FieldSize(s, r.at + 1) > Len(s))
  BY <1>1, <1>2, <1>3, <1>5, <1>7
<1>10. /\ s[r.at + 1][2] = n /\ s[r.at + 1][3] = "varint" /\ s[(r.at + 1) + 1][2] = v
       /\ row.type = "int" /\ WireType(row.type) = "varint"
  BY <1>4, <1>8, <1>9 DEF WireType
<1>11. Turn(c, s, r, sub) = [r EXCEPT !.at = j + 2, !.msg = Store(r.msg, row, v)]
  BY <1>8, <1>9, <1>10 DEF Turn, TurnTo
<1> QED
  BY <1>6, <1>7, <1>8, <1>11 DEF At

TextOf(k, v) == IF k = 0 THEN "" ELSE v

LEMMA TextIsRead ==
  ASSUME NEW c, NEW n \in Number(c), Schema[c][n].type = "string",
         NEW k \in Nat, k = 0 \/ k = 1, NEW p, Len(p) = k + 2, NEW v,
         p[1] = <<"tag", n, "delimited">>, p[2] = <<"len", k>>, k = 1 => p[3] = <<"text", v>>,
         NEW s, NEW j, Place(s, j, p), NEW a, NEW sub
  PROVE  Turn(c, s, At(a, j), sub) = At(Store(a, Schema[c][n], TextOf(k, v)), j + (k + 2))
<1>1. PICK z \in Nat : z = Len(s)
  BY SeqElim DEF Place
<1>0. j \in Nat /\ k \in Nat
  BY DEF Place
<1>2. PICK i, end : i = j + 1 /\ end = j + (k + 2)
  OBVIOUS
<1>3. /\ j \in Nat /\ end <= z /\ i < z /\ j # z /\ ~(end > z) /\ i + 1 = j + 2
      /\ (end = i + 1 <=> k = 0)
  BY <1>0, <1>1, <1>2 DEF Place
<1>4. s[i] = <<"tag", n, "delimited">> /\ s[i + 1] = <<"len", k>>
  <2>1. 1 \in 1 .. k + 2 /\ 2 \in 1 .. k + 2
    BY <1>0
  <2>2. s[j + 1] = p[1] /\ s[j + 2] = p[2]
    BY <2>1 DEF Place
  <2> QED
    BY <1>2, <1>3, <2>2
<1>5. k = 1 => s[i + 2] = <<"text", v>>
  <2> SUFFICES ASSUME k = 1 PROVE s[i + 2] = <<"text", v>>
    OBVIOUS
  <2>1. 3 \in 1 .. k + 2 /\ i + 2 = j + 3
    BY <1>2, <1>3
  <2>2. s[j + 3] = p[3]
    BY <2>1 DEF Place
  <2> QED
    BY <2>1, <2>2
<1>6. FieldSize(s, i) = k + 2 /\ j + FieldSize(s, i) = end
  <2>0. PICK x, y : x = s[i] /\ y = s[i + 1]
    OBVIOUS
  <2>1. ~(i >= Len(s)) /\ x[1] = "tag" /\ x[3] = "delimited" /\ y[1] = "len" /\ y[2] = k
    BY <1>0, <1>1, <1>2, <1>3, <1>4, <2>0
  <2>2. FieldSize(s, i) = 2 + k
    BY <2>0, <2>1 DEF FieldSize
  <2>3. 2 + k = k + 2 /\ j + (2 + k) = end
    BY <1>0, <1>2
  <2> QED
    BY <2>2, <2>3
<1>7. (IF end = i + 1 THEN "" ELSE s[i + 2][2]) = TextOf(k, v)
  <2>1. CASE k = 0
    BY <1>3, <2>1 DEF TextOf
  <2>2. CASE k = 1
    BY <1>3, <1>5, <2>2 DEF TextOf
  <2> QED
    BY <2>1, <2>2
<1>8. PICK r : r = At(a, j)
  OBVIOUS
<1>9. r.ok = TRUE /\ r.at = j /\ r.msg = a /\ r = [ok |-> TRUE, msg |-> a, at |-> j]
  BY <1>8 DEF At
<1>10. PICK row : row = Schema[c][n]
  OBVIOUS
<1>11. /\ r.at + 1 = i /\ r.at + FieldSize(s, r.at + 1) = end /\ (r.at + 1) + 2 = i + 2
       /\ ~(~r.ok \/ r.at = Len(s)) /\ ~(r.at + FieldSize(s, r.at + 1) > Len(s))
  BY <1>1, <1>2, <1>3, <1>6, <1>9
<1>12. /\ s[r.at + 1][2] = n /\ s[r.at + 1][3] = "delimited"
       /\ row.type = "string" /\ WireType(row.type) = "delimited"
  BY <1>4, <1>10, <1>11 DEF WireType
<1>13. Turn(c, s, r, sub) =
          [r EXCEPT !.at = end, !.msg = Store(r.msg, row, IF end = i + 1 THEN "" ELSE s[i + 2][2])]
  BY <1>10, <1>11, <1>12 DEF Turn, TurnTo
<1> QED
  BY <1>2, <1>7, <1>8, <1>9, <1>10, <1>13, ZenonT(40) DEF At

LEMMA MessageIsRead ==
  ASSUME NEW c, NEW n \in Number(c), Schema[c][n].type \in Class,
         NEW cells, IsSeq(cells), NEW k \in Nat, k = Len(cells), NEW p, Len(p) = k + 2,
         p[1] = <<"tag", n, "delimited">>, p[2] = <<"len", k>>,
         \A i \in 1 .. k : p[i + 2] = cells[i],
         NEW s, NEW j, Place(s, j, p), NEW a, NEW sub
  PROVE  /\ Turn(c, s, At(a, j), sub) =
               [ok |-> sub.ok, msg |-> Store(a, Schema[c][n], sub.msg), at |-> j + (k + 2)]
         /\ Behind(c, s, At(a, j)) =
               [type  |-> Schema[c][n].type,
                into  |-> IF Schema[c][n].repeated THEN Clear ELSE GetMessage(a, Schema[c][n].name),
                cells |-> cells]
<1>1. PICK z \in Nat : z = Len(s)
  BY SeqElim DEF Place
<1>0. j \in Nat /\ k \in Nat
  BY DEF Place
<1>2. PICK i, end : i = j + 1 /\ end = j + (k + 2)
  OBVIOUS
<1>3. /\ j \in Nat /\ end <= z /\ i < z /\ j # z /\ ~(end > z) /\ i + 1 = j + 2
  BY <1>1, <1>2 DEF Place
<1>4. s[i] = <<"tag", n, "delimited">> /\ s[i + 1] = <<"len", k>>
  <2>1. 1 \in 1 .. k + 2 /\ 2 \in 1 .. k + 2
    BY <1>0
  <2>2. s[j + 1] = p[1] /\ s[j + 2] = p[2]
    BY <2>1 DEF Place
  <2> QED
    BY <1>2, <1>3, <2>2
<1>5. FieldSize(s, i) = k + 2 /\ j + FieldSize(s, i) = end
  <2>0. PICK x, y : x = s[i] /\ y = s[i + 1]
    OBVIOUS
  <2>1. ~(i >= Len(s)) /\ x[1] = "tag" /\ x[3] = "delimited" /\ y[1] = "len" /\ y[2] = k
    BY <1>0, <1>1, <1>2, <1>3, <1>4, <2>0
  <2>2. FieldSize(s, i) = 2 + k
    BY <2>0, <2>1 DEF FieldSize
  <2>3. 2 + k = k + 2 /\ j + (2 + k) = end
    BY <1>0, <1>2
  <2> QED
    BY <2>2, <2>3
<1>6. SubSeq(s, j + 3, end) = cells
  <2>1. PICK m \in Nat : m = j + 2 /\ m + 1 = j + 3 /\ m + k = end /\ m + Len(cells) <= Len(s)
    BY <1>1, <1>2, <1>3
  <2>2. \A h \in 1 .. k : s[m + h] = cells[h]
    <3> SUFFICES ASSUME NEW h \in 1 .. k PROVE s[m + h] = cells[h]
      OBVIOUS
    <3>1. h + 2 \in 1 .. k + 2 /\ j + (h + 2) = m + h
      BY <1>3, <2>1
    <3>2. s[j + (h + 2)] = p[h + 2]
      BY <3>1 DEF Place
    <3> QED
      BY <3>1, <3>2
  <2>3. IsSeq(s) /\ IsSeq(cells) /\ \A h \in 1 .. Len(cells) : s[m + h] = cells[h]
    BY <2>2 DEF Place
  <2>4. SubSeq(s, m + 1, m + Len(cells)) = cells
    BY <2>1, <2>3, Stretch
  <2> QED
    BY <2>1, <2>4
<1>7. PICK r : r = At(a, j)
  OBVIOUS
<1>8. r.ok = TRUE /\ r.at = j /\ r.msg = a /\ r = [ok |-> TRUE, msg |-> a, at |-> j]
  BY <1>7 DEF At
<1>9. PICK row : row = Schema[c][n]
  OBVIOUS
<1>10. row.type # "int" /\ row.type # "string"
  BY <1>9, ClassIs
<1>11. /\ r.at + 1 = i /\ r.at + FieldSize(s, r.at + 1) = end /\ r.at + 3 = j + 3
       /\ ~(~r.ok \/ r.at = Len(s)) /\ ~(r.at + FieldSize(s, r.at + 1) > Len(s))
  BY <1>1, <1>2, <1>3, <1>5, <1>8
<1>12. /\ s[r.at + 1][2] = n /\ s[r.at + 1][3] = "delimited"
       /\ WireType(row.type) = "delimited"
  BY <1>4, <1>10, <1>11 DEF WireType
<1>13. Turn(c, s, r, sub) = [ok |-> sub.ok, msg |-> Store(a, row, sub.msg), at |-> end]
  BY <1>8, <1>9, <1>10, <1>11, <1>12 DEF Turn, TurnTo
<1>14. Behind(c, s, r) =
          [type  |-> row.type,
           into  |-> IF row.repeated THEN Clear ELSE GetMessage(a, row.name),
           cells |-> SubSeq(s, j + 3, end)]
  BY <1>8, <1>9, <1>11, <1>12 DEF Behind, InRow
<1> QED
  BY <1>2, <1>6, <1>7, <1>9, <1>13, <1>14

\* A turn that takes n cells more.
LEMMA ChainStep ==
  ASSUME NEW l, NEW c, NEW s, IsSeq(s), NEW read, Chain(l, c, s, read),
         NEW j \in Nat, NEW a, Gets(read, j, a), NEW n \in Nat, n >= 1, j + n <= Len(s), NEW b,
         Turn(c, s, At(a, j), SubAt(l, c, s, At(a, j))) = At(b, j + n)
  PROVE  Gets(read, j + n, b)
<1>1. PICK z \in Nat : z = Len(s)
  BY SeqElim
<1>2. PICK k \in 0 .. j : read[k] = At(a, j)
  BY DEF Gets
<1>3. PICK h : h = k + 1
  OBVIOUS
<1>4. h \in 1 .. z /\ h - 1 = k /\ h \in 0 .. j + n
  BY <1>1, <1>2, <1>3
<1>5. read[h] = Turn(c, s, read[h - 1], SubAt(l, c, s, read[h - 1]))
  BY <1>1, <1>4 DEF Chain
<1>6. read[h] = At(b, j + n)
  BY <1>2, <1>4, <1>5
<1> QED
  BY <1>4, <1>6 DEF Gets

\* Turns at the end change nothing.
LEMMA ChainStays ==
  ASSUME NEW l, NEW c, NEW s, IsSeq(s), NEW read, Chain(l, c, s, read),
         NEW b, Gets(read, Len(s), b)
  PROVE  read[Len(s)] = At(b, Len(s))
<1>1. PICK z \in Nat : z = Len(s)
  BY SeqElim
<1>2. PICK k \in 0 .. z : read[k] = At(b, z)
  BY <1>1 DEF Gets
<1>3. PICK r : r = At(b, z)
  OBVIOUS
<1>4. \A sub : Turn(c, s, r, sub) = r
  <2>1. r.at = Len(s)
    BY <1>1, <1>3 DEF At
  <2> QED
    BY <2>1 DEF Turn, TurnTo
<1> DEFINE T == {i \in Nat : k + i <= z => read[k + i] = r}
<1>5. 0 \in T
  <2>1. k + 0 = k
    OBVIOUS
  <2> QED
    BY <1>2, <1>3, <2>1
<1>6. ASSUME NEW i \in T, i \in Nat PROVE i + 1 \in T
  <2> SUFFICES ASSUME k + (i + 1) <= z PROVE read[k + (i + 1)] = r
    OBVIOUS
  <2>1. read[k + i] = r
    BY <1>6
  <2>2. PICK h : h = k + (i + 1)
    OBVIOUS
  <2>3. h \in 1 .. z /\ h - 1 = k + i
    BY <1>6, <2>2
  <2> HIDE DEF T
  <2>4. read[h] = Turn(c, s, read[h - 1], SubAt(l, c, s, read[h - 1]))
    BY <1>1, <2>3 DEF Chain
  <2> QED
    BY <1>4, <2>1, <2>2, <2>3, <2>4
<1> HIDE DEF T
<1>7. Nat \subseteq T
  BY <1>5, <1>6, SetInduction
<1>8. PICK i \in Nat : i = z - k /\ k + i = z
  OBVIOUS
<1>9. read[z] = r
  <2>1. i \in T
    BY <1>7, <1>8
  <2>2. k + i <= z => read[k + i] = r
    BY <2>1 DEF T
  <2>3. k + i <= z
    BY <1>8
  <2> QED
    BY <1>8, <2>2, <2>3
<1> QED
  BY <1>1, <1>3, <1>9

\* What makes b of a is read so.
LEMMA ReadBack ==
  ASSUME NEW l \in 1 .. 3, NEW c, NEW a, NEW t, NEW b, Leads(l, c, a, t, b)
  PROVE  ReadAt(l, c, a, t) = At(b, Len(t))
<1>1. IsSeq(t)
  BY DEF Leads
<1>2. PICK z \in Nat : z = Len(t)
  BY <1>1, SeqElim
<1>3. PICK read : Chain(l, c, t, read) /\ read[0] = At(a, 0) /\ ReadAt(l, c, a, t) = read[Len(t)]
  BY ONLY l \in 1 .. 3, <1>1, ReadIs
<1>4. Place(t, 0, t)
  BY <1>1, <1>2 DEF Place
<1>5. Gets(read, 0, a)
  BY <1>3 DEF Gets
<1>6. Gets(read, 0 + Len(t), b)
  BY <1>3, <1>4, <1>5 DEF Leads
<1>7. 0 + Len(t) = Len(t)
  BY <1>2
<1> QED
  BY <1>1, <1>3, <1>6, <1>7, ChainStays

-----------------------------------------------------------------------------
(* What a message is read into.                                            *)

\* A message something of class c may be read into: what is not an optional field of the
\* class is a sequence, and the messages in it are so too.
FitsWith(c, a, Within(_, _)) ==
    /\ a = [f \in DOMAIN a |-> a[f]]
    /\ \A f \in DOMAIN a :
          (\A n \in Number(c) : Schema[c][n].name = f => Schema[c][n].repeated) => IsSeq(a[f])
    /\ \A n \in Number(c) :
          Schema[c][n].type \in Class /\ ~Schema[c][n].repeated =>
             Within(Schema[c][n].type, GetMessage(a, Schema[c][n].name))

Fits1(c, a) == FitsWith(c, a, LAMBDA t, v : TRUE)
Fits2(c, a) == FitsWith(c, a, Fits1)
Fits3(c, a) == FitsWith(c, a, Fits2)

FitsAt(l, c, a) ==
    IF l = 3 THEN Fits3(c, a) ELSE IF l = 2 THEN Fits2(c, a)
    ELSE IF l = 1 THEN Fits1(c, a) ELSE TRUE

LEMMA FitsFacts ==
  ASSUME NEW l \in 1 .. 3, NEW c, NEW a
  PROVE  FitsAt(l, c, a) <=>
            /\ a = [f \in DOMAIN a |-> a[f]]
            /\ \A f \in DOMAIN a :
                  (\A n \in Number(c) : Schema[c][n].name = f => Schema[c][n].repeated)
                  => IsSeq(a[f])
            /\ \A n \in Number(c) :
                  Schema[c][n].type \in Class /\ ~Schema[c][n].repeated =>
                     FitsAt(l - 1, Schema[c][n].type, GetMessage(a, Schema[c][n].name))
<1>1. CASE l = 3
  BY <1>1 DEF FitsAt, Fits3, FitsWith
<1>2. CASE l = 2
  BY <1>2 DEF FitsAt, Fits2, FitsWith
<1>3. CASE l = 1
  BY <1>3 DEF FitsAt, Fits1, FitsWith
<1> QED
  BY <1>1, <1>2, <1>3

\* The empty message does, and so does every message of the class.
LEMMA ClearFits ==
  ASSUME NEW l \in 0 .. 3, NEW c
  PROVE  FitsAt(l, c, Clear)
<1>1. /\ Clear = [f \in DOMAIN Clear |-> Clear[f]] /\ DOMAIN Clear = {}
      /\ \A f : GetMessage(Clear, f) = Clear
  BY DEF Clear, GetMessage, IsSet
<1>2. \A t : FitsAt(0, t, Clear)
  BY DEF FitsAt
<1>6. ASSUME NEW k \in 1 .. 3, \A t : FitsAt(k - 1, t, Clear), NEW t
      PROVE  FitsAt(k, t, Clear)
  <2>1. PICK x : x = Clear
    OBVIOUS
  <2>2. x = [f \in DOMAIN x |-> x[f]]
    BY <1>1, <2>1
  <2>3. \A f \in DOMAIN x :
           (\A n \in Number(t) : Schema[t][n].name = f => Schema[t][n].repeated) => IsSeq(x[f])
    BY <1>1, <2>1
  <2>4. \A n \in Number(t) :
           Schema[t][n].type \in Class /\ ~Schema[t][n].repeated =>
              FitsAt(k - 1, Schema[t][n].type, GetMessage(x, Schema[t][n].name))
    BY <1>1, <1>6, <2>1
  <2>5. FitsAt(k, t, x)
    BY ONLY k \in 1 .. 3, <2>2, <2>3, <2>4, FitsFacts
  <2> QED
    BY <2>1, <2>5
<1>3. \A t : FitsAt(1, t, Clear)
  BY <1>2, <1>6, 1 - 1 = 0
<1>4. \A t : FitsAt(2, t, Clear)
  BY <1>3, <1>6, 2 - 1 = 1
<1>5. \A t : FitsAt(3, t, Clear)
  BY <1>4, <1>6, 3 - 1 = 2
<1> QED
  BY <1>2, <1>3, <1>4, <1>5

\* The optional fields of a name, of which there is one at most.
RowsOf(c, f) == {row \in {Schema[c][n] : n \in Number(c)} : row.name = f /\ ~row.repeated}

TypeOf(c, f) == (CHOOSE row \in RowsOf(c, f) : TRUE).type

MergedField(l, c, a, b, f) ==
    IF RowsOf(c, f) = {} THEN List(a, f) \o List(b, f)
    ELSE IF ~IsSet(b, f) THEN a[f]
    ELSE IF IsMessage(TypeOf(c, f)) THEN MergeAt(l - 1, TypeOf(c, f), GetMessage(a, f), b[f]) ELSE b[f]

Merged(l, c, a, b) == [f \in DOMAIN a \cup DOMAIN b |-> MergedField(l, c, a, b, f)]

LEMMA MergeIs ==
  ASSUME NEW l \in 1 .. 3, NEW c, NEW a, NEW b
  PROVE  MergeAt(l, c, a, b) = Merged(l, c, a, b)
<1>1. CASE l = 3
  <2>1. MergeAt(l, c, a, b) = [f \in DOMAIN a \cup DOMAIN b |->
            IF RowsOf(c, f) = {} THEN List(a, f) \o List(b, f)
            ELSE IF ~IsSet(b, f) THEN a[f]
            ELSE IF IsMessage(TypeOf(c, f)) THEN MergeFrom1(TypeOf(c, f), GetMessage(a, f), b[f]) ELSE b[f]]
    BY <1>1 DEF MergeAt, MergeFrom, MergeWith, RowsOf, TypeOf
  <2>2. \A t, x, y : MergeAt(l - 1, t, x, y) = MergeFrom1(t, x, y)
    BY <1>1 DEF MergeAt
  <2> QED
    BY <2>1, <2>2 DEF MergedField, Merged
<1>2. CASE l = 2
  <2>1. MergeAt(l, c, a, b) = [f \in DOMAIN a \cup DOMAIN b |->
            IF RowsOf(c, f) = {} THEN List(a, f) \o List(b, f)
            ELSE IF ~IsSet(b, f) THEN a[f]
            ELSE IF IsMessage(TypeOf(c, f)) THEN MergeFrom0(TypeOf(c, f), GetMessage(a, f), b[f]) ELSE b[f]]
    BY <1>2 DEF MergeAt, MergeFrom1, MergeWith, RowsOf, TypeOf
  <2>2. \A t, x, y : MergeAt(l - 1, t, x, y) = MergeFrom0(t, x, y)
    BY <1>2 DEF MergeAt
  <2> QED
    BY <2>1, <2>2 DEF MergedField, Merged
<1>3. CASE l = 1
  <2>1. MergeAt(l, c, a, b) = [f \in DOMAIN a \cup DOMAIN b |->
            IF RowsOf(c, f) = {} THEN List(a, f) \o List(b, f)
            ELSE IF ~IsSet(b, f) THEN a[f]
            ELSE IF IsMessage(TypeOf(c, f)) THEN b[f] ELSE b[f]]
    BY <1>3 DEF MergeAt, MergeFrom0, MergeWith, RowsOf, TypeOf
  <2>2. \A t, x, y : MergeAt(l - 1, t, x, y) = y
    BY <1>3 DEF MergeAt
  <2> QED
    BY <2>1, <2>2 DEF MergedField, Merged
<1> QED
  BY <1>1, <1>2, <1>3

\* What is an optional field of the class, and what is not.
OptionalField(c, f) == \E n \in Number(c) : Schema[c][n].name = f /\ ~Schema[c][n].repeated

Maps(g, D) == g = [f \in D |-> g[f]]

LEMMA MapsSame ==
  ASSUME NEW g, NEW h, NEW D, Maps(g, D), Maps(h, D), \A f \in D : g[f] = h[f]
  PROVE  g = h
BY DEF Maps

LEMMA MergeMaps ==
  ASSUME NEW l \in 1 .. 3, NEW c, NEW a, NEW b
  PROVE  /\ Maps(MergeAt(l, c, a, b), DOMAIN a \cup DOMAIN b)
         /\ \A f \in DOMAIN a \cup DOMAIN b : MergeAt(l, c, a, b)[f] = MergedField(l, c, a, b, f)
<1>1. PICK D : D = DOMAIN a \cup DOMAIN b
  OBVIOUS
<1>2. PICK G : G = MergeAt(l, c, a, b)
  OBVIOUS
<1>3. MergeAt(l, c, a, b) = Merged(l, c, a, b)
  BY MergeIs
<1>4. G = [f \in D |-> MergedField(l, c, a, b, f)]
  BY <1>1, <1>2, <1>3 DEF Merged
<1>5. Maps(G, D) /\ \A f \in D : G[f] = MergedField(l, c, a, b, f)
  BY <1>4 DEF Maps
<1> QED
  BY <1>1, <1>2, <1>5

LEMMA MergedRest ==
  ASSUME NEW l, NEW c, NEW a, NEW b, NEW f, ~OptionalField(c, f)
  PROVE  MergedField(l, c, a, b, f) = List(a, f) \o List(b, f)
<1>1. RowsOf(c, f) = {}
  BY DEF OptionalField, RowsOf
<1> QED
  BY <1>1 DEF MergedField

LEMMA MergedOptional ==
  ASSUME NEW l, NEW c \in Class, NEW a, NEW b,
         NEW n \in Number(c), NEW f, Schema[c][n].name = f, ~Schema[c][n].repeated
  PROVE  /\ ~IsSet(b, f) => MergedField(l, c, a, b, f) = a[f]
         /\ IsSet(b, f) /\ Schema[c][n].type \notin Class => MergedField(l, c, a, b, f) = b[f]
         /\ IsSet(b, f) /\ Schema[c][n].type \in Class =>
               MergedField(l, c, a, b, f)
                  = MergeAt(l - 1, Schema[c][n].type, GetMessage(a, f), b[f])
<1>1. PICK row : row = Schema[c][n]
  OBVIOUS
<1>2. RowsOf(c, f) = {row}
  <2>1. row \in RowsOf(c, f)
    BY <1>1 DEF RowsOf
  <2>2. ASSUME NEW x \in RowsOf(c, f) PROVE x = row
    <3>1. PICK k \in Number(c) : x = Schema[c][k] /\ x.name = f
      BY <2>2 DEF RowsOf
    <3>2. k = n
      BY <3>1, RowFacts
    <3> QED
      BY <1>1, <3>1, <3>2
  <2> QED
    BY <2>1, <2>2
<1>3. RowsOf(c, f) # {} /\ TypeOf(c, f) = row.type /\ (IsMessage(row.type) <=> row.type \in Class)
  BY <1>2 DEF IsMessage, TypeOf
<1>4. CASE ~IsSet(b, f)
  BY <1>3, <1>4 DEF MergedField
<1>5. CASE IsSet(b, f) /\ row.type \notin Class
  BY <1>1, <1>3, <1>5 DEF MergedField
<1>6. CASE IsSet(b, f) /\ row.type \in Class
  BY <1>1, <1>3, <1>6 DEF MergedField
<1> QED
  BY <1>1, <1>4, <1>5, <1>6

\* What is of a class may be read into, and merging it with nothing gives it back.
LEMMA OfClassFits ==
  ASSUME NEW l \in 1 .. 3, \A t \in Class : \A v : OfClassAt(l - 1, t, v) => FitsAt(l - 1, t, v),
         NEW c \in Class, NEW m, OfClassAt(l, c, m)
  PROVE  FitsAt(l, c, m)
<1>1. m = [f \in DOMAIN m |-> m[f]]
  BY OfClassFacts
<1>2. ASSUME NEW f \in DOMAIN m,
             \A n \in Number(c) : Schema[c][n].name = f => Schema[c][n].repeated
      PROVE  IsSeq(m[f])
  <2>1. PICK n \in Number(c) : Schema[c][n].name = f
    BY OfClassFacts
  <2>2. Schema[c][n].repeated
    BY <1>2, <2>1
  <2>3. PICK vs : vs = Values(Schema[c][n], m)
    OBVIOUS
  <2>4. IsSeq(vs)
    BY <2>3, OfClassFacts
  <2>5. vs = m[f]
    BY <1>2, <2>1, <2>2, <2>3 DEF Values, List, IsSet
  <2> QED
    BY <2>4, <2>5
<1>3. ASSUME NEW n \in Number(c), Schema[c][n].type \in Class, ~Schema[c][n].repeated
      PROVE  FitsAt(l - 1, Schema[c][n].type, GetMessage(m, Schema[c][n].name))
  <2>1. PICK f : f = Schema[c][n].name
    OBVIOUS
  <2>2. CASE IsSet(m, f)
    <3>1. PICK vs : vs = Values(Schema[c][n], m)
      OBVIOUS
    <3>2. vs = <<m[f]>> /\ GetMessage(m, f) = m[f]
      BY <1>3, <2>1, <2>2, <3>1 DEF Values, GetMessage
    <3>3. \A i \in 1 .. Len(vs) : OfClassAt(l - 1, Schema[c][n].type, vs[i])
      BY <1>3, <3>1, OfClassFacts
    <3>4. Len(vs) = 1 /\ vs[1] = m[f]
      BY <3>2
    <3>5. OfClassAt(l - 1, Schema[c][n].type, m[f])
      BY <3>3, <3>4
    <3> QED
      BY <1>3, <2>1, <3>2, <3>5
  <2>3. CASE ~IsSet(m, f)
    <3>1. GetMessage(m, f) = Clear /\ l - 1 \in 0 .. 3
      BY <2>3 DEF GetMessage
    <3> QED
      BY <2>1, <3>1, ClearFits
  <2> QED
    BY <2>2, <2>3
<1> QED
  BY <1>1, <1>2, <1>3, FitsFacts

LEMMA AllFit ==
  ASSUME NEW l \in 0 .. 3, NEW c \in Class, NEW m, OfClassAt(l, c, m)
  PROVE  FitsAt(l, c, m)
<1> DEFINE Good(k) == \A t \in Class : \A v : OfClassAt(k, t, v) => FitsAt(k, t, v)
<1>1. Good(0)
  BY DEF FitsAt
<1>2. ASSUME NEW k \in 1 .. 3, Good(k - 1) PROVE Good(k)
  BY <1>2, OfClassFits
<1> HIDE DEF Good
<1>3. Good(1) /\ Good(2) /\ Good(3)
  <2>1. Good(1)
    BY <1>1, <1>2, 1 - 1 = 0
  <2>2. Good(2)
    BY <2>1, <1>2, 2 - 1 = 1
  <2>3. Good(3)
    BY <2>2, <1>2, 3 - 1 = 2
  <2> QED
    BY <2>1, <2>2, <2>3
<1>4. l = 0 \/ l = 1 \/ l = 2 \/ l = 3
  OBVIOUS
<1>5. Good(l)
  BY <1>1, <1>3, <1>4
<1> QED
  BY <1>5 DEF Good

LEMMA RepeatedField ==
  ASSUME NEW c \in Class, NEW n \in Number(c), Schema[c][n].repeated
  PROVE  ~OptionalField(c, Schema[c][n].name) /\ Schema[c][n].type \in Class
<1>1. ASSUME NEW k \in Number(c), Schema[c][k].name = Schema[c][n].name
      PROVE  Schema[c][k].repeated
  <2>1. k = n
    BY <1>1, RowFacts
  <2> QED
    BY <2>1
<1>2. Schema[c][n].type \in Class
  BY RowFacts DEF RowOK
<1> QED
  BY <1>1, <1>2 DEF OptionalField

\* The value of an optional field is one that there may be.
LEMMA OptionalValue ==
  ASSUME NEW l \in 1 .. 3, NEW c \in Class, NEW m, OfClassAt(l, c, m),
         NEW n \in Number(c), ~Schema[c][n].repeated, NEW f, f = Schema[c][n].name, IsSet(m, f)
  PROVE  /\ Values(Schema[c][n], m) = <<m[f]>>
         /\ Schema[c][n].type \in Class => OfClassAt(l - 1, Schema[c][n].type, m[f])
<1>1. PICK vs : vs = Values(Schema[c][n], m)
  OBVIOUS
<1>2. vs = <<m[f]>>
  BY <1>1 DEF Values
<1>3. Schema[c][n].type \in Class => \A i \in 1 .. Len(vs) : OfClassAt(l - 1, Schema[c][n].type, vs[i])
  BY <1>1, OfClassFacts
<1>4. Len(vs) = 1 /\ vs[1] = m[f]
  BY <1>2
<1> QED
  BY <1>1, <1>2, <1>3, <1>4

LEMMA MergeNewStep ==
  ASSUME NEW l \in 1 .. 3,
         \A t \in Class : \A v : OfClassAt(l - 1, t, v) => MergeAt(l - 1, t, Clear, v) = v,
         NEW c \in Class, NEW m, OfClassAt(l, c, m)
  PROVE  MergeAt(l, c, Clear, m) = m
<1>1. PICK G : G = MergeAt(l, c, Clear, m)
  OBVIOUS
<1>2. PICK e : e = Clear /\ DOMAIN e = {}
  BY DEF Clear
<1>0. m = [f \in DOMAIN m |-> m[f]] /\ \A f \in DOMAIN m : \E n \in Number(c) : Schema[c][n].name = f
  BY OfClassFacts
<1>3. PICK D : D = DOMAIN m
  OBVIOUS
<1>31. D = DOMAIN e \cup DOMAIN m
  BY <1>2, <1>3
<1>4. Maps(m, D)
  BY <1>0, <1>3 DEF Maps
<1>5. Maps(G, D) /\ \A f \in D : G[f] = MergedField(l, c, e, m, f)
  BY <1>1, <1>2, <1>31, MergeMaps
<1>6. ASSUME NEW f \in D PROVE G[f] = m[f]
  <2>1. PICK n \in Number(c) : Schema[c][n].name = f
    BY <1>0, <1>3
  <2>2. CASE Schema[c][n].repeated
    <3>1. G[f] = List(e, f) \o List(m, f)
      <4>1. ~OptionalField(c, f)
        BY <2>1, <2>2, RepeatedField
      <4>2. MergedField(l, c, e, m, f) = List(e, f) \o List(m, f)
        BY ONLY <4>1, MergedRest
      <4> QED
        BY <1>5, <4>2
    <3>2. List(e, f) = << >> /\ List(m, f) = m[f]
      BY <1>2, <1>3 DEF List, IsSet
    <3>3. PICK vs : vs = Values(Schema[c][n], m)
      OBVIOUS
    <3>4. vs = m[f]
      BY <2>1, <2>2, <3>2, <3>3 DEF Values
    <3>5. IsSeq(vs)
      BY <3>3, OfClassFacts
    <3> QED
      BY <3>1, <3>2, <3>4, <3>5, CatEmpty
  <2>3. CASE ~Schema[c][n].repeated
    <3>1. GetMessage(e, f) = Clear
      BY <1>2 DEF GetMessage, IsSet
    <3>2. Schema[c][n].type \in Class => OfClassAt(l - 1, Schema[c][n].type, m[f])
      BY <1>3, <2>1, <2>3, OptionalValue DEF IsSet
    <3>0. IsSet(m, f)
      BY <1>3 DEF IsSet
    <3>3. CASE Schema[c][n].type \in Class
      <4>1. G[f] = MergeAt(l - 1, Schema[c][n].type, GetMessage(e, f), m[f])
        BY <1>5, <2>1, <2>3, <3>0, <3>3, MergedOptional
      <4>2. PICK type, v : type = Schema[c][n].type /\ v = m[f]
        OBVIOUS
      <4>3. type \in Class /\ OfClassAt(l - 1, type, v)
        BY <3>2, <3>3, <4>2
      <4>4. MergeAt(l - 1, type, Clear, v) = v
        BY <4>3
      <4> QED
        BY <3>1, <4>1, <4>2, <4>4
    <3>4. CASE Schema[c][n].type \notin Class
      <4>1. MergedField(l, c, e, m, f) = m[f]
        BY ONLY c \in Class, n \in Number(c), <2>1, <2>3, <3>0, <3>4, MergedOptional
      <4> QED
        BY <1>5, <4>1
    <3> QED
      BY <3>3, <3>4
  <2> QED
    BY <2>2, <2>3
<1>7. G = m
  BY <1>4, <1>5, <1>6, MapsSame
<1> QED
  BY <1>1, <1>7

LEMMA MergeNew ==
  ASSUME NEW l \in 0 .. 3, NEW c \in Class, NEW m, OfClassAt(l, c, m)
  PROVE  MergeAt(l, c, Clear, m) = m
<1> DEFINE Good(k) == \A t \in Class : \A v : OfClassAt(k, t, v) => MergeAt(k, t, Clear, v) = v
<1>1. Good(0)
  BY DEF MergeAt
<1>2. ASSUME NEW k \in 1 .. 3, Good(k - 1) PROVE Good(k)
  BY <1>2, MergeNewStep
<1> HIDE DEF Good
<1>3. Good(1) /\ Good(2) /\ Good(3)
  <2>1. Good(1)
    BY <1>1, <1>2, 1 - 1 = 0
  <2>2. Good(2)
    BY <2>1, <1>2, 2 - 1 = 1
  <2>3. Good(3)
    BY <2>2, <1>2, 3 - 1 = 2
  <2> QED
    BY <2>1, <2>2, <2>3
<1>4. l = 0 \/ l = 1 \/ l = 2 \/ l = 3
  OBVIOUS
<1>5. Good(l)
  BY <1>1, <1>3, <1>4
<1> QED
  BY <1>5 DEF Good

-----------------------------------------------------------------------------
(* Reading a field.                                                        *)

\* What there is of the message in a field, and what becomes of the value.
Under(row, a) == IF row.repeated THEN Clear ELSE GetMessage(a, row.name)
Into(l, row, a, v) == IF row.type \in Class THEN MergeAt(l - 1, row.type, Under(row, a), v) ELSE v

\* The cells of a message, read into another, make of it what merging the two makes.
ReadsWell(l) ==
    \A c \in Class : \A m, a : OfClassAt(l, c, m) /\ FitsAt(l, c, a) =>
        Leads(l, c, a, WriteAt(l, c, m), MergeAt(l, c, a, m))

LEMMA FieldTurn ==
  ASSUME NEW l \in 1 .. 3, ReadsWell(l - 1), NEW c \in Class, NEW n \in Number(c),
         NEW e, FieldOK(l, c, e), e.number = n,
         NEW a, Schema[c][n].type \in Class => FitsAt(l - 1, Schema[c][n].type, Under(Schema[c][n], a)),
         NEW p, p = CellsAt(l, e), NEW s, NEW j, Place(s, j, p)
  PROVE  /\ Len(p) \in Nat /\ Len(p) >= 1
         /\ Turn(c, s, At(a, j), SubAt(l, c, s, At(a, j)))
               = At(Store(a, Schema[c][n], Into(l, Schema[c][n], a, e.value)), j + Len(p))
<1>1. PICK size, cells : size = SizeAt(l - 1, e.type, e.value) /\ cells = WriteAt(l - 1, e.type, e.value)
  OBVIOUS
<1>2. p = FieldCells(e, size, cells)
  BY <1>1 DEF CellsAt
<1>3. PICK row : row = Schema[c][n]
  OBVIOUS
<1>4. row.type = e.type /\ (row.type = "int" \/ row.type = "string" \/ row.type \in Class)
  BY <1>3, RowFacts DEF FieldOK, RowOK
<1>5. PICK sub : sub = SubAt(l, c, s, At(a, j))
  OBVIOUS
<1>6. PICK v : v = e.value
  OBVIOUS
<1>7. CASE row.type = "int"
  <2>1. /\ Len(p) = 2 /\ p[1] = <<"tag", n, "varint">> /\ p[2] = <<"int", v>>
    BY <1>2, <1>4, <1>6, <1>7, NumberCells
  <2>2. Turn(c, s, At(a, j), sub) = At(Store(a, row, v), j + 2)
    BY <1>3, <1>7, <2>1, NumberIsRead
  <2>3. Into(l, row, a, v) = v
    BY <1>7, ClassIs DEF Into
  <2> QED
    BY <1>3, <1>5, <1>6, <2>1, <2>2, <2>3
<1>8. CASE row.type = "string"
  <2>1. LET q == FieldCells(e, size, cells)
            i == TextSize(e.value)
        IN  /\ i \in {0, 1} /\ (i = 0 <=> e.value = "")
            /\ IsSeq(q) /\ Len(q) = i + 2 /\ FieldLength(e, size) = i + 2
            /\ q[1] = <<"tag", e.number, "delimited">> /\ q[2] = <<"len", i>>
            /\ i = 1 => q[3] = <<"text", e.value>>
    BY ONLY <1>4, <1>8, TextCells
  <2>2. PICK k : k = TextSize(e.value)
    OBVIOUS
  <2>9. k \in {0, 1}
    BY <2>1, <2>2
  <2>3. k \in Nat /\ (k = 0 \/ k = 1)
    BY ONLY <2>9
  <2>4. /\ Len(p) = k + 2 /\ p[1] = <<"tag", n, "delimited">> /\ p[2] = <<"len", k>>
        /\ k = 1 => p[3] = <<"text", v>>
    BY <1>2, <1>6, <2>1, <2>2
  <2>5. TextOf(k, v) = v
    BY <1>6, <2>1, <2>2 DEF TextOf
  <2>6. Turn(c, s, At(a, j), sub) = At(Store(a, row, TextOf(k, v)), j + (k + 2))
    <3>1. Schema[c][n].type = "string"
      BY <1>3, <1>8
    <3>2. Turn(c, s, At(a, j), sub) = At(Store(a, Schema[c][n], TextOf(k, v)), j + (k + 2))
      BY ONLY n \in Number(c), <2>3, <2>4, <3>1, Place(s, j, p), TextIsRead
    <3> QED
      BY <1>3, <3>2
  <2>7. Into(l, row, a, v) = v
    BY <1>8, ClassIs DEF Into
  <2>8. k + 2 \in Nat /\ k + 2 >= 1
    BY <2>3
  <2> QED
    BY <1>3, <1>5, <1>6, <2>4, <2>5, <2>6, <2>7, <2>8
<1>9. CASE row.type \in Class
  <2>1. OfClassAt(l - 1, e.type, v)
    BY <1>4, <1>6, <1>9 DEF FieldOK
  <2>2. IsSeq(cells) /\ size \in Nat /\ size = Len(cells)
    <3>1. WritesWell(l - 1)
      BY AllWriteWell
    <3> QED
      BY <1>1, <1>4, <1>6, <1>9, <2>1, <3>1, SeqElim DEF WritesWell
  <2>3. /\ IsSeq(p) /\ Len(p) = size + 2
        /\ p[1] = <<"tag", n, "delimited">> /\ p[2] = <<"len", size>>
        /\ \A i \in 1 .. size : p[i + 2] = cells[i]
    <3>1. e.type \in Class /\ e.number = n
      BY <1>4, <1>9
    <3>2. LET q == FieldCells(e, size, cells)
          IN  /\ IsSeq(q) /\ Len(q) = size + 2 /\ FieldLength(e, size) = size + 2
              /\ q[1] = <<"tag", e.number, "delimited">> /\ q[2] = <<"len", size>>
              /\ \A i \in 1 .. size : q[i + 2] = cells[i]
      BY ONLY <2>2, <3>1, MessageCells
    <3> QED
      BY <1>2, <3>1, <3>2
  <2>4. PICK into : into = Under(row, a)
    OBVIOUS
  <2>5. /\ Turn(c, s, At(a, j), sub) =
              [ok |-> sub.ok, msg |-> Store(a, row, sub.msg), at |-> j + (size + 2)]
        /\ Behind(c, s, At(a, j)) = [type |-> row.type, into |-> into, cells |-> cells]
    <3>1. Schema[c][n].type \in Class
      BY <1>3, <1>9
    <3>2. /\ Turn(c, s, At(a, j), sub) =
                 [ok |-> sub.ok, msg |-> Store(a, Schema[c][n], sub.msg), at |-> j + (size + 2)]
          /\ Behind(c, s, At(a, j)) =
                 [type  |-> Schema[c][n].type,
                  into  |-> IF Schema[c][n].repeated THEN Clear ELSE GetMessage(a, Schema[c][n].name),
                  cells |-> cells]
      BY ONLY n \in Number(c), <2>2, <2>3, <3>1, Place(s, j, p), MessageIsRead, SMTT(30)
    <3> QED
      BY <1>3, <2>4, <3>2 DEF Under
  <2>6. sub = ReadAt(l - 1, row.type, into, cells)
    BY <1>5, <2>5 DEF SubAt
  <2>7. PICK b : b = MergeAt(l - 1, row.type, into, v)
    OBVIOUS
  <2>8. l - 1 \in 1 .. 3
    <3>1. l # 1
      BY <2>1 DEF OfClassAt
    <3> QED
      BY <3>1
  <2>9. Leads(l - 1, row.type, into, cells, b)
    BY <1>1, <1>3, <1>4, <1>6, <1>9, <2>1, <2>4, <2>7 DEF ReadsWell
  <2>10. sub = At(b, Len(cells))
    BY <2>6, <2>8, <2>9, ReadBack
  <2>11. sub.ok = TRUE /\ sub.msg = b
    BY <2>10 DEF At
  <2>12. Turn(c, s, At(a, j), sub) = At(Store(a, row, b), j + (size + 2))
    BY <2>5, <2>11 DEF At
  <2>13. Into(l, row, a, v) = b
    BY <1>9, <2>4, <2>7 DEF Into
  <2>14. size + 2 \in Nat /\ size + 2 >= 1
    BY <2>2
  <2> QED
    BY <1>3, <1>5, <1>6, <2>3, <2>12, <2>13, <2>14
<1> QED
  BY <1>4, <1>7, <1>8, <1>9

LEMMA FieldIsRead ==
  ASSUME NEW l \in 1 .. 3, ReadsWell(l - 1), NEW c \in Class, NEW n \in Number(c),
         NEW e, FieldOK(l, c, e), e.number = n,
         NEW a, Schema[c][n].type \in Class => FitsAt(l - 1, Schema[c][n].type, Under(Schema[c][n], a))
  PROVE  Leads(l, c, a, CellsAt(l, e), Store(a, Schema[c][n], Into(l, Schema[c][n], a, e.value)))
<1>1. PICK p : p = CellsAt(l, e)
  OBVIOUS
<1>2. PICK b : b = Store(a, Schema[c][n], Into(l, Schema[c][n], a, e.value))
  OBVIOUS
<1>3. IsSeq(p)
  <2>1. WritesWell(l - 1)
    BY AllWriteWell
  <2> QED
    BY <1>1, <2>1, CellsFacts
<1>4. ASSUME NEW s, NEW j, NEW read, Place(s, j, p), Chain(l, c, s, read), Gets(read, j, a)
      PROVE  Gets(read, j + Len(p), b)
  <2>1. /\ Len(p) \in Nat /\ Len(p) >= 1
        /\ Turn(c, s, At(a, j), SubAt(l, c, s, At(a, j))) = At(b, j + Len(p))
    BY <1>1, <1>2, <1>4, FieldTurn
  <2>2. IsSeq(s) /\ j \in Nat /\ j + Len(p) <= Len(s)
    BY <1>4 DEF Place
  <2> QED
    BY <1>4, <2>1, <2>2, ChainStep
<1>5. Leads(l, c, a, p, b)
  BY <1>3, <1>4 DEF Leads
<1> QED
  BY <1>1, <1>2, <1>5

-----------------------------------------------------------------------------
(* Lists of lists in a row.                                                *)

LEMMA FlattenCat ==
  ASSUME NEW x, NEW y, AllSeqs(x), AllSeqs(y)
  PROVE  AllSeqs(x \o y) /\ FlattenSeq(x \o y) = FlattenSeq(x) \o FlattenSeq(y)
<1>1. PICK n, m \in Nat : n = Len(x) /\ m = Len(y)
  BY SeqElim DEF AllSeqs
<1>2. PICK z : z = x \o y
  OBVIOUS
<1>3. /\ IsSeq(z) /\ Len(z) = n + m
      /\ \A i \in 1 .. n : z[i] = x[i]
      /\ \A i \in 1 .. m : z[n + i] = y[i]
  <2>1. IsSeq(x) /\ IsSeq(y)
    BY DEF AllSeqs
  <2> QED
    BY <1>1, <1>2, <2>1, Joined
<1>4. AllSeqs(z)
  <2> SUFFICES ASSUME NEW i \in 1 .. n + m PROVE IsSeq(z[i])
    BY <1>3 DEF AllSeqs
  <2>1. CASE i \in 1 .. n
    BY <1>1, <1>3, <2>1 DEF AllSeqs
  <2>2. CASE i \notin 1 .. n
    <3>1. PICK h \in 1 .. m : h = i - n /\ n + h = i
      BY <2>2
    <3> QED
      BY <1>1, <1>3, <3>1 DEF AllSeqs
  <2> QED
    BY <2>1, <2>2
<1>5. PICK w : Joins(w, z)
  BY <1>4, JoinsExist
<1>6. PICK v : Joins(v, y)
  BY JoinsExist
<1>7. w[0] = << >> /\ \A k \in 1 .. n + m : w[k] = w[k - 1] \o z[k]
  BY <1>3, <1>5 DEF Joins
<1>8. v[0] = << >> /\ \A k \in 1 .. m : v[k] = v[k - 1] \o y[k]
  BY <1>1, <1>6 DEF Joins
<1>9. FlattenSeq(x) = w[n]
  <2>1. PICK u : u = [k \in 0 .. n |-> w[k]]
    OBVIOUS
  <2>2. Joins(u, x)
    <3>1. u = [k \in 0 .. n |-> u[k]] /\ u[0] = << >>
      BY <1>7, <2>1
    <3>2. ASSUME NEW k \in 1 .. n PROVE u[k] = u[k - 1] \o x[k]
      <4>1. k \in 0 .. n /\ k - 1 \in 0 .. n /\ k \in 1 .. n + m
        OBVIOUS
      <4>2. u[k] = w[k] /\ u[k - 1] = w[k - 1]
        BY <2>1, <4>1
      <4>3. w[k] = w[k - 1] \o z[k] /\ z[k] = x[k]
        BY <1>3, <1>7, <4>1
      <4> QED
        BY <4>2, <4>3
    <3> QED
      BY <1>1, <3>1, <3>2 DEF Joins
  <2>3. FlattenSeq(x) = u[n] /\ u[n] = w[n]
    BY <1>1, <2>1, <2>2, FlattenIsJoin
  <2> QED
    BY <2>3
<1>10. PICK p : p = w[n] /\ IsSeq(p)
  BY <1>9, FlattenIsSeq
<1> DEFINE Good(k) == w[n + k] = p \o v[k]
           T == {k \in Nat : k <= m => Good(k)}
<1>11. Good(0)
  <2>1. PICK e : e = << >> /\ e = v[0]
    BY <1>8
  <2>2. p \o e = p
    BY <1>10, <2>1, CatEmpty
  <2>3. n + 0 = n
    OBVIOUS
  <2> QED
    BY <1>10, <2>1, <2>2, <2>3
<1>12. ASSUME NEW k \in Nat, k + 1 <= m, Good(k) PROVE Good(k + 1)
  <2>2. PICK h : h = n + (k + 1)
    OBVIOUS
  <2>3. h \in 1 .. n + m /\ h - 1 = n + k
    BY <1>12, <2>2
  <2>4. PICK i \in 1 .. m : i = k + 1 /\ i - 1 = k /\ h = n + i
    BY <1>12, <2>2
  <2>5. w[h] = w[n + k] \o z[h] /\ z[h] = y[i]
    BY <1>3, <1>7, <2>3, <2>4
  <2>6. v[i] = v[k] \o y[i]
    BY <1>8, <2>4
  <2>7. IsSeq(v[k]) /\ IsSeq(y[i])
    <3>1. k \in 0 .. Len(y) /\ i \in 1 .. Len(y)
      BY <1>1, <1>12, <2>4
    <3>2. IsSeq(v[k])
      BY <1>6, <3>1, JoinsAreSeqs
    <3> QED
      BY <3>1, <3>2 DEF AllSeqs
  <2>8. PICK q, r : q = v[k] /\ r = y[i]
    OBVIOUS
  <2>9. (p \o q) \o r = p \o (q \o r)
    <3>1. IsSeq(p) /\ IsSeq(q) /\ IsSeq(r)
      BY <1>10, <2>7, <2>8
    <3> QED
      BY ONLY <3>1, CatAssoc
  <2> QED
    BY <1>12, <2>2, <2>4, <2>5, <2>6, <2>8, <2>9
<1> HIDE DEF Good
<1>13. \A k \in T : k \in Nat => k + 1 \in T
  <2> SUFFICES ASSUME NEW k \in T, k \in Nat, k + 1 <= m PROVE Good(k + 1)
    OBVIOUS
  <2> QED
    BY <1>12
<1>17. 0 \in T
  BY <1>11
<1> HIDE DEF T
<1>18. Nat \subseteq T
  BY <1>13, <1>17, SetInduction
<1>19. m \in T
  BY <1>18
<1>20. Good(m)
  BY <1>19 DEF T
<1>14. w[n + m] = p \o v[m]
  BY <1>20 DEF Good
<1>15. FlattenSeq(z) = w[n + m]
  BY <1>3, <1>4, <1>5, FlattenIsJoin
<1>16. FlattenSeq(y) = v[m]
  BY <1>1, <1>6, FlattenIsJoin
<1> QED
  BY <1>2, <1>4, <1>9, <1>10, <1>14, <1>15, <1>16

\* The cells of fields in a row.
FieldsOK(l, c, fs) == IsSeq(fs) /\ \A i \in 1 .. Len(fs) : FieldOK(l, c, fs[i])

CellsEach(l, fs) == [i \in DOMAIN fs |-> CellsAt(l, fs[i])]

LEMMA CellsEachFacts ==
  ASSUME NEW l \in 1 .. 3, NEW c \in Class, NEW fs, FieldsOK(l, c, fs)
  PROVE  /\ AllSeqs(CellsEach(l, fs)) /\ Len(CellsEach(l, fs)) = Len(fs)
         /\ \A i \in 1 .. Len(fs) : CellsEach(l, fs)[i] = CellsAt(l, fs[i])
<1>1. PICK n \in Nat : n = Len(fs) /\ DOMAIN fs = 1 .. n
  BY SeqElim DEF FieldsOK
<1>2. PICK ss : ss = [i \in 1 .. n |-> CellsAt(l, fs[i])]
  OBVIOUS
<1>3. IsSeq(ss) /\ Len(ss) = n
  <2>1. ss = [i \in 1 .. n |-> ss[i]]
    BY <1>2
  <2> QED
    BY <2>1, SeqIntro
<1>4. WritesWell(l - 1)
  BY AllWriteWell
<1>5. \A i \in 1 .. n : IsSeq(ss[i]) /\ ss[i] = CellsAt(l, fs[i])
  BY <1>1, <1>2, <1>4, CellsFacts DEF FieldsOK
<1>6. AllSeqs(ss)
  BY <1>3, <1>5 DEF AllSeqs
<1>7. ss = CellsEach(l, fs)
  BY <1>1, <1>2 DEF CellsEach
<1> QED
  BY <1>1, <1>3, <1>5, <1>6, <1>7

LEMMA CellsCat ==
  ASSUME NEW l \in 1 .. 3, NEW c \in Class, NEW x, NEW y, FieldsOK(l, c, x), FieldsOK(l, c, y)
  PROVE  FieldsOK(l, c, x \o y) /\ CellsOf(l, x \o y) = CellsOf(l, x) \o CellsOf(l, y)
<1>1. PICK n, m \in Nat : n = Len(x) /\ m = Len(y)
  BY SeqElim DEF FieldsOK
<1>2. PICK z : z = x \o y
  OBVIOUS
<1>3. /\ IsSeq(z) /\ Len(z) = n + m
      /\ \A i \in 1 .. n : z[i] = x[i]
      /\ \A i \in 1 .. m : z[n + i] = y[i]
  <2>1. IsSeq(x) /\ IsSeq(y)
    BY DEF FieldsOK
  <2> QED
    BY <1>1, <1>2, <2>1, Joined
<1>4. FieldsOK(l, c, z)
  <2> SUFFICES ASSUME NEW i \in 1 .. n + m PROVE FieldOK(l, c, z[i])
    BY <1>3 DEF FieldsOK
  <2>1. CASE i \in 1 .. n
    BY <1>1, <1>3, <2>1 DEF FieldsOK
  <2>2. CASE i \notin 1 .. n
    <3>1. PICK h \in 1 .. m : h = i - n /\ n + h = i
      BY <2>2
    <3> QED
      BY <1>1, <1>3, <3>1 DEF FieldsOK
  <2> QED
    BY <2>1, <2>2
<1>5. PICK p, q, r : p = CellsEach(l, x) /\ q = CellsEach(l, y) /\ r = CellsEach(l, z)
  OBVIOUS
<1>6. /\ AllSeqs(p) /\ Len(p) = n /\ \A i \in 1 .. n : p[i] = CellsAt(l, x[i])
      /\ AllSeqs(q) /\ Len(q) = m /\ \A i \in 1 .. m : q[i] = CellsAt(l, y[i])
      /\ AllSeqs(r) /\ Len(r) = n + m /\ \A i \in 1 .. n + m : r[i] = CellsAt(l, z[i])
  <2>1. AllSeqs(p) /\ Len(p) = n /\ \A i \in 1 .. n : p[i] = CellsAt(l, x[i])
    BY <1>1, <1>5, CellsEachFacts
  <2>2. AllSeqs(q) /\ Len(q) = m /\ \A i \in 1 .. m : q[i] = CellsAt(l, y[i])
    BY <1>1, <1>5, CellsEachFacts
  <2>3. AllSeqs(r) /\ Len(r) = n + m /\ \A i \in 1 .. n + m : r[i] = CellsAt(l, z[i])
    BY <1>3, <1>4, <1>5, CellsEachFacts
  <2> QED
    BY <2>1, <2>2, <2>3
<1>7. r = p \o q
  <2>1. PICK u : u = p \o q
    OBVIOUS
  <2>2. /\ IsSeq(u) /\ Len(u) = n + m
        /\ \A i \in 1 .. n : u[i] = p[i]
        /\ \A i \in 1 .. m : u[n + i] = q[i]
    <3>1. IsSeq(p) /\ IsSeq(q) /\ n = Len(p) /\ m = Len(q)
      BY <1>6 DEF AllSeqs
    <3> QED
      BY <2>1, <3>1, Joined
  <2>3. ASSUME NEW i \in 1 .. n + m PROVE r[i] = u[i]
    <3>1. CASE i \in 1 .. n
      BY <1>3, <1>6, <2>2, <3>1
    <3>2. CASE i \notin 1 .. n
      <4>1. PICK h \in 1 .. m : h = i - n /\ n + h = i
        BY <3>2
      <4>2. u[i] = q[h] /\ z[i] = y[h]
        BY <1>3, <2>2, <4>1
      <4> QED
        BY <1>6, <4>1, <4>2
    <3> QED
      BY <3>1, <3>2
  <2>4. IsSeq(r)
    BY <1>6 DEF AllSeqs
  <2>5. r = u
    BY <1>6, <2>2, <2>3, <2>4, SeqSame
  <2> QED
    BY <2>1, <2>5
<1>8. FlattenSeq(r) = FlattenSeq(p) \o FlattenSeq(q)
  BY <1>6, <1>7, FlattenCat
<1> QED
  BY <1>2, <1>4, <1>5, <1>8 DEF CellsOf, CellsEach

-----------------------------------------------------------------------------
(* Reading the fields of a number, and then those of all.                  *)

Names(c, k) == {Schema[c][n].name : n \in 1 .. k}

\* What there is when the fields with the first k numbers have been read.
Halfway(l, c, a, m, k) ==
    [f \in DOMAIN a \cup (DOMAIN m \cap Names(c, k)) |->
        IF f \in Names(c, k) THEN MergedField(l, c, a, m, f) ELSE a[f]]

\* The values of a number are stored one after the other.
StoresAlong(l, row, vs, E) ==
    \A k \in 1 .. Len(vs) :
        /\ E[k] = Store(E[k - 1], row, Into(l, row, E[k - 1], vs[k]))
        /\ row.type \in Class => FitsAt(l - 1, row.type, Under(row, E[k - 1]))

LEMMA ValuesAreRead ==
  ASSUME NEW l \in 1 .. 3, ReadsWell(l - 1), NEW c \in Class, NEW n \in Number(c),
         NEW m, OfClassAt(l, c, m), NEW E, StoresAlong(l, Schema[c][n], Values(Schema[c][n], m), E)
  PROVE  /\ FieldsOK(l, c, FieldsOf(c, m, n))
         /\ Leads(l, c, E[0], CellsOf(l, FieldsOf(c, m, n)), E[Len(Values(Schema[c][n], m))])
<1>0. PICK row, vs : row = Schema[c][n] /\ vs = Values(Schema[c][n], m)
  OBVIOUS
<1>12. PICK q \in Nat : q = Len(vs)
  BY <1>0, OfClassFacts
<1>13. \A k \in 1 .. q : E[k] = Store(E[k - 1], row, Into(l, row, E[k - 1], vs[k]))
  BY <1>0, <1>12 DEF StoresAlong
<1>14. \A k \in 1 .. q : row.type \in Class => FitsAt(l - 1, row.type, Under(row, E[k - 1]))
  BY <1>0, <1>12 DEF StoresAlong
<1>1. PICK fs : fs = FieldsOf(c, m, n)
  OBVIOUS
<1>2. /\ DOMAIN vs = 1 .. q
      /\ row.type \in Class => \A i \in 1 .. q : OfClassAt(l - 1, row.type, vs[i])
  BY <1>0, <1>12, OfClassFacts
<1>3. fs = [i \in 1 .. q |-> [number |-> n, type |-> row.type, value |-> vs[i]]]
  BY <1>0, <1>1, <1>2 DEF FieldsOf
<1>4. /\ IsSeq(fs) /\ Len(fs) = q
      /\ \A i \in 1 .. q : fs[i].number = n /\ fs[i].type = row.type /\ fs[i].value = vs[i]
  <2>1. fs = [i \in 1 .. q |-> fs[i]]
    BY <1>3
  <2>2. IsSeq(fs) /\ Len(fs) = q
    BY <2>1, SeqIntro
  <2> QED
    BY <1>3, <2>2
<1>5. \A i \in 1 .. q : FieldOK(l, c, fs[i])
  BY <1>0, <1>2, <1>4 DEF FieldOK
<1>6. FieldsOK(l, c, fs)
  BY <1>4, <1>5 DEF FieldsOK
<1>7. PICK ss : ss = CellsEach(l, fs)
  OBVIOUS
<1>8. AllSeqs(ss) /\ Len(ss) = q /\ \A i \in 1 .. q : ss[i] = CellsAt(l, fs[i])
  BY <1>4, <1>6, <1>7, CellsEachFacts
<1>9. ASSUME NEW k \in 1 .. q PROVE Leads(l, c, E[k - 1], ss[k], E[k])
  <2>1. PICK a, b, e : a = E[k - 1] /\ b = E[k] /\ e = fs[k]
    OBVIOUS
  <2>2. FieldOK(l, c, e) /\ e.number = n /\ e.value = vs[k]
    BY <1>4, <1>5, <2>1
  <2>3. Schema[c][n].type \in Class => FitsAt(l - 1, Schema[c][n].type, Under(Schema[c][n], a))
    BY <1>0, <1>14, <2>1
  <2>4. Leads(l, c, a, CellsAt(l, e), Store(a, Schema[c][n], Into(l, Schema[c][n], a, e.value)))
    BY <2>2, <2>3, FieldIsRead
  <2>5. b = Store(a, row, Into(l, row, a, e.value))
    BY <1>13, <2>1, <2>2
  <2> QED
    BY <1>0, <1>8, <2>1, <2>4, <2>5
<1>10. Leads(l, c, E[0], FlattenSeq(ss), E[q])
  BY <1>8, <1>9, LeadsAlong
<1>11. FlattenSeq(ss) = CellsOf(l, fs)
  BY <1>7 DEF CellsEach, CellsOf
<1> QED
  BY <1>0, <1>1, <1>6, <1>10, <1>11, <1>12

LEMMA NamesGrow ==
  ASSUME NEW c \in Class, NEW n \in Number(c)
  PROVE  /\ Names(c, n) = Names(c, n - 1) \cup {Schema[c][n].name}
         /\ Schema[c][n].name \notin Names(c, n - 1)
<1>1. PICK z \in Nat : Number(c) = 1 .. z
  BY SchemaOK
<1>2. n \in Nat /\ n \in 1 .. z /\ 1 .. n = (1 .. n - 1) \cup {n}
      /\ \A k \in 1 .. n - 1 : k \in 1 .. z /\ k # n
  BY <1>1
<1>3. Names(c, n) = Names(c, n - 1) \cup {Schema[c][n].name}
  BY <1>2 DEF Names
<1>4. ASSUME Schema[c][n].name \in Names(c, n - 1) PROVE FALSE
  <2>1. PICK k \in 1 .. n - 1 : Schema[c][n].name = Schema[c][k].name
    BY <1>4 DEF Names
  <2>2. k \in Number(c) /\ k # n
    BY <1>1, <1>2
  <2> QED
    BY <2>1, <2>2, RowFacts
<1> QED
  BY <1>3, <1>4

IsHalfway(H, l, c, a, m, N) ==
    /\ Maps(H, DOMAIN a \cup (DOMAIN m \cap N))
    /\ DOMAIN H = DOMAIN a \cup (DOMAIN m \cap N)
    /\ \A f \in DOMAIN a \cup (DOMAIN m \cap N) :
          H[f] = IF f \in N THEN MergedField(l, c, a, m, f) ELSE a[f]

LEMMA HalfwayFacts ==
  ASSUME NEW l, NEW c, NEW a, NEW m, NEW k
  PROVE  IsHalfway(Halfway(l, c, a, m, k), l, c, a, m, Names(c, k))
<1>1. PICK N, D : N = Names(c, k) /\ D = DOMAIN a \cup (DOMAIN m \cap N)
  OBVIOUS
<1>2. PICK H : H = Halfway(l, c, a, m, k)
  OBVIOUS
<1>3. H = [f \in D |-> IF f \in N THEN MergedField(l, c, a, m, f) ELSE a[f]]
  BY <1>1, <1>2 DEF Halfway
<1>4. Maps(H, D) /\ DOMAIN H = D /\ \A f \in D : H[f] = IF f \in N THEN MergedField(l, c, a, m, f) ELSE a[f]
  BY <1>3 DEF Maps
<1> QED
  BY <1>1, <1>2, <1>4 DEF IsHalfway

IsSetOf(s, m, f, v) ==
    /\ Maps(s, DOMAIN m \cup {f}) /\ DOMAIN s = DOMAIN m \cup {f}
    /\ \A g \in DOMAIN m \cup {f} : s[g] = IF g = f THEN v ELSE m[g]
    /\ List(s, f) = v

LEMMA SetFacts ==
  ASSUME NEW m, NEW f, NEW v
  PROVE  IsSetOf(Set(m, f, v), m, f, v)
<1>1. PICK D : D = DOMAIN m \cup {f}
  OBVIOUS
<1>2. PICK s : s = Set(m, f, v)
  OBVIOUS
<1>3. s = [g \in D |-> IF g = f THEN v ELSE m[g]]
  BY <1>1, <1>2 DEF Set
<1>4. Maps(s, D) /\ DOMAIN s = D /\ \A g \in D : s[g] = IF g = f THEN v ELSE m[g]
  BY <1>3 DEF Maps
<1>5. List(s, f) = v
  <2>1. f \in D
    BY <1>1
  <2> QED
    BY <1>4, <2>1 DEF List, IsSet
<1> QED
  BY <1>1, <1>2, <1>4, <1>5 DEF IsSetOf

\* A list that is not there is an empty one.
LEMMA ListIsSeq ==
  ASSUME NEW l \in 1 .. 3, NEW c, NEW a, FitsAt(l, c, a), NEW f, ~OptionalField(c, f)
  PROVE  IsSeq(List(a, f)) /\ (IsSet(a, f) => List(a, f) = a[f])
<1>1. ASSUME f \in DOMAIN a PROVE IsSeq(a[f])
  <2>1. \A n \in Number(c) : Schema[c][n].name = f => Schema[c][n].repeated
    BY DEF OptionalField
  <2> QED
    BY <1>1, <2>1, FitsFacts
<1> QED
  BY <1>1, EmptyIsSeq DEF List, IsSet

\* Of a field that is not set nothing comes.
LEMMA MergedUnset ==
  ASSUME NEW l \in 1 .. 3, NEW c \in Class, NEW a, FitsAt(l, c, a), NEW m,
         NEW f, IsSet(a, f), ~IsSet(m, f)
  PROVE  MergedField(l, c, a, m, f) = a[f]
<1>1. CASE OptionalField(c, f)
  <2>1. RowsOf(c, f) # {}
    BY <1>1 DEF OptionalField, RowsOf
  <2> QED
    BY <2>1 DEF MergedField
<1>2. CASE ~OptionalField(c, f)
  <2>1. MergedField(l, c, a, m, f) = List(a, f) \o List(m, f)
    BY <1>2, MergedRest
  <2>2. PICK s : s = List(a, f)
    OBVIOUS
  <2>3. IsSeq(s) /\ s = a[f]
    BY <1>2, <2>2, ListIsSeq
  <2>4. List(m, f) = << >>
    BY DEF List
  <2>5. s \o << >> = s
    BY <2>3, CatEmpty
  <2> QED
    BY <2>1, <2>2, <2>3, <2>4, <2>5
<1> QED
  BY <1>1, <1>2

LEMMA UnsetStep ==
  ASSUME NEW l \in 1 .. 3, NEW c \in Class, NEW a, FitsAt(l, c, a), NEW m,
         NEW n \in Number(c), ~IsSet(m, Schema[c][n].name)
  PROVE  Halfway(l, c, a, m, n) = Halfway(l, c, a, m, n - 1)
<1>1. PICK f, N, P : f = Schema[c][n].name /\ N = Names(c, n) /\ P = Names(c, n - 1)
  OBVIOUS
<1>2. N = P \cup {f} /\ f \notin P
  BY <1>1, NamesGrow
<1>3. f \notin DOMAIN m
  BY <1>1 DEF IsSet
<1>4. PICK D : D = DOMAIN a \cup (DOMAIN m \cap N)
  OBVIOUS
<1>5. D = DOMAIN a \cup (DOMAIN m \cap P)
  BY <1>2, <1>3, <1>4
<1>6. PICK G, H : G = Halfway(l, c, a, m, n) /\ H = Halfway(l, c, a, m, n - 1)
  OBVIOUS
<1>7. /\ Maps(G, D)
      /\ \A g \in D : G[g] = IF g \in N THEN MergedField(l, c, a, m, g) ELSE a[g]
  <2>1. IsHalfway(G, l, c, a, m, N)
    BY <1>1, <1>6, HalfwayFacts
  <2> QED
    BY <1>4, <2>1 DEF IsHalfway
<1>8. /\ Maps(H, D)
      /\ \A g \in D : H[g] = IF g \in P THEN MergedField(l, c, a, m, g) ELSE a[g]
  <2>1. IsHalfway(H, l, c, a, m, P)
    BY <1>1, <1>6, HalfwayFacts
  <2> QED
    BY <1>5, <2>1 DEF IsHalfway
<1>9. ASSUME NEW g \in D PROVE G[g] = H[g]
  <2>1. CASE g # f
    BY <1>2, <1>7, <1>8, <2>1
  <2>2. CASE g = f
    <3>1. IsSet(a, f) /\ ~IsSet(m, f)
      BY <1>3, <1>4, <2>2 DEF IsSet
    <3>2. MergedField(l, c, a, m, f) = a[f]
      BY <3>1, MergedUnset
    <3>3. G[f] = MergedField(l, c, a, m, f) /\ H[f] = a[f]
      BY <1>2, <1>7, <1>8, <2>2
    <3> QED
      BY <2>2, <3>2, <3>3
  <2> QED
    BY <2>1, <2>2
<1>10. G = H
  BY <1>7, <1>8, <1>9, MapsSame
<1> QED
  BY <1>6, <1>10

\* What is set is merged.
LEMMA SetStep ==
  ASSUME NEW l \in 1 .. 3, NEW c \in Class, NEW a, NEW m,
         NEW n \in Number(c), NEW f, f = Schema[c][n].name, IsSet(m, f)
  PROVE  Halfway(l, c, a, m, n) = Set(Halfway(l, c, a, m, n - 1), f, MergedField(l, c, a, m, f))
<1>1. PICK v, N, P : v = MergedField(l, c, a, m, f) /\ N = Names(c, n) /\ P = Names(c, n - 1)
  OBVIOUS
<1>2. N = P \cup {f} /\ f \notin P
  BY <1>1, NamesGrow
<1>3. f \in DOMAIN m
  BY DEF IsSet
<1>4. PICK D, C : D = DOMAIN a \cup (DOMAIN m \cap N) /\ C = DOMAIN a \cup (DOMAIN m \cap P)
  OBVIOUS
<1>5. D = C \cup {f}
  BY <1>2, <1>3, <1>4
<1>6. PICK G, H : G = Halfway(l, c, a, m, n) /\ H = Halfway(l, c, a, m, n - 1)
  OBVIOUS
<1>7. /\ Maps(G, D)
      /\ \A g \in D : G[g] = IF g \in N THEN MergedField(l, c, a, m, g) ELSE a[g]
  <2>1. IsHalfway(G, l, c, a, m, N)
    BY <1>1, <1>6, HalfwayFacts
  <2> QED
    BY <1>4, <2>1 DEF IsHalfway
<1>8. /\ DOMAIN H = C
      /\ \A g \in C : H[g] = IF g \in P THEN MergedField(l, c, a, m, g) ELSE a[g]
  <2>1. IsHalfway(H, l, c, a, m, P)
    BY <1>1, <1>6, HalfwayFacts
  <2> QED
    BY <1>4, <2>1 DEF IsHalfway
<1>9. PICK S : S = Set(H, f, v)
  OBVIOUS
<1>10. Maps(S, D) /\ \A g \in D : S[g] = IF g = f THEN v ELSE H[g]
  <2>1. IsSetOf(S, H, f, v)
    BY <1>9, SetFacts
  <2> QED
    BY <1>5, <1>8, <2>1 DEF IsSetOf
<1>11. ASSUME NEW g \in D PROVE G[g] = S[g]
  <2>1. CASE g # f
    BY <1>2, <1>5, <1>7, <1>8, <1>10, <2>1
  <2>2. CASE g = f
    BY <1>1, <1>2, <1>7, <1>10, <2>2
  <2> QED
    BY <2>1, <2>2
<1>12. G = S
  BY <1>7, <1>10, <1>11, MapsSame
<1> QED
  BY <1>1, <1>6, <1>9, <1>12

\* A list, with the first k elements of another behind it.
Longer(L, vs, k) == L \o SubSeq(vs, 1, k)

GetsLonger(L, vs) ==
    /\ Longer(L, vs, 0) = L /\ Longer(L, vs, Len(vs)) = L \o vs
    /\ \A k \in 1 .. Len(vs) : Longer(L, vs, k) = Append(Longer(L, vs, k - 1), vs[k])

LEMMA LongerFacts ==
  ASSUME NEW L, NEW vs, IsSeq(L), IsSeq(vs)
  PROVE  GetsLonger(L, vs)
<1>1. PICK n, q \in Nat : n = Len(L) /\ q = Len(vs)
  BY SeqElim
<1>2. SubSeq(vs, 1, q) = vs
  <2>1. q = Len(vs) /\ q <= Len(vs) /\ \A i \in 1 .. q : vs[i] = vs[i]
    BY <1>1
  <2> QED
    BY <2>1, BeginningIs
<1>3. SubSeq(vs, 1, 0) = << >>
  <2>1. 0 = Len(<< >>) /\ IsSeq(<< >>)
    BY EmptyIsSeq
  <2>2. 0 \in Nat /\ 0 <= Len(vs) /\ \A i \in 1 .. 0 : FALSE
    BY <1>1
  <2> QED
    BY <2>1, <2>2, BeginningIs
<1>4. ASSUME NEW k \in 1 .. q PROVE Longer(L, vs, k) = Append(Longer(L, vs, k - 1), vs[k])
  <2>1. PICK h \in Nat : h = k - 1 /\ k = h + 1 /\ h <= q /\ k <= q
    OBVIOUS
  <2>2. PICK s, t : s = SubSeq(vs, 1, h) /\ t = SubSeq(vs, 1, k)
    OBVIOUS
  <2>3. IsSeq(s) /\ Len(s) = h /\ \A i \in 1 .. h : s[i] = vs[i]
    BY <1>1, <2>1, <2>2, Beginning
  <2>4. IsSeq(t) /\ Len(t) = k /\ \A i \in 1 .. k : t[i] = vs[i]
    BY <1>1, <2>1, <2>2, Beginning
  <2>5. PICK a, b : a = L \o s /\ b = L \o t
    OBVIOUS
  <2>6. /\ IsSeq(a) /\ Len(a) = n + h
        /\ \A i \in 1 .. n : a[i] = L[i]
        /\ \A i \in 1 .. h : a[n + i] = s[i]
    <3>1. IsSeq(L) /\ IsSeq(s) /\ n \in Nat /\ h \in Nat /\ n = Len(L) /\ h = Len(s)
      BY <1>1, <2>3
    <3> QED
      BY ONLY <2>5, <3>1, Joined
  <2>7. /\ IsSeq(b) /\ Len(b) = n + k
        /\ \A i \in 1 .. n : b[i] = L[i]
        /\ \A i \in 1 .. k : b[n + i] = t[i]
    <3>1. IsSeq(L) /\ IsSeq(t) /\ n \in Nat /\ k \in Nat /\ n = Len(L) /\ k = Len(t)
      BY <1>1, <2>4
    <3> QED
      BY ONLY <2>5, <3>1, Joined
  <2>8. PICK e, p : e = vs[k] /\ p = Append(a, e)
    OBVIOUS
  <2>9. /\ IsSeq(p) /\ Len(p) = (n + h) + 1
        /\ \A i \in 1 .. n + h : p[i] = a[i]
        /\ p[(n + h) + 1] = e
    BY <2>6, <2>8, AppendFacts
  <2>10. (n + h) + 1 = n + k
    BY <2>1
  <2>11. ASSUME NEW i \in 1 .. n + k PROVE p[i] = b[i]
    <3>1. CASE i \in 1 .. n
      <4>1. i \in 1 .. n + h
        BY <3>1
      <4> QED
        BY <2>6, <2>7, <2>9, <3>1, <4>1
    <3>2. CASE i \notin 1 .. n /\ i # n + k
      <4>1. PICK g \in 1 .. h : g = i - n /\ n + g = i /\ g \in 1 .. k /\ i \in 1 .. n + h
        BY <2>1, <3>2
      <4>2. p[i] = s[g] /\ b[i] = t[g]
        BY <2>6, <2>7, <2>9, <4>1
      <4> QED
        BY <2>3, <2>4, <4>1, <4>2
    <3>3. CASE i = n + k
      <4>1. p[i] = e
        BY <2>9, <2>10, <3>3
      <4>2. k \in 1 .. k
        OBVIOUS
      <4>3. b[i] = t[k] /\ t[k] = vs[k]
        BY <2>4, <2>7, <3>3, <4>2
      <4> QED
        BY <2>8, <4>1, <4>3
    <3> QED
      BY <3>1, <3>2, <3>3
  <2>12. p = b
    BY <2>7, <2>9, <2>10, <2>11, SeqSame
  <2> QED
    BY <2>1, <2>2, <2>5, <2>8, <2>12 DEF Longer
<1>5. L \o << >> = L
  BY CatEmpty
<1>6. Longer(L, vs, 0) = L /\ Longer(L, vs, q) = L \o vs
  BY <1>2, <1>3, <1>5 DEF Longer
<1> QED
  BY <1>1, <1>4, <1>6 DEF GetsLonger

LEMMA SetTwice ==
  ASSUME NEW m, NEW f, NEW v, NEW w
  PROVE  Set(Set(m, f, v), f, w) = Set(m, f, w)
<1>1. PICK s, t, u : s = Set(m, f, v) /\ t = Set(s, f, w) /\ u = Set(m, f, w)
  OBVIOUS
<1>2. IsSetOf(s, m, f, v) /\ IsSetOf(t, s, f, w) /\ IsSetOf(u, m, f, w)
  BY <1>1, SetFacts
<1>3. PICK D : D = DOMAIN m \cup {f}
  OBVIOUS
<1>4. DOMAIN s = D /\ \A g \in D : s[g] = IF g = f THEN v ELSE m[g]
  BY <1>2, <1>3 DEF IsSetOf
<1>5. Maps(t, D) /\ \A g \in D : t[g] = IF g = f THEN w ELSE s[g]
  <2>1. D = D \cup {f}
    BY <1>3
  <2> QED
    BY <1>2, <1>4, <2>1 DEF IsSetOf
<1>6. Maps(u, D) /\ \A g \in D : u[g] = IF g = f THEN w ELSE m[g]
  BY <1>2, <1>3 DEF IsSetOf
<1>7. \A g \in D : t[g] = u[g]
  BY <1>4, <1>5, <1>6
<1>8. t = u
  BY <1>5, <1>6, <1>7, MapsSame
<1> QED
  BY <1>1, <1>8

\* What a field that is still to be read is read into.
LEMMA Untouched ==
  ASSUME NEW l, NEW c \in Class, NEW a, NEW m, NEW n \in Number(c), NEW f, f = Schema[c][n].name,
         NEW H, H = Halfway(l, c, a, m, n - 1)
  PROVE  List(H, f) = List(a, f) /\ GetMessage(H, f) = GetMessage(a, f)
<1>1. PICK P : P = Names(c, n - 1)
  OBVIOUS
<1>2. f \notin P
  BY <1>1, NamesGrow
<1>3. IsHalfway(H, l, c, a, m, P)
  BY <1>1, HalfwayFacts
<1>4. (f \in DOMAIN H <=> f \in DOMAIN a) /\ (f \in DOMAIN a => H[f] = a[f])
  BY <1>2, <1>3 DEF IsHalfway
<1> QED
  BY <1>4 DEF List, GetMessage, IsSet

\* No value.
LEMMA NoneIsRead ==
  ASSUME NEW l \in 1 .. 3, ReadsWell(l - 1), NEW c \in Class, NEW n \in Number(c),
         NEW m, OfClassAt(l, c, m), ~IsSet(m, Schema[c][n].name), NEW H
  PROVE  FieldsOK(l, c, FieldsOf(c, m, n)) /\ Leads(l, c, H, CellsOf(l, FieldsOf(c, m, n)), H)
<1>1. PICK row, vs, q : row = Schema[c][n] /\ vs = Values(Schema[c][n], m) /\ q = 0
  OBVIOUS
<1>2. vs = << >>
  BY <1>1 DEF Values, List
<1>3. q \in Nat /\ q = Len(vs)
  BY <1>1, <1>2, EmptyIsSeq
<1>4. PICK E : E = [k \in 0 .. 0 |-> H]
  OBVIOUS
<1>5. E[0] = H /\ E[q] = H
  BY <1>1, <1>4
<1>6. StoresAlong(l, row, vs, E)
  BY <1>1, <1>3 DEF StoresAlong
<1>7. FieldsOK(l, c, FieldsOf(c, m, n)) /\ Leads(l, c, E[0], CellsOf(l, FieldsOf(c, m, n)), E[q])
  BY <1>1, <1>3, <1>6, ValuesAreRead
<1> QED
  BY <1>5, <1>7

\* One value.
LEMMA OneIsRead ==
  ASSUME NEW l \in 1 .. 3, ReadsWell(l - 1), NEW c \in Class, NEW n \in Number(c),
         NEW m, OfClassAt(l, c, m), NEW a, FitsAt(l, c, a),
         NEW f, f = Schema[c][n].name, IsSet(m, f), ~Schema[c][n].repeated
  PROVE  /\ FieldsOK(l, c, FieldsOf(c, m, n))
         /\ Leads(l, c, Halfway(l, c, a, m, n - 1), CellsOf(l, FieldsOf(c, m, n)),
                        Halfway(l, c, a, m, n))
<1>1. PICK row, vs, q, v : row = Schema[c][n] /\ vs = Values(Schema[c][n], m) /\ q = 1 /\ v = m[f]
  OBVIOUS
<1>2. vs = <<v>>
  BY <1>1 DEF Values
<1>3. q \in Nat /\ q = Len(vs) /\ vs[1] = v
  BY <1>1, <1>2, OneIsSeq
<1>4. PICK G, H : G = Halfway(l, c, a, m, n) /\ H = Halfway(l, c, a, m, n - 1)
  OBVIOUS
<1>5. PICK E : E = [k \in 0 .. 1 |-> IF k = 0 THEN H ELSE G]
  OBVIOUS
<1>6. E[0] = H /\ E[1] = G
  BY <1>5
<1>7. Under(row, H) = GetMessage(a, f)
  <2>1. GetMessage(H, f) = GetMessage(a, f)
    BY <1>4, Untouched
  <2> QED
    BY <1>1, <2>1 DEF Under
<1>8. Into(l, row, H, v) = MergedField(l, c, a, m, f)
  <2>1. /\ row.type \notin Class => MergedField(l, c, a, m, f) = m[f]
        /\ row.type \in Class =>
              MergedField(l, c, a, m, f) = MergeAt(l - 1, row.type, GetMessage(a, f), m[f])
    BY <1>1, MergedOptional, SMTT(30)
  <2> QED
    BY <1>1, <1>7, <2>1 DEF Into
<1>9. G = Store(H, row, Into(l, row, H, v))
  <2>1. G = Set(H, f, MergedField(l, c, a, m, f))
    BY <1>4, SetStep
  <2> QED
    BY <1>1, <1>8, <2>1 DEF Store
<1>10. row.type \in Class => FitsAt(l - 1, row.type, Under(row, H))
  <2>1. row.type \in Class => FitsAt(l - 1, row.type, GetMessage(a, f))
    BY <1>1, FitsFacts
  <2> QED
    BY <1>7, <2>1
<1>11. ASSUME NEW k \in 1 .. q
       PROVE  /\ E[k] = Store(E[k - 1], row, Into(l, row, E[k - 1], vs[k]))
              /\ row.type \in Class => FitsAt(l - 1, row.type, Under(row, E[k - 1]))
  <2>1. k = 1 /\ k - 1 = 0
    BY <1>1
  <2> QED
    BY <1>3, <1>6, <1>9, <1>10, <2>1
<1>13. StoresAlong(l, row, vs, E)
  BY <1>3, <1>11 DEF StoresAlong
<1>12. FieldsOK(l, c, FieldsOf(c, m, n)) /\ Leads(l, c, E[0], CellsOf(l, FieldsOf(c, m, n)), E[q])
  BY <1>1, <1>3, <1>13, ValuesAreRead
<1> QED
  BY <1>1, <1>4, <1>6, <1>12

\* A list.
LEMMA ListIsRead ==
  ASSUME NEW l \in 1 .. 3, ReadsWell(l - 1), NEW c \in Class, NEW n \in Number(c),
         NEW m, OfClassAt(l, c, m), NEW a, FitsAt(l, c, a),
         NEW f, f = Schema[c][n].name, IsSet(m, f), Schema[c][n].repeated
  PROVE  /\ FieldsOK(l, c, FieldsOf(c, m, n))
         /\ Leads(l, c, Halfway(l, c, a, m, n - 1), CellsOf(l, FieldsOf(c, m, n)),
                        Halfway(l, c, a, m, n))
<1>1. PICK row, vs : row = Schema[c][n] /\ vs = Values(Schema[c][n], m)
  OBVIOUS
<1>2. row.type \in Class /\ ~OptionalField(c, f)
  BY <1>1, RepeatedField
<1>3. vs = m[f] /\ vs = List(m, f)
  BY <1>1 DEF Values, List
<1>4. /\ IsSeq(vs) /\ vs # << >>
      /\ \A i \in 1 .. Len(vs) : OfClassAt(l - 1, row.type, vs[i])
  BY <1>1, <1>2, OfClassFacts
<1>5. PICK q \in Nat \ {0} : q = Len(vs)
  BY <1>4, SeqElim, EmptyIfNoLen
<1>6. PICK L : L = List(a, f) /\ IsSeq(L)
  BY <1>2, ListIsSeq
<1>7. /\ Longer(L, vs, 0) = L /\ Longer(L, vs, q) = L \o vs
      /\ \A k \in 1 .. q : Longer(L, vs, k) = Append(Longer(L, vs, k - 1), vs[k])
  <2>1. GetsLonger(L, vs)
    BY <1>4, <1>6, LongerFacts
  <2> QED
    BY <1>5, <2>1 DEF GetsLonger
<1>8. PICK G, H : G = Halfway(l, c, a, m, n) /\ H = Halfway(l, c, a, m, n - 1)
  OBVIOUS
<1>9. List(H, f) = L
  BY <1>6, <1>8, Untouched
<1>10. PICK E : E = [k \in 0 .. q |-> IF k = 0 THEN H ELSE Set(H, f, Longer(L, vs, k))]
  OBVIOUS
<1>11. E[0] = H /\ \A k \in 1 .. q : E[k] = Set(H, f, Longer(L, vs, k))
  BY <1>10
<1>12. E[q] = G
  <2>1. G = Set(H, f, MergedField(l, c, a, m, f))
    BY <1>8, SetStep
  <2>2. MergedField(l, c, a, m, f) = List(a, f) \o List(m, f)
    BY <1>2, MergedRest
  <2>3. q \in 1 .. q
    OBVIOUS
  <2> QED
    BY <1>3, <1>6, <1>7, <1>11, <2>1, <2>2, <2>3
<1>13. ASSUME NEW k \in 1 .. q
       PROVE  /\ List(E[k - 1], f) = Longer(L, vs, k - 1)
              /\ \A v : Set(E[k - 1], f, v) = Set(H, f, v)
  <2>1. CASE k = 1
    <3>1. k - 1 = 0
      BY <2>1
    <3> QED
      BY <1>7, <1>9, <1>11, <3>1
  <2>2. CASE k # 1
    <3>1. PICK h \in 1 .. q : h = k - 1
      BY <2>2
    <3>2. PICK w : w = Longer(L, vs, h)
      OBVIOUS
    <3>3. E[h] = Set(H, f, w)
      BY <1>11, <3>1, <3>2
    <3>4. IsSetOf(E[h], H, f, w)
      BY <3>3, SetFacts
    <3>5. List(E[h], f) = w
      BY <3>4 DEF IsSetOf
    <3>6. \A v : Set(E[h], f, v) = Set(H, f, v)
      BY <3>3, SetTwice
    <3> QED
      BY <3>1, <3>2, <3>5, <3>6
  <2> QED
    BY <2>1, <2>2
<1>14. ASSUME NEW k \in 1 .. q, NEW e
       PROVE  Under(row, e) = Clear /\ Into(l, row, e, vs[k]) = vs[k]
  <2>1. Under(row, e) = Clear
    BY <1>1 DEF Under
  <2>2. PICK v : v = vs[k]
    OBVIOUS
  <2>3. OfClassAt(l - 1, row.type, v) /\ l - 1 \in 0 .. 3
    BY <1>4, <1>5, <2>2
  <2>4. MergeAt(l - 1, row.type, Clear, v) = v
    BY <1>2, <2>3, MergeNew
  <2> QED
    BY <1>2, <2>1, <2>2, <2>4 DEF Into
<1>15. ASSUME NEW k \in 1 .. q
       PROVE  E[k] = Store(E[k - 1], row, Into(l, row, E[k - 1], vs[k]))
  <2>1. PICK e, v : e = E[k - 1] /\ v = vs[k]
    OBVIOUS
  <2>2. Into(l, row, e, v) = v
    BY <1>14, <2>1
  <2>3. Store(e, row, v) = Set(e, f, Append(List(e, f), v))
    BY <1>1 DEF Store
  <2>4. List(e, f) = Longer(L, vs, k - 1) /\ Set(e, f, Append(List(e, f), v)) = Set(H, f, Append(List(e, f), v))
    BY <1>13, <2>1
  <2>5. Append(List(e, f), v) = Longer(L, vs, k)
    BY <1>7, <2>1, <2>4
  <2>6. E[k] = Set(H, f, Longer(L, vs, k))
    BY <1>11
  <2> QED
    BY <2>1, <2>2, <2>3, <2>4, <2>5, <2>6
<1>16. ASSUME NEW k \in 1 .. q
       PROVE  row.type \in Class => FitsAt(l - 1, row.type, Under(row, E[k - 1]))
  <2>1. Under(row, E[k - 1]) = Clear
    BY <1>14
  <2>2. l - 1 \in 0 .. 3
    OBVIOUS
  <2> QED
    BY <2>1, <2>2, ClearFits
<1>17. FieldsOK(l, c, FieldsOf(c, m, n)) /\ Leads(l, c, E[0], CellsOf(l, FieldsOf(c, m, n)), E[q])
  <2>1. StoresAlong(l, row, vs, E)
    BY <1>5, <1>15, <1>16 DEF StoresAlong
  <2> QED
    BY <1>1, <1>5, <2>1, ValuesAreRead
<1> QED
  BY <1>8, <1>11, <1>12, <1>17

\* The fields of one number.
FieldsAreRead(l, c, a, m, n) ==
    /\ FieldsOK(l, c, FieldsOf(c, m, n))
    /\ Leads(l, c, Halfway(l, c, a, m, n - 1), CellsOf(l, FieldsOf(c, m, n)), Halfway(l, c, a, m, n))

LEMMA NumberStep ==
  ASSUME NEW l \in 1 .. 3, ReadsWell(l - 1), NEW c \in Class, NEW n \in Number(c),
         NEW m, OfClassAt(l, c, m), NEW a, FitsAt(l, c, a)
  PROVE  FieldsAreRead(l, c, a, m, n)
<1>1. PICK f : f = Schema[c][n].name
  OBVIOUS
<1>2. CASE ~IsSet(m, f)
  <2>1. PICK G, H : G = Halfway(l, c, a, m, n) /\ H = Halfway(l, c, a, m, n - 1)
    OBVIOUS
  <2>2. G = H
    BY <1>1, <1>2, <2>1, UnsetStep
  <2>3. FieldsOK(l, c, FieldsOf(c, m, n)) /\ Leads(l, c, H, CellsOf(l, FieldsOf(c, m, n)), H)
    BY <1>1, <1>2, NoneIsRead
  <2> QED
    BY <2>1, <2>2, <2>3 DEF FieldsAreRead
<1>3. CASE IsSet(m, f) /\ ~Schema[c][n].repeated
  BY <1>1, <1>3, OneIsRead DEF FieldsAreRead
<1>4. CASE IsSet(m, f) /\ Schema[c][n].repeated
  BY <1>1, <1>4, ListIsRead DEF FieldsAreRead
<1> QED
  BY <1>2, <1>3, <1>4

LEMMA HalfwayStart ==
  ASSUME NEW l \in 1 .. 3, NEW c, NEW a, FitsAt(l, c, a), NEW m
  PROVE  Halfway(l, c, a, m, 0) = a
<1>1. PICK H, N, D : H = Halfway(l, c, a, m, 0) /\ N = Names(c, 0) /\ D = DOMAIN a
  OBVIOUS
<1>2. N = {}
  <2>1. 1 .. 0 = {}
    OBVIOUS
  <2> QED
    BY <1>1, <2>1 DEF Names
<1>3. IsHalfway(H, l, c, a, m, N)
  BY <1>1, HalfwayFacts
<1>4. Maps(H, D) /\ \A f \in D : H[f] = a[f]
  <2>1. D = DOMAIN a \cup (DOMAIN m \cap N)
    BY <1>1, <1>2
  <2> QED
    BY <1>2, <1>3, <2>1 DEF IsHalfway
<1>5. Maps(a, D)
  <2>1. a = [f \in DOMAIN a |-> a[f]]
    BY FitsFacts
  <2> QED
    BY <1>1, <2>1 DEF Maps
<1>6. H = a
  BY <1>4, <1>5, MapsSame
<1> QED
  BY <1>1, <1>6

LEMMA HalfwayEnd ==
  ASSUME NEW l \in 1 .. 3, NEW c \in Class, NEW a, FitsAt(l, c, a), NEW m, OfClassAt(l, c, m),
         NEW q, Number(c) = 1 .. q
  PROVE  Halfway(l, c, a, m, q) = MergeAt(l, c, a, m)
<1>1. PICK H, N, D, M : /\ H = Halfway(l, c, a, m, q) /\ N = Names(c, q)
                        /\ D = DOMAIN a \cup DOMAIN m /\ M = MergeAt(l, c, a, m)
  OBVIOUS
<1>2. DOMAIN m \subseteq N
  <2> SUFFICES ASSUME NEW f \in DOMAIN m PROVE f \in N
    OBVIOUS
  <2>1. \A g \in DOMAIN m : \E n \in Number(c) : Schema[c][n].name = g
    BY ONLY l \in 1 .. 3, c \in Class, OfClassAt(l, c, m), OfClassFacts
  <2>2. PICK n \in Number(c) : Schema[c][n].name = f
    BY <2>1
  <2> QED
    BY <1>1, <2>2 DEF Names
<1>3. IsHalfway(H, l, c, a, m, N)
  BY <1>1, HalfwayFacts
<1>4. Maps(H, D) /\ \A f \in D : H[f] = IF f \in N THEN MergedField(l, c, a, m, f) ELSE a[f]
  <2>1. D = DOMAIN a \cup (DOMAIN m \cap N)
    BY <1>1, <1>2
  <2> QED
    BY <1>3, <2>1 DEF IsHalfway
<1>5. Maps(M, D) /\ \A f \in D : M[f] = MergedField(l, c, a, m, f)
  BY <1>1, MergeMaps
<1>6. ASSUME NEW f \in D PROVE H[f] = M[f]
  <2>1. CASE f \in N
    BY <1>4, <1>5, <2>1
  <2>2. CASE f \notin N
    <3>1. IsSet(a, f) /\ ~IsSet(m, f)
      BY <1>1, <1>2, <2>2 DEF IsSet
    <3>2. MergedField(l, c, a, m, f) = a[f]
      BY <3>1, MergedUnset
    <3> QED
      BY <1>4, <1>5, <2>2, <3>2
  <2> QED
    BY <2>1, <2>2
<1>7. H = M
  BY <1>4, <1>5, <1>6, MapsSame
<1> QED
  BY <1>1, <1>7

LEMMA ReadsStep ==
  ASSUME NEW l \in 1 .. 3, ReadsWell(l - 1)
  PROVE  ReadsWell(l)
<1> SUFFICES ASSUME NEW c \in Class, NEW m, NEW a, OfClassAt(l, c, m), FitsAt(l, c, a)
             PROVE  Leads(l, c, a, WriteAt(l, c, m), MergeAt(l, c, a, m))
  BY DEF ReadsWell
<1>1. PICK ns : ns = [n \in Number(c) |-> FieldsOf(c, m, n)]
  OBVIOUS
<1>2. AllSeqs(ns)
  BY <1>1, FieldsFacts
<1>3. PICK q \in Nat : q = Len(ns) /\ Number(c) = 1 .. q
  <2>1. Len(ns) \in Nat /\ DOMAIN ns = 1 .. Len(ns)
    BY <1>2, SeqElim DEF AllSeqs
  <2>2. DOMAIN ns = Number(c)
    BY <1>1
  <2> QED
    BY <2>1, <2>2
<1>4. PICK w : Joins(w, ns)
  BY <1>2, JoinsExist
<1>5. w[0] = << >> /\ \A k \in 1 .. q : w[k] = w[k - 1] \o ns[k]
  BY <1>3, <1>4 DEF Joins
<1>6. w[q] = Fields(c, m)
  <2>1. FlattenSeq(ns) = w[q]
    BY <1>2, <1>3, <1>4, FlattenIsJoin
  <2> QED
    BY <1>1, <2>1, FieldsAre
<1> DEFINE Good(k) == /\ FieldsOK(l, c, w[k])
                      /\ Leads(l, c, a, CellsOf(l, w[k]), Halfway(l, c, a, m, k))
           T == {k \in Nat : k <= q => Good(k)}
<1>7. Good(0)
  <2>1. FieldsOK(l, c, << >>)
    <3>1. PICK e : e = << >> /\ IsSeq(e) /\ Len(e) = 0
      BY EmptyIsSeq
    <3> QED
      BY <3>1 DEF FieldsOK
  <2>2. CellsOf(l, << >>) = << >>
    <3>1. PICK e : e = << >> /\ IsSeq(e) /\ Len(e) = 0
      BY EmptyIsSeq
    <3>2. PICK ss : ss = CellsEach(l, e)
      OBVIOUS
    <3>3. AllSeqs(ss) /\ Len(ss) = 0
      BY <2>1, <3>1, <3>2, CellsEachFacts
    <3>4. ss = << >>
      BY <3>3, EmptyIfNoLen DEF AllSeqs
    <3>5. FlattenSeq(ss) = << >>
      BY <3>4, FlattenNone
    <3> QED
      BY <3>1, <3>2, <3>5 DEF CellsOf, CellsEach
  <2>3. Halfway(l, c, a, m, 0) = a
    BY HalfwayStart
  <2> QED
    BY <1>5, <2>1, <2>2, <2>3, LeadsNone
<1>8. ASSUME NEW k \in Nat, k + 1 <= q, Good(k) PROVE Good(k + 1)
  <2>1. PICK n \in Number(c) : n = k + 1 /\ n - 1 = k /\ n \in 1 .. q
    BY <1>3, <1>8
  <2>2. FieldsAreRead(l, c, a, m, n)
    BY NumberStep
  <2>3. PICK x, y, b, e : /\ x = w[k] /\ y = FieldsOf(c, m, n)
                          /\ b = Halfway(l, c, a, m, k) /\ e = Halfway(l, c, a, m, n)
    OBVIOUS
  <2>4. FieldsOK(l, c, y) /\ Leads(l, c, b, CellsOf(l, y), e)
    BY <2>1, <2>2, <2>3 DEF FieldsAreRead
  <2>5. FieldsOK(l, c, x) /\ Leads(l, c, a, CellsOf(l, x), b)
    BY <1>8, <2>3
  <2>6. w[n] = x \o y
    BY <1>1, <1>5, <2>1, <2>3
  <2>7. FieldsOK(l, c, x \o y) /\ CellsOf(l, x \o y) = CellsOf(l, x) \o CellsOf(l, y)
    <3>1. FieldsOK(l, c, x) /\ FieldsOK(l, c, y)
      BY <2>4, <2>5
    <3> QED
      BY ONLY l \in 1 .. 3, c \in Class, <3>1, CellsCat, SMTT(30)
  <2>8. Leads(l, c, a, CellsOf(l, x) \o CellsOf(l, y), e)
    BY <2>4, <2>5, LeadsThen
  <2> QED
    BY <2>1, <2>3, <2>6, <2>7, <2>8
<1> HIDE DEF Good
<1>9. \A k \in T : k \in Nat => k + 1 \in T
  <2> SUFFICES ASSUME NEW k \in T, k \in Nat, k + 1 <= q PROVE Good(k + 1)
    OBVIOUS
  <2> QED
    BY <1>8
<1>10. 0 \in T
  BY <1>7
<1> HIDE DEF T
<1>11. Nat \subseteq T
  BY <1>9, <1>10, SetInduction
<1>12. q \in T
  BY <1>11
<1>13. Good(q)
  BY <1>12 DEF T
<1>14. Leads(l, c, a, CellsOf(l, w[q]), Halfway(l, c, a, m, q))
  BY <1>13 DEF Good
<1>15. Halfway(l, c, a, m, q) = MergeAt(l, c, a, m)
  BY <1>3, HalfwayEnd
<1>16. WriteAt(l, c, m) = CellsOf(l, w[q])
  <2>1. PICK u : u = CellsOf(l, w[q])
    OBVIOUS
  <2>2. WriteAt(l, c, m) = u \o List(m, "unknown")
    BY <1>6, <2>1, WriteIs
  <2>3. List(m, "unknown") = << >>
    BY NothingUnknown
  <2>4. IsSeq(u)
    BY <1>14, <2>1 DEF Leads
  <2>5. u \o << >> = u
    BY <2>4, CatEmpty
  <2> QED
    BY <2>1, <2>2, <2>3, <2>5
<1> QED
  BY <1>14, <1>15, <1>16

LEMMA AllReadWell == ReadsWell(3)
<1>0. ReadsWell(0)
  BY DEF ReadsWell, OfClassAt
<1>1. ReadsWell(1)
  BY <1>0, ReadsStep, 1 - 1 = 0
<1>2. ReadsWell(2)
  BY <1>1, ReadsStep, 2 - 1 = 1
<1>3. ReadsWell(3)
  BY <1>2, ReadsStep, 3 - 1 = 2
<1> QED
  BY <1>3

\* What ParseFromArray reads of the cells that SerializeWithCachedSizes wrote is the message,
\* to the last cell, for every class and every message of it.
THEOREM MessageIsReadBack ==
  ASSUME NEW c \in Class, NEW m, OfClass(c, m)
  PROVE  ParseFromArray(c, Serialize(c, m)) = [ok |-> TRUE, msg |-> m, at |-> ByteSize(c, m)]
<1>1. PICK t : t = Serialize(c, m)
  OBVIOUS
<1>2. OfClassAt(3, c, m)
  BY DEF OfClassAt
<1>3. FitsAt(3, c, Clear)
  BY ClearFits
<1>4. WriteAt(3, c, m) = t
  BY <1>1 DEF WriteAt
<1>5. MergeAt(3, c, Clear, m) = m
  BY <1>2, MergeNew
<1>6. Leads(3, c, Clear, t, m)
  BY <1>2, <1>3, <1>4, <1>5, AllReadWell DEF ReadsWell
<1>7. ReadAt(3, c, Clear, t) = At(m, Len(t))
  BY <1>6, ReadBack
<1>8. ByteSize(c, m) = Len(t)
  BY <1>1, SizeIsAnnounced
<1> QED
  BY <1>1, <1>7, <1>8 DEF ReadAt, ParseFromArray, At

-----------------------------------------------------------------------------
(* What one turn does with any cells, and that it does the same when more  *)
(* cells come behind them.                                                 *)

Begins(u, s) ==
    /\ IsSeq(u) /\ IsSeq(s) /\ Len(s) <= Len(u)
    /\ \A i \in 1 .. Len(s) : u[i] = s[i]

\* A whole field of k cells stands behind the first j.
WholeField(s, j, k) ==
    /\ IsSeq(s) /\ j \in Nat /\ k \in Nat /\ k >= 2 /\ j + k <= Len(s)
    /\ FieldSize(s, j + 1) = k

LEMMA FieldSizeIs ==
  ASSUME NEW s, IsSeq(s), LengthsOK(s), NEW j \in Nat, j < Len(s),
         NEW k, k = FieldSize(s, j + 1)
  PROVE  k \in Nat /\ (j + k <= Len(s) => WholeField(s, j, k))
<1>1. PICK z \in Nat : z = Len(s)
  BY SeqElim
<1>2. PICK i \in Nat : i = j + 1
  OBVIOUS
<1>3. CASE i >= z \/ s[i][1] # "tag"
  <2>1. k = z + 1
    BY <1>1, <1>2, <1>3 DEF FieldSize
  <2> QED
    BY <1>1, <2>1
<1>4. CASE i < z /\ s[i][1] = "tag" /\ s[i][3] = "varint"
  <2>1. k = 2
    BY <1>1, <1>2, <1>4 DEF FieldSize
  <2> QED
    BY <1>1, <1>2, <1>4, <2>1 DEF WholeField
<1>5. CASE i < z /\ s[i][1] = "tag" /\ s[i][3] # "varint" /\ s[i + 1][1] = "len"
  <2>1. PICK n \in Nat : n = s[i + 1][2]
    <3>1. i + 1 \in 1 .. z
      BY <1>1, <1>5
    <3> QED
      BY <1>1, <1>5, <3>1 DEF LengthsOK
  <2>2. k = 2 + n
    BY <1>1, <1>2, <1>5, <2>1 DEF FieldSize
  <2>3. k \in Nat /\ k >= 2
    BY <2>1, <2>2
  <2> QED
    BY <1>1, <2>3 DEF WholeField
<1>6. CASE i < z /\ s[i][1] = "tag" /\ s[i][3] # "varint" /\ s[i + 1][1] # "len"
  <2>1. k = z + 1
    BY <1>1, <1>2, <1>6 DEF FieldSize
  <2> QED
    BY <1>1, <2>1
<1> QED
  BY <1>1, <1>2, <1>3, <1>4, <1>5, <1>6

LEMMA WholeStays ==
  ASSUME NEW s, NEW u, Begins(u, s), NEW j, NEW k, WholeField(s, j, k)
  PROVE  /\ WholeField(u, j, k)
         /\ u[j + 1] = s[j + 1] /\ u[j + 2] = s[j + 2]
         /\ k > 2 => u[j + 3] = s[j + 3]
<1>1. PICK z, y \in Nat : z = Len(s) /\ y = Len(u)
  BY SeqElim DEF Begins
<1>2. j \in Nat /\ k \in Nat /\ k >= 2 /\ j + k <= z /\ z <= y
  BY <1>1 DEF Begins, WholeField
<1>3. u[j + 1] = s[j + 1] /\ u[j + 2] = s[j + 2]
  <2>1. j + 1 \in 1 .. z /\ j + 2 \in 1 .. z
    BY <1>1, <1>2
  <2> QED
    BY <1>1, <2>1 DEF Begins
<1>4. ASSUME k > 2 PROVE u[j + 3] = s[j + 3]
  <2>1. j + 3 \in 1 .. z
    BY <1>1, <1>2, <1>4
  <2> QED
    BY <1>1, <2>1 DEF Begins
<1>5. PICK i \in Nat : i = j + 1 /\ i + 1 = j + 2
  BY <1>2
<1>6. ~(i >= z) /\ ~(i >= y) /\ k # z + 1
  BY <1>1, <1>2, <1>5
<1>7. FieldSize(s, i) = k
  BY <1>5 DEF WholeField
<1>8. s[i][1] = "tag"
  BY <1>1, <1>6, <1>7 DEF FieldSize
<1>9. CASE s[i][3] = "varint"
  <2>1. k = 2
    BY <1>1, <1>6, <1>7, <1>8, <1>9 DEF FieldSize
  <2>2. FieldSize(u, i) = 2
    BY <1>1, <1>3, <1>5, <1>6, <1>8, <1>9 DEF FieldSize
  <2> QED
    BY <1>1, <1>2, <1>3, <1>4, <1>5, <2>1, <2>2 DEF WholeField, Begins
<1>10. CASE s[i][3] # "varint"
  <2>1. s[i + 1][1] = "len" /\ k = 2 + s[i + 1][2]
    BY <1>1, <1>6, <1>7, <1>8, <1>10 DEF FieldSize
  <2>2. FieldSize(u, i) = 2 + s[i + 1][2]
    BY <1>1, <1>3, <1>5, <1>6, <1>8, <1>10, <2>1 DEF FieldSize
  <2> QED
    BY <1>1, <1>2, <1>3, <1>4, <1>5, <2>1, <2>2 DEF WholeField, Begins
<1> QED
  BY <1>9, <1>10

StretchSame(s, u, m, k) ==
    IsSeq(SubSeq(s, m + 1, m + k)) /\ SubSeq(u, m + 1, m + k) = SubSeq(s, m + 1, m + k)

LEMMA SameStretch ==
  ASSUME NEW s, NEW u, Begins(u, s), NEW m \in Nat, NEW k \in Nat, m + k <= Len(s)
  PROVE  StretchSame(s, u, m, k)
<1>1. PICK z, y \in Nat : z = Len(s) /\ y = Len(u) /\ z <= y
  BY SeqElim DEF Begins
<1>2. PICK t, v : t = SubSeq(s, m + 1, m + k) /\ v = SubSeq(u, m + 1, m + k)
  OBVIOUS
<1>3. IsSeq(t) /\ Len(t) = k /\ \A i \in 1 .. k : t[i] = s[m + i]
  BY <1>2, SubFacts DEF Begins
<1>4. IsSeq(v) /\ Len(v) = k /\ \A i \in 1 .. k : v[i] = u[m + i]
  <2>1. IsSeq(u) /\ m + k <= Len(u)
    BY <1>1 DEF Begins
  <2> QED
    BY <1>2, <2>1, SubFacts
<1>5. ASSUME NEW i \in 1 .. k PROVE t[i] = v[i]
  <2>1. m + i \in 1 .. z
    BY <1>1
  <2>2. u[m + i] = s[m + i]
    BY <1>1, <2>1 DEF Begins
  <2> QED
    BY <1>3, <1>4, <2>2
<1>6. t = v
  BY <1>3, <1>4, <1>5, SeqSame
<1> QED
  BY <1>2, <1>3, <1>6 DEF StretchSame

Starts(r, s, j, k, a) ==
    /\ r.ok = TRUE /\ r.at = j /\ r.msg = a /\ r = [ok |-> TRUE, msg |-> a, at |-> j]
    /\ r.at + 1 = j + 1 /\ r.at + FieldSize(s, r.at + 1) = j + k
    /\ ~(~r.ok \/ r.at = Len(s)) /\ ~(r.at + FieldSize(s, r.at + 1) > Len(s))

LEMMA TurnStart ==
  ASSUME NEW s, NEW j, NEW k, WholeField(s, j, k), NEW a, NEW r, r = At(a, j)
  PROVE  Starts(r, s, j, k, a)
<1>1. r.ok = TRUE /\ r.at = j /\ r.msg = a /\ r = [ok |-> TRUE, msg |-> a, at |-> j]
  BY DEF At
<1>2. PICK z \in Nat : z = Len(s)
  BY SeqElim DEF WholeField
<1>3. /\ j \in Nat /\ k \in Nat /\ j + k <= z /\ j # z /\ ~(j + k > z)
      /\ FieldSize(s, j + 1) = k
  BY <1>2 DEF WholeField
<1> QED
  BY <1>1, <1>2, <1>3 DEF Starts

\* A field of another number or another wire type.
KeepsUnknown(c, s, j, k, a, sub) ==
    Turn(c, s, At(a, j), sub)
        = At(Set(a, "unknown", List(a, "unknown") \o SubSeq(s, j + 1, j + k)), j + k)

LEMMA UnknownTurn ==
  ASSUME NEW c, NEW s, NEW j, NEW k, WholeField(s, j, k), NEW a, NEW sub,
         \/ s[j + 1][2] \notin Number(c)
         \/ WireType(Schema[c][s[j + 1][2]].type) # s[j + 1][3]
  PROVE  KeepsUnknown(c, s, j, k, a, sub)
<1>1. PICK r : r = At(a, j)
  OBVIOUS
<1>2. /\ r.ok = TRUE /\ r.at = j /\ r.msg = a /\ r = [ok |-> TRUE, msg |-> a, at |-> j]
      /\ r.at + 1 = j + 1 /\ r.at + FieldSize(s, r.at + 1) = j + k
      /\ ~(~r.ok \/ r.at = Len(s)) /\ ~(r.at + FieldSize(s, r.at + 1) > Len(s))
  <2>1. Starts(r, s, j, k, a)
    BY <1>1, TurnStart
  <2> QED
    BY <2>1 DEF Starts
<1>3. Turn(c, s, r, sub) = [r EXCEPT !.at = j + k,
          !.msg = Set(r.msg, "unknown", List(r.msg, "unknown") \o SubSeq(s, j + 1, j + k))]
  BY <1>2 DEF Turn, TurnTo
<1> QED
  BY <1>1, <1>2, <1>3, ZenonT(40) DEF At, KeepsUnknown

LEMMA WholeNumberTurn ==
  ASSUME NEW c, NEW s, NEW j, NEW k, WholeField(s, j, k), NEW a, NEW sub,
         NEW n \in Number(c), s[j + 1][2] = n, WireType(Schema[c][n].type) = s[j + 1][3],
         Schema[c][n].type = "int"
  PROVE  Turn(c, s, At(a, j), sub) = At(Store(a, Schema[c][n], s[j + 2][2]), j + k)
<1>1. PICK r : r = At(a, j)
  OBVIOUS
<1>2. /\ r.ok = TRUE /\ r.at = j /\ r.msg = a /\ r = [ok |-> TRUE, msg |-> a, at |-> j]
      /\ r.at + 1 = j + 1 /\ r.at + FieldSize(s, r.at + 1) = j + k
      /\ ~(~r.ok \/ r.at = Len(s)) /\ ~(r.at + FieldSize(s, r.at + 1) > Len(s))
  <2>1. Starts(r, s, j, k, a)
    BY <1>1, TurnStart
  <2> QED
    BY <2>1 DEF Starts
<1>3. (r.at + 1) + 1 = j + 2
  BY <1>2 DEF WholeField
<1>4. Turn(c, s, r, sub) = [r EXCEPT !.at = j + k, !.msg = Store(r.msg, Schema[c][n], s[j + 2][2])]
  BY <1>2, <1>3 DEF Turn, TurnTo
<1> QED
  BY <1>1, <1>2, <1>4 DEF At

TextAt(s, j, k) == IF k = 2 THEN "" ELSE s[j + 3][2]

LEMMA WholeTextTurn ==
  ASSUME NEW c, NEW s, NEW j, NEW k, WholeField(s, j, k), NEW a, NEW sub,
         NEW n \in Number(c), s[j + 1][2] = n, WireType(Schema[c][n].type) = s[j + 1][3],
         Schema[c][n].type = "string"
  PROVE  Turn(c, s, At(a, j), sub) = At(Store(a, Schema[c][n], TextAt(s, j, k)), j + k)
<1>1. PICK r : r = At(a, j)
  OBVIOUS
<1>2. /\ r.ok = TRUE /\ r.at = j /\ r.msg = a /\ r = [ok |-> TRUE, msg |-> a, at |-> j]
      /\ r.at + 1 = j + 1 /\ r.at + FieldSize(s, r.at + 1) = j + k
      /\ ~(~r.ok \/ r.at = Len(s)) /\ ~(r.at + FieldSize(s, r.at + 1) > Len(s))
  <2>1. Starts(r, s, j, k, a)
    BY <1>1, TurnStart
  <2> QED
    BY <2>1 DEF Starts
<1>3. (r.at + 1) + 2 = j + 3 /\ (j + k = (j + 1) + 1 <=> k = 2)
  BY <1>2 DEF WholeField
<1>4. PICK v : v = IF j + k = (j + 1) + 1 THEN "" ELSE s[j + 3][2]
  OBVIOUS
<1>5. Turn(c, s, r, sub) = [r EXCEPT !.at = j + k, !.msg = Store(r.msg, Schema[c][n], v)]
  BY <1>2, <1>3, <1>4 DEF Turn, TurnTo
<1>6. v = TextAt(s, j, k)
  BY <1>3, <1>4 DEF TextAt
<1> QED
  BY <1>1, <1>2, <1>5, <1>6 DEF At

StoresMessage(c, s, j, k, a, n, sub) ==
    /\ Turn(c, s, At(a, j), sub)
          = [ok |-> sub.ok, msg |-> Store(a, Schema[c][n], sub.msg), at |-> j + k]
    /\ Behind(c, s, At(a, j)).type = Schema[c][n].type
    /\ Behind(c, s, At(a, j)).into = Under(Schema[c][n], a)
    /\ Behind(c, s, At(a, j)).cells = SubSeq(s, j + 3, j + k)

LEMMA WholeMessageTurn ==
  ASSUME NEW c, NEW s, NEW j, NEW k, WholeField(s, j, k), NEW a, NEW sub,
         NEW n \in Number(c), s[j + 1][2] = n, WireType(Schema[c][n].type) = s[j + 1][3],
         Schema[c][n].type \in Class
  PROVE  StoresMessage(c, s, j, k, a, n, sub)
<1>1. PICK r, row : r = At(a, j) /\ row = Schema[c][n]
  OBVIOUS
<1>2. /\ r.ok = TRUE /\ r.at = j /\ r.msg = a /\ r = [ok |-> TRUE, msg |-> a, at |-> j]
      /\ r.at + 1 = j + 1 /\ r.at + FieldSize(s, r.at + 1) = j + k
      /\ ~(~r.ok \/ r.at = Len(s)) /\ ~(r.at + FieldSize(s, r.at + 1) > Len(s))
  <2>1. Starts(r, s, j, k, a)
    BY <1>1, TurnStart
  <2> QED
    BY <2>1 DEF Starts
<1>3. row.type # "int" /\ row.type # "string"
  BY <1>1, ClassIs
<1>4. Turn(c, s, r, sub) = [ok |-> sub.ok, msg |-> Store(r.msg, row, sub.msg), at |-> j + k]
  BY <1>1, <1>2, <1>3 DEF Turn, TurnTo
<1>5. r.at + 3 = j + 3
  BY <1>2
<1>9. PICK v, t : v = Under(row, a) /\ t = SubSeq(s, j + 3, j + k)
  OBVIOUS
<1>10. v = IF row.repeated THEN Clear ELSE GetMessage(a, row.name)
  BY <1>9 DEF Under
<1>6. Behind(c, s, r) = [type |-> row.type, into |-> v, cells |-> t]
  BY <1>1, <1>2, <1>5, <1>9, <1>10 DEF Behind, InRow
<1>7. PICK b : b = Behind(c, s, r)
  OBVIOUS
<1>8. b.type = row.type /\ b.into = Under(row, a) /\ b.cells = SubSeq(s, j + 3, j + k)
  <2>1. b = [type |-> row.type, into |-> v, cells |-> t]
    BY <1>6, <1>7
  <2>2. b.type = row.type /\ b.into = v /\ b.cells = t
    BY ONLY <2>1
  <2> QED
    BY ONLY <1>9, <2>2
<1> QED
  BY <1>1, <1>2, <1>4, <1>7, <1>8 DEF StoresMessage

LEMMA LengthsInside ==
  ASSUME NEW s, IsSeq(s), LengthsOK(s), NEW m \in Nat, NEW k \in Nat, m + k <= Len(s)
  PROVE  IsSeq(SubSeq(s, m + 1, m + k)) /\ LengthsOK(SubSeq(s, m + 1, m + k))
<1>1. PICK z \in Nat : z = Len(s)
  BY SeqElim
<1>2. PICK t : t = SubSeq(s, m + 1, m + k)
  OBVIOUS
<1>3. IsSeq(t) /\ Len(t) = k /\ \A i \in 1 .. k : t[i] = s[m + i]
  BY <1>2, SubFacts
<1>4. ASSUME NEW i \in 1 .. k, t[i][1] = "len" PROVE t[i][2] \in Nat
  <2>1. m + i \in 1 .. z
    BY <1>1
  <2>2. t[i] = s[m + i]
    BY <1>3
  <2> QED
    BY <1>1, <1>4, <2>1, <2>2 DEF LengthsOK
<1>5. LengthsOK(t)
  BY <1>3, <1>4 DEF LengthsOK
<1> QED
  BY <1>2, <1>3, <1>5

\* A value that may be stored in a field.
MayHold(l, c, f, v) ==
    /\ ~OptionalField(c, f) => IsSeq(v)
    /\ \A n \in Number(c) :
          Schema[c][n].name = f /\ Schema[c][n].type \in Class /\ ~Schema[c][n].repeated =>
             FitsAt(l - 1, Schema[c][n].type, v)

LEMMA SetFits ==
  ASSUME NEW l \in 1 .. 3, NEW c \in Class, NEW a, FitsAt(l, c, a), NEW f, NEW v, MayHold(l, c, f, v)
  PROVE  FitsAt(l, c, Set(a, f, v))
<1>1. PICK s : s = Set(a, f, v)
  OBVIOUS
<1>2. PICK D : D = DOMAIN a \cup {f}
  OBVIOUS
<1>3. Maps(s, D) /\ DOMAIN s = D /\ \A g \in D : s[g] = IF g = f THEN v ELSE a[g]
  <2>1. IsSetOf(s, a, f, v)
    BY <1>1, SetFacts
  <2> QED
    BY <1>2, <2>1 DEF IsSetOf
<1>4. s = [g \in DOMAIN s |-> s[g]]
  BY <1>3 DEF Maps
<1>5. \A g \in DOMAIN a :
          (\A n \in Number(c) : Schema[c][n].name = g => Schema[c][n].repeated) => IsSeq(a[g])
  BY FitsFacts
<1>6. \A n \in Number(c) :
          Schema[c][n].type \in Class /\ ~Schema[c][n].repeated =>
             FitsAt(l - 1, Schema[c][n].type, GetMessage(a, Schema[c][n].name))
  BY FitsFacts
<1>7. ASSUME NEW g \in D, \A n \in Number(c) : Schema[c][n].name = g => Schema[c][n].repeated
      PROVE  IsSeq(s[g])
  <2>1. CASE g = f
    <3>1. ~OptionalField(c, f)
      BY <1>7, <2>1 DEF OptionalField
    <3> QED
      BY <1>3, <2>1, <3>1 DEF MayHold
  <2>2. CASE g # f
    <3>1. g \in DOMAIN a /\ s[g] = a[g]
      BY <1>2, <1>3, <2>2
    <3> QED
      BY <1>5, <1>7, <3>1
  <2> QED
    BY <2>1, <2>2
<1>8. ASSUME NEW n \in Number(c), Schema[c][n].type \in Class, ~Schema[c][n].repeated
      PROVE  FitsAt(l - 1, Schema[c][n].type, GetMessage(s, Schema[c][n].name))
  <2>1. PICK g : g = Schema[c][n].name
    OBVIOUS
  <2>2. CASE g = f
    <3>1. GetMessage(s, g) = v
      BY <1>2, <1>3, <2>2 DEF GetMessage, IsSet
    <3>2. FitsAt(l - 1, Schema[c][n].type, v)
      BY <1>8, <2>1, <2>2 DEF MayHold
    <3> QED
      BY <2>1, <3>1, <3>2
  <2>3. CASE g # f
    <3>1. GetMessage(s, g) = GetMessage(a, g)
      BY <1>2, <1>3, <2>3 DEF GetMessage, IsSet
    <3> QED
      BY <1>6, <1>8, <2>1, <3>1
  <2> QED
    BY <2>2, <2>3
<1>9. FitsAt(l, c, s)
  BY <1>3, <1>4, <1>7, <1>8, FitsFacts
<1> QED
  BY <1>1, <1>9

\* What is stored of a field that was read.
LEMMA StoreFits ==
  ASSUME NEW l \in 1 .. 3, NEW c \in Class, NEW a, FitsAt(l, c, a), NEW n \in Number(c), NEW v,
         Schema[c][n].type \in Class => FitsAt(l - 1, Schema[c][n].type, v)
  PROVE  FitsAt(l, c, Store(a, Schema[c][n], v))
<1>1. PICK row, f : row = Schema[c][n] /\ f = Schema[c][n].name
  OBVIOUS
<1>2. CASE row.repeated
  <2>1. ~OptionalField(c, f)
    BY <1>1, <1>2, RepeatedField
  <2>2. PICK w : w = Append(List(a, f), v)
    OBVIOUS
  <2>3. IsSeq(w)
    <3>1. IsSeq(List(a, f))
      BY <2>1, ListIsSeq
    <3> QED
      BY <2>2, <3>1, AppendFacts
  <2>4. MayHold(l, c, f, w)
    BY <2>1, <2>3 DEF MayHold, OptionalField
  <2>5. FitsAt(l, c, Set(a, f, w))
    BY <2>4, SetFits
  <2>6. Store(a, row, v) = Set(a, f, w)
    BY <1>1, <1>2, <2>2 DEF Store
  <2> QED
    BY <1>1, <2>5, <2>6
<1>3. CASE ~row.repeated
  <2>1. OptionalField(c, f)
    BY <1>1, <1>3 DEF OptionalField
  <2>2. \A k \in Number(c) : Schema[c][k].name = f => k = n
    BY <1>1, RowFacts
  <2>3. MayHold(l, c, f, v)
    BY <2>1, <2>2 DEF MayHold
  <2>4. FitsAt(l, c, Set(a, f, v))
    BY <2>3, SetFits
  <2>5. Store(a, row, v) = Set(a, f, v)
    BY <1>1, <1>3 DEF Store
  <2> QED
    BY <1>1, <2>4, <2>5
<1> QED
  BY <1>2, <1>3

\* What is kept of one that the class does not know.
LEMMA UnknownFits ==
  ASSUME NEW l \in 1 .. 3, NEW c \in Class, NEW a, FitsAt(l, c, a), NEW t, IsSeq(t)
  PROVE  FitsAt(l, c, Set(a, "unknown", List(a, "unknown") \o t))
<1>1. \A n \in Number(c) : Schema[c][n].name # "unknown"
  BY RowFacts DEF RowOK
<1>2. ~OptionalField(c, "unknown")
  BY <1>1 DEF OptionalField
<1>3. PICK L, w : L = List(a, "unknown") /\ w = L \o t
  OBVIOUS
<1>4. IsSeq(L)
  BY <1>2, <1>3, ListIsSeq
<1>5. IsSeq(w)
  BY <1>3, <1>4, CatFacts
<1>6. MayHold(l, c, "unknown", w)
  BY <1>1, <1>5 DEF MayHold
<1> QED
  BY <1>3, <1>6, SetFits

\* Cells read well make a message that fits, to the last of them.
IsRead(l, c, s, r) == r.ok = FALSE \/ \E b : r = At(b, Len(s)) /\ FitsAt(l, c, b)

ReadsFit(l) ==
    \A c \in Class : \A a, s : FitsAt(l, c, a) /\ IsSeq(s) /\ LengthsOK(s)
                               => IsRead(l, c, s, ReadAt(l, c, a, s))

\* A turn fails, or takes some cells whatever comes behind them.
Goes(l, c, s, a, j, b, e) ==
    /\ e \in Nat /\ j + 2 <= e /\ e <= Len(s) /\ FitsAt(l, c, b)
    /\ \A u : Begins(u, s) => Turn(c, u, At(a, j), SubAt(l, c, u, At(a, j))) = At(b, e)

LEMMA BeginsItself == ASSUME NEW s, IsSeq(s) PROVE Begins(s, s)
<1>1. Len(s) \in Nat
  BY SeqElim
<1> QED
  BY <1>1 DEF Begins

LEMMA TurnGoes ==
  ASSUME NEW l \in 1 .. 3, ReadsFit(l - 1), NEW c \in Class, NEW s, IsSeq(s), LengthsOK(s),
         NEW a, FitsAt(l, c, a), NEW j \in Nat, j < Len(s)
  PROVE  \/ Turn(c, s, At(a, j), SubAt(l, c, s, At(a, j))).ok = FALSE
         \/ \E b, e : Goes(l, c, s, a, j, b, e)
<1>1. PICK z \in Nat : z = Len(s)
  BY SeqElim
<1>2. PICK k : k = FieldSize(s, j + 1)
  OBVIOUS
<1>3. k \in Nat /\ (j + k <= z => WholeField(s, j, k))
  BY <1>1, <1>2, FieldSizeIs
<1>4. CASE ~(j + k <= z)
  <2>1. PICK r, sub : r = At(a, j) /\ sub = SubAt(l, c, s, At(a, j))
    OBVIOUS
  <2>2. r.ok = TRUE /\ r.at = j
    BY <2>1 DEF At
  <2>3. r.at + FieldSize(s, r.at + 1) > Len(s) /\ ~(~r.ok \/ r.at = Len(s))
    BY <1>1, <1>2, <1>3, <1>4, <2>2
  <2>4. Turn(c, s, r, sub) = [r EXCEPT !.ok = FALSE]
    BY <2>3 DEF Turn, TurnTo
  <2>5. [r EXCEPT !.ok = FALSE].ok = FALSE
    BY <2>1 DEF At
  <2> QED
    BY <2>1, <2>4, <2>5
<1>5. CASE j + k <= z
  <2>1. WholeField(s, j, k) /\ k >= 2
    BY <1>3, <1>5 DEF WholeField
  <2>2. PICK e \in Nat : e = j + k /\ j + 2 <= e /\ e <= Len(s)
    BY <1>1, <1>3, <1>5, <2>1
  <2>3. \A u : Begins(u, s) => /\ WholeField(u, j, k)
                               /\ u[j + 1] = s[j + 1] /\ u[j + 2] = s[j + 2]
                               /\ k > 2 => u[j + 3] = s[j + 3]
    BY <2>1, WholeStays
  <2>4. PICK n, wire : n = s[j + 1][2] /\ wire = s[j + 1][3]
    OBVIOUS
  <2>5. CASE n \notin Number(c) \/ WireType(Schema[c][n].type) # wire
    <3>1. PICK t : t = SubSeq(s, j + 1, j + k) /\ IsSeq(t)
      <4>1. StretchSame(s, s, j, k)
        BY <1>1, <1>3, <1>5, BeginsItself, SameStretch
      <4> QED
        BY <4>1 DEF StretchSame
    <3>2. PICK b : b = Set(a, "unknown", List(a, "unknown") \o t)
      OBVIOUS
    <3>3. FitsAt(l, c, b)
      BY <3>1, <3>2, UnknownFits
    <3>4. ASSUME NEW u, Begins(u, s)
          PROVE  Turn(c, u, At(a, j), SubAt(l, c, u, At(a, j))) = At(b, e)
      <4>1. WholeField(u, j, k) /\ u[j + 1] = s[j + 1]
        BY <2>3, <3>4
      <4>2. SubSeq(u, j + 1, j + k) = t
        <5>1. j \in Nat /\ k \in Nat /\ j + k <= Len(s) /\ Begins(u, s)
          BY <1>1, <1>3, <1>5, <3>4
        <5>2. StretchSame(s, u, j, k)
          BY ONLY <5>1, SameStretch
        <5> QED
          BY <3>1, <5>2 DEF StretchSame
      <4>3. PICK sub : sub = SubAt(l, c, u, At(a, j))
        OBVIOUS
      <4>4. Turn(c, u, At(a, j), sub)
               = At(Set(a, "unknown", List(a, "unknown") \o SubSeq(u, j + 1, j + k)), j + k)
        <5>1. \/ u[j + 1][2] \notin Number(c)
              \/ WireType(Schema[c][u[j + 1][2]].type) # u[j + 1][3]
          BY <2>4, <2>5, <4>1
        <5>2. KeepsUnknown(c, u, j, k, a, sub)
          BY ONLY <4>1, <5>1, UnknownTurn
        <5> QED
          BY <5>2 DEF KeepsUnknown
      <4> QED
        BY <2>2, <3>2, <4>2, <4>3, <4>4
    <3>5. Goes(l, c, s, a, j, b, e)
      BY <2>2, <3>3, <3>4 DEF Goes
    <3> QED
      BY <3>5
  <2>6. CASE n \in Number(c) /\ WireType(Schema[c][n].type) = wire /\ Schema[c][n].type = "int"
    <3>1. PICK v, b : v = s[j + 2][2] /\ b = Store(a, Schema[c][n], v)
      OBVIOUS
    <3>2. FitsAt(l, c, b)
      BY <2>6, <3>1, ClassIs, StoreFits
    <3>3. ASSUME NEW u, Begins(u, s)
          PROVE  Turn(c, u, At(a, j), SubAt(l, c, u, At(a, j))) = At(b, e)
      <4>1. WholeField(u, j, k) /\ u[j + 1] = s[j + 1] /\ u[j + 2] = s[j + 2]
        BY <2>3, <3>3
      <4>2. PICK sub : sub = SubAt(l, c, u, At(a, j))
        OBVIOUS
      <4>3. Turn(c, u, At(a, j), sub) = At(Store(a, Schema[c][n], u[j + 2][2]), j + k)
        BY <2>4, <2>6, <4>1, WholeNumberTurn, SMTT(30)
      <4> QED
        BY <2>2, <3>1, <4>1, <4>2, <4>3
    <3>4. Goes(l, c, s, a, j, b, e)
      BY <2>2, <3>2, <3>3 DEF Goes
    <3> QED
      BY <3>4
  <2>7. CASE n \in Number(c) /\ WireType(Schema[c][n].type) = wire /\ Schema[c][n].type = "string"
    <3>1. PICK v, b : v = TextAt(s, j, k) /\ b = Store(a, Schema[c][n], v)
      OBVIOUS
    <3>2. FitsAt(l, c, b)
      BY <2>7, <3>1, ClassIs, StoreFits
    <3>3. ASSUME NEW u, Begins(u, s)
          PROVE  Turn(c, u, At(a, j), SubAt(l, c, u, At(a, j))) = At(b, e)
      <4>1. WholeField(u, j, k) /\ u[j + 1] = s[j + 1] /\ (k > 2 => u[j + 3] = s[j + 3])
        BY <2>3, <3>3
      <4>2. PICK sub : sub = SubAt(l, c, u, At(a, j))
        OBVIOUS
      <4>3. Turn(c, u, At(a, j), sub) = At(Store(a, Schema[c][n], TextAt(u, j, k)), j + k)
        BY <2>4, <2>7, <4>1, WholeTextTurn
      <4>4. k = 2 \/ k > 2
        BY <1>3, <2>1
      <4>5. TextAt(u, j, k) = v
        BY <3>1, <4>1, <4>4 DEF TextAt
      <4> QED
        BY <2>2, <3>1, <4>2, <4>3, <4>5
    <3>4. Goes(l, c, s, a, j, b, e)
      BY <2>2, <3>2, <3>3 DEF Goes
    <3> QED
      BY <3>4
  <2>8. CASE n \in Number(c) /\ WireType(Schema[c][n].type) = wire /\ Schema[c][n].type \in Class
    <3>1. PICK m, h \in Nat : /\ m = j + 2 /\ m + 1 = j + 3 /\ m + h = j + k /\ m + h <= z
      <4>1. k - 2 \in Nat /\ j + 2 \in Nat /\ (j + 2) + 1 = j + 3 /\ (j + 2) + (k - 2) = j + k
        BY <1>3, <2>1
      <4> QED
        BY <1>5, <4>1
    <3>2. PICK cells : cells = SubSeq(s, j + 3, j + k)
      OBVIOUS
    <3>3. IsSeq(cells) /\ LengthsOK(cells)
      BY <1>1, <3>1, <3>2, LengthsInside
    <3>4. PICK type, into : type = Schema[c][n].type /\ into = Under(Schema[c][n], a)
      OBVIOUS
    <3>5. FitsAt(l - 1, type, into)
      <4>1. CASE Schema[c][n].repeated
        <5>1. l - 1 \in 0 .. 3
          OBVIOUS
        <5> QED
          BY <3>4, <4>1, <5>1, ClearFits DEF Under
      <4>2. CASE ~Schema[c][n].repeated
        <5>1. FitsAt(l - 1, Schema[c][n].type, GetMessage(a, Schema[c][n].name))
          BY <2>8, <4>2, FitsFacts
        <5> QED
          BY <3>4, <4>2, <5>1 DEF Under
      <4> QED
        BY <4>1, <4>2
    <3>6. PICK sub : sub = ReadAt(l - 1, type, into, cells)
      OBVIOUS
    <3>7. sub.ok = FALSE \/ \E d : sub = At(d, Len(cells)) /\ FitsAt(l - 1, type, d)
      <4>1. IsRead(l - 1, type, cells, sub)
        BY <2>8, <3>3, <3>4, <3>5, <3>6 DEF ReadsFit
      <4> QED
        BY <4>1 DEF IsRead
    <3>8. ASSUME NEW u, Begins(u, s)
          PROVE  /\ SubAt(l, c, u, At(a, j)) = sub
                 /\ Turn(c, u, At(a, j), sub)
                      = [ok |-> sub.ok, msg |-> Store(a, Schema[c][n], sub.msg), at |-> e]
      <4>1. WholeField(u, j, k) /\ u[j + 1] = s[j + 1]
        BY <2>3, <3>8
      <4>2. SubSeq(u, j + 3, j + k) = cells
        <5>1. m \in Nat /\ h \in Nat /\ m + h <= Len(s) /\ Begins(u, s)
          BY <1>1, <3>1, <3>8
        <5>2. StretchSame(s, u, m, h)
          BY ONLY <5>1, SameStretch
        <5> QED
          BY <3>1, <3>2, <5>2 DEF StretchSame
      <4>3. u[j + 1][2] = n /\ WireType(Schema[c][n].type) = u[j + 1][3]
        BY <2>4, <2>8, <4>1
      <4>4. PICK b : b = Behind(c, u, At(a, j))
        OBVIOUS
      <4>5. b.type = type /\ b.into = into /\ b.cells = cells
        <5>1. n \in Number(c) /\ Schema[c][n].type \in Class
          BY <2>8
        <5>2. StoresMessage(c, u, j, k, a, n, sub)
          BY ONLY <4>1, <4>3, <5>1, WholeMessageTurn
        <5> QED
          BY <3>4, <4>2, <4>4, <5>2 DEF StoresMessage
      <4>6. SubAt(l, c, u, At(a, j)) = sub
        BY <3>6, <4>4, <4>5 DEF SubAt
      <4>7. Turn(c, u, At(a, j), sub)
               = [ok |-> sub.ok, msg |-> Store(a, Schema[c][n], sub.msg), at |-> j + k]
        <5>1. n \in Number(c) /\ Schema[c][n].type \in Class
          BY <2>8
        <5>2. StoresMessage(c, u, j, k, a, n, sub)
          BY ONLY <4>1, <4>3, <5>1, WholeMessageTurn
        <5> QED
          BY <5>2 DEF StoresMessage
      <4> QED
        BY <2>2, <4>6, <4>7
    <3>9. CASE sub.ok = FALSE
      <4>1. Turn(c, s, At(a, j), sub)
               = [ok |-> sub.ok, msg |-> Store(a, Schema[c][n], sub.msg), at |-> e]
            /\ SubAt(l, c, s, At(a, j)) = sub
        BY <3>8, BeginsItself
      <4>2. PICK r : r = Turn(c, s, At(a, j), sub)
        OBVIOUS
      <4>3. r.ok = FALSE
        BY <3>9, <4>1, <4>2
      <4> QED
        BY <4>1, <4>2, <4>3
    <3>10. ASSUME NEW d, sub = At(d, Len(cells)), FitsAt(l - 1, type, d)
           PROVE  \E b, i : Goes(l, c, s, a, j, b, i)
      <4>1. PICK b : b = Store(a, Schema[c][n], d)
        OBVIOUS
      <4>2. FitsAt(l, c, b)
        BY <2>8, <3>4, <3>10, <4>1, StoreFits
      <4>3. sub.ok = TRUE /\ sub.msg = d
        BY <3>10 DEF At
      <4>4. [ok |-> sub.ok, msg |-> Store(a, Schema[c][n], sub.msg), at |-> e] = At(b, e)
        BY <4>1, <4>3 DEF At
      <4>5. ASSUME NEW u, Begins(u, s)
            PROVE  Turn(c, u, At(a, j), SubAt(l, c, u, At(a, j))) = At(b, e)
        BY <3>8, <4>4, <4>5
      <4>6. Goes(l, c, s, a, j, b, e)
        BY <2>2, <4>2, <4>5 DEF Goes
      <4> QED
        BY <4>6
    <3> QED
      BY <3>7, <3>9, <3>10
  <2>9. n \in Number(c) => Schema[c][n].type \in {"int", "string"} \cup Class
    BY RowFacts DEF RowOK
  <2> QED
    BY <2>5, <2>6, <2>7, <2>8, <2>9
<1> QED
  BY <1>4, <1>5

\* Reading s and reading u, which begins with s, are the same as far as s goes.
Gone(l, c, s, r, v) ==
    \/ r[Len(s)].ok = FALSE
    \/ \E b : r[Len(s)] = At(b, Len(s)) /\ FitsAt(l, c, b) /\ Gets(v, Len(s), b)

LEMMA ReadGoes ==
  ASSUME NEW l \in 1 .. 3, ReadsFit(l - 1), NEW c \in Class, NEW s, IsSeq(s), LengthsOK(s),
         NEW a, FitsAt(l, c, a), NEW u, Begins(u, s),
         NEW r, Chain(l, c, s, r), r[0] = At(a, 0),
         NEW v, Chain(l, c, u, v), v[0] = At(a, 0)
  PROVE  Gone(l, c, s, r, v)
<1>1. PICK z, y \in Nat : z = Len(s) /\ y = Len(u) /\ z <= y
  BY SeqElim DEF Begins
<1>2. IsSeq(u) /\ Begins(s, s)
  BY BeginsItself DEF Begins
<1> DEFINE Holds(k, b, e) == /\ r[k] = At(b, e) /\ FitsAt(l, c, b) /\ Gets(v, e, b)
                             /\ e \in Nat /\ e <= z /\ (e = z \/ k <= e)
           Good(k) == r[k].ok = FALSE \/ \E b, e : Holds(k, b, e)
           T == {k \in Nat : k <= z => Good(k)}
<1>3. Good(0)
  <2>1. Gets(v, 0, a)
    BY DEF Gets
  <2>2. Holds(0, a, 0)
    BY <1>1, <2>1
  <2> QED
    BY <2>2
<1>4. ASSUME NEW k \in Nat, k + 1 <= z, Good(k) PROVE Good(k + 1)
  <2>1. PICK h : h = k + 1
    OBVIOUS
  <2>2. r[h] = Turn(c, s, r[k], SubAt(l, c, s, r[k]))
    <3>1. h \in 1 .. Len(s) /\ h - 1 = k
      BY <1>1, <1>4, <2>1
    <3> QED
      BY <3>1 DEF Chain
  <2>3. CASE r[k].ok = FALSE
    <3>1. Turn(c, s, r[k], SubAt(l, c, s, r[k])) = r[k]
      BY <2>3 DEF Turn, TurnTo
    <3> QED
      BY <2>1, <2>2, <2>3, <3>1
  <2>4. ASSUME NEW b, NEW e, Holds(k, b, e) PROVE Good(k + 1)
    <3>1. /\ r[k] = At(b, e) /\ FitsAt(l, c, b) /\ Gets(v, e, b)
          /\ e \in Nat /\ e <= z /\ (e = z \/ k <= e)
      BY <2>4
    <3> HIDE DEF Holds
    <3>2. CASE e = z
      <4>1. r[k].at = Len(s)
        BY <1>1, <3>1, <3>2 DEF At
      <4>2. Turn(c, s, r[k], SubAt(l, c, s, r[k])) = r[k]
        BY <4>1 DEF Turn, TurnTo
      <4>3. r[h] = At(b, e)
        BY <2>2, <3>1, <4>2
      <4>4. Holds(h, b, e)
        BY <3>1, <3>2, <4>3 DEF Holds
      <4> QED
        BY <2>1, <4>4
    <3>3. CASE e # z
      <4>1. e < Len(s)
        BY <1>1, <3>1, <3>3
      <4>2. \/ Turn(c, s, At(b, e), SubAt(l, c, s, At(b, e))).ok = FALSE
            \/ \E d, i : Goes(l, c, s, b, e, d, i)
        BY ONLY l \in 1 .. 3, ReadsFit(l - 1), c \in Class, IsSeq(s), LengthsOK(s),
                <3>1, <4>1, TurnGoes
      <4>3. CASE Turn(c, s, At(b, e), SubAt(l, c, s, At(b, e))).ok = FALSE
        <5>1. r[h].ok = FALSE
          BY <2>2, <3>1, <4>3
        <5> QED
          BY <2>1, <5>1
      <4>4. ASSUME NEW d, NEW i, Goes(l, c, s, b, e, d, i) PROVE Good(k + 1)
        <5>1. i \in Nat /\ e + 2 <= i /\ i <= z /\ FitsAt(l, c, d)
          BY <1>1, <4>4 DEF Goes
        <5>2. \A w : Begins(w, s) => Turn(c, w, At(b, e), SubAt(l, c, w, At(b, e))) = At(d, i)
          BY <4>4 DEF Goes
        <5>3. r[h] = At(d, i)
          BY <1>2, <2>2, <3>1, <5>2
        <5>4. PICK n \in Nat : n = i - e /\ e + n = i /\ n >= 1
          BY <3>1, <5>1
        <5>5. Turn(c, u, At(b, e), SubAt(l, c, u, At(b, e))) = At(d, e + n)
          BY <5>2, <5>4
        <5>6. e + n <= Len(u)
          BY <1>1, <5>1, <5>4
        <5>7. Gets(v, e + n, d)
          BY ONLY <1>2, Chain(l, c, u, v), <3>1, n \in Nat, <5>4, <5>5, <5>6, ChainStep
        <5>8. h <= i
          BY <2>1, <3>1, <3>3, <5>1
        <5>9. Holds(h, d, i)
          BY <5>1, <5>3, <5>4, <5>7, <5>8 DEF Holds
        <5> QED
          BY <2>1, <5>9
      <4> QED
        BY <4>2, <4>3, <4>4
    <3> QED
      BY <3>2, <3>3
  <2> QED
    BY <1>4, <2>3, <2>4
<1> HIDE DEF Good
<1>5. \A k \in T : k \in Nat => k + 1 \in T
  <2> SUFFICES ASSUME NEW k \in T, k \in Nat, k + 1 <= z PROVE Good(k + 1)
    OBVIOUS
  <2> QED
    BY <1>4
<1>6. 0 \in T
  BY <1>3
<1> HIDE DEF T
<1>7. Nat \subseteq T
  BY <1>5, <1>6, SetInduction
<1>8. z \in T
  BY <1>7
<1>9. Good(z)
  BY <1>8 DEF T
<1>10. ASSUME NEW b, NEW e, Holds(z, b, e)
       PROVE  r[z] = At(b, z) /\ FitsAt(l, c, b) /\ Gets(v, z, b)
  <2>1. e = z
    BY <1>1, <1>10
  <2> QED
    BY <1>10, <2>1
<1> QED
  BY <1>1, <1>9, <1>10 DEF Good, Gone

LEMMA ReadFitsStep ==
  ASSUME NEW l \in 1 .. 3, ReadsFit(l - 1)
  PROVE  ReadsFit(l)
<1> SUFFICES ASSUME NEW c \in Class, NEW a, NEW s, FitsAt(l, c, a), IsSeq(s), LengthsOK(s)
             PROVE  IsRead(l, c, s, ReadAt(l, c, a, s))
  BY DEF ReadsFit
<1>1. PICK r : Chain(l, c, s, r) /\ r[0] = At(a, 0) /\ ReadAt(l, c, a, s) = r[Len(s)]
  BY ONLY l \in 1 .. 3, IsSeq(s), ReadIs
<1>2. Gone(l, c, s, r, r)
  BY <1>1, BeginsItself, ReadGoes
<1> QED
  BY <1>1, <1>2 DEF IsRead, Gone

LEMMA AllReadFit == ReadsFit(2)
<1>0. ReadsFit(0)
  <2>1. ASSUME NEW c, NEW a, NEW s PROVE IsRead(0, c, s, ReadAt(0, c, a, s))
    BY DEF IsRead, ReadAt
  <2> QED
    BY <2>1 DEF ReadsFit
<1>1. ReadsFit(1)
  BY <1>0, ReadFitsStep, 1 - 1 = 0
<1>2. ReadsFit(2)
  BY <1>1, ReadFitsStep, 2 - 1 = 1
<1> QED
  BY <1>2

\* The cells of two messages in a row are read as MergeFrom merges the messages: what was
\* read of the first, if it did read, and the second.  The first may be of another class.
THEOREM MessagesMerge ==
  ASSUME NEW c \in Class, NEW d \in Class, NEW k, OfClass(d, k), NEW m, OfClass(c, m),
         ParseFromArray(c, Serialize(d, k)).ok
  PROVE  ParseFromArray(c, Serialize(d, k) \o Serialize(c, m)).msg
            = MergeFrom(c, ParseFromArray(c, Serialize(d, k)).msg, m)
<1>1. PICK s, t, u : s = Serialize(d, k) /\ t = Serialize(c, m) /\ u = s \o t
  OBVIOUS
<1>2. IsSeq(s) /\ LengthsOK(s)
  <2>1. OfClassAt(3, d, k)
    BY DEF OfClassAt
  <2>2. WriteAt(3, d, k) = s
    BY <1>1 DEF WriteAt
  <2>3. WritesWell(3)
    BY AllWriteWell
  <2> QED
    BY <2>1, <2>2, <2>3 DEF WritesWell
<1>3. OfClassAt(3, c, m) /\ WriteAt(3, c, m) = t
  BY <1>1 DEF OfClassAt, WriteAt
<1>4. IsSeq(t)
  <2>1. WritesWell(3)
    BY AllWriteWell
  <2> QED
    BY <1>3, <2>1 DEF WritesWell
<1>5. PICK x, y \in Nat : x = Len(s) /\ y = Len(t)
  BY <1>2, <1>4, SeqElim
<1>6. /\ IsSeq(u) /\ Len(u) = x + y
      /\ \A i \in 1 .. x : u[i] = s[i]
      /\ \A i \in 1 .. y : u[x + i] = t[i]
  BY <1>1, <1>2, <1>4, <1>5, Joined
<1>7. Begins(u, s) /\ Place(u, x, t)
  BY <1>2, <1>5, <1>6 DEF Begins, Place
<1>8. PICK r : Chain(3, c, s, r) /\ r[0] = At(Clear, 0) /\ ReadAt(3, c, Clear, s) = r[Len(s)]
  BY ONLY 3 \in 1 .. 3, <1>2, ReadIs
<1>9. PICK v : Chain(3, c, u, v) /\ v[0] = At(Clear, 0) /\ ReadAt(3, c, Clear, u) = v[Len(u)]
  BY ONLY 3 \in 1 .. 3, <1>6, ReadIs, SMTT(30)
<1>10. FitsAt(3, c, Clear)
  BY ClearFits
<1>11. ParseFromArray(c, s) = r[x] /\ ParseFromArray(c, u) = v[x + y]
  BY <1>5, <1>6, <1>8, <1>9 DEF ParseFromArray, ReadAt
<1>12. Gone(3, c, s, r, v)
  <2>1. 3 \in 1 .. 3 /\ ReadsFit(3 - 1)
    BY AllReadFit, 3 - 1 = 2
  <2> QED
    BY ONLY <2>1, c \in Class, <1>2, <1>7, <1>8, <1>9, <1>10, ReadGoes
<1>13. PICK b : r[x] = At(b, x) /\ FitsAt(3, c, b) /\ Gets(v, x, b)
  BY <1>1, <1>5, <1>11, <1>12 DEF Gone
<1>14. PICK e : e = MergeAt(3, c, b, m)
  OBVIOUS
<1>15. Leads(3, c, b, t, e)
  BY <1>3, <1>13, <1>14, AllReadWell DEF ReadsWell
<1>16. Gets(v, x + y, e)
  BY <1>5, <1>7, <1>9, <1>13, <1>15 DEF Leads
<1>17. v[x + y] = At(e, x + y)
  <2>1. Gets(v, Len(u), e)
    BY <1>6, <1>16
  <2>2. v[Len(u)] = At(e, Len(u))
    BY ONLY <1>6, <1>9, <2>1, ChainStays
  <2> QED
    BY <1>6, <2>2
<1>18. ParseFromArray(c, u).msg = e /\ ParseFromArray(c, s).msg = b
  BY <1>11, <1>13, <1>17 DEF At
<1>19. e = MergeFrom(c, b, m)
  BY <1>14 DEF MergeAt
<1> QED
  BY <1>1, <1>18, <1>19
=============================================================================
