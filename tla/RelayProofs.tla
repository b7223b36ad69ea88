----------------------------- MODULE RelayProofs ----------------------------
(***************************************************************************)
(* That the relay delivers: what is read is what was written, at both of   *)
(* its ends, whatever is sent and wherever the streams are cut.            *)
(***************************************************************************)
EXTENDS Relay, CodecProofs

-----------------------------------------------------------------------------
(* Packets on a stream.                                                    *)

Packets(ps) == IsSeq(ps) /\ \A i \in 1 .. Len(ps) : IsPacket(ps[i])

\* The packets q of a stream that nobody has taken up yet: some wait in the inbox, the
\* cells of the others are in the buffer and on the wire, wherever they are cut.
Carries(in, b, w, q) ==
    /\ IsSeq(b) /\ IsSeq(w)
    /\ \E rest : /\ Packets(in) /\ Packets(rest)
                 /\ q = in \o rest /\ b \o w = FlattenSeq(rest)

LEMMA PacketsAreSeqs == ASSUME NEW ps, Packets(ps) PROVE AllSeqs(ps)
BY DEF Packets, AllSeqs, IsPacket

LEMMA NoPackets == Packets(<< >>)
BY EmptyIsSeq DEF Packets

LEMMA OnePacket == ASSUME NEW p, IsPacket(p) PROVE Packets(<<p>>) /\ FlattenSeq(<<p>>) = p
<1>1. IsSeq(<<p>>) /\ Len(<<p>>) = 1 /\ <<p>>[1] = p
  BY OneIsSeq
<1>2. Packets(<<p>>)
  BY <1>1 DEF Packets
<1>3. PICK e : e = << >> /\ AllSeqs(e) /\ FlattenSeq(e) = << >>
  BY FlattenNone
<1>4. IsSeq(p)
  BY DEF IsPacket
<1>5. FlattenSeq(Append(e, p)) = FlattenSeq(e) \o p
  BY <1>3, <1>4, FlattenAppend
<1>6. Append(e, p) = <<p>>
  BY <1>3
<1>7. << >> \o p = p
  BY <1>4, CatEmpty
<1> QED
  BY <1>2, <1>3, <1>5, <1>6, <1>7

LEMMA PacketsCat ==
  ASSUME NEW x, NEW y, Packets(x), Packets(y)
  PROVE  Packets(x \o y)
<1>1. PICK n, m \in Nat : n = Len(x) /\ m = Len(y)
  BY SeqElim DEF Packets
<1>2. PICK z : z = x \o y
  OBVIOUS
<1>3. /\ IsSeq(z) /\ Len(z) = n + m
      /\ \A i \in 1 .. n : z[i] = x[i]
      /\ \A i \in 1 .. m : z[n + i] = y[i]
  <2>1. IsSeq(x) /\ IsSeq(y)
    BY DEF Packets
  <2> QED
    BY <1>1, <1>2, <2>1, Joined
<1>4. ASSUME NEW i \in 1 .. n + m PROVE IsPacket(z[i])
  <2>1. CASE i \in 1 .. n
    BY <1>1, <1>3, <2>1 DEF Packets
  <2>2. CASE i \notin 1 .. n
    <3>1. PICK h \in 1 .. m : h = i - n /\ n + h = i
      BY <2>2
    <3> QED
      BY <1>1, <1>3, <3>1 DEF Packets
  <2> QED
    BY <2>1, <2>2
<1> QED
  BY <1>2, <1>3, <1>4 DEF Packets

LEMMA PacketsTail ==
  ASSUME NEW x, Packets(x), x # << >>
  PROVE  Packets(Tail(x)) /\ IsPacket(x[1]) /\ Len(x) \in Nat \ {0}
<1>1. PICK t, n : t = Tail(x) /\ n = Len(x)
  OBVIOUS
<1>2. n \in Nat \ {0} /\ IsSeq(t) /\ Len(t) = n - 1 /\ \A i \in 1 .. n - 1 : t[i] = x[i + 1]
  BY <1>1, HeadTailFacts DEF Packets
<1>3. ASSUME NEW i \in 1 .. n - 1 PROVE IsPacket(t[i])
  <2>1. i + 1 \in 1 .. n
    BY <1>2
  <2> QED
    BY <1>1, <1>2, <2>1 DEF Packets
<1>4. 1 \in 1 .. n
  BY <1>2
<1> QED
  BY <1>1, <1>2, <1>3, <1>4 DEF Packets

\* Sent packets join the queue.
LEMMA Sent ==
  ASSUME NEW in, NEW b, NEW w, NEW q, Carries(in, b, w, q), NEW ps, Packets(ps)
  PROVE  Carries(in, b, w \o FlattenSeq(ps), q \o ps)
<1>1. PICK rest : Packets(in) /\ Packets(rest) /\ q = in \o rest /\ b \o w = FlattenSeq(rest)
  BY DEF Carries
<1>2. PICK f, more : f = FlattenSeq(ps) /\ more = rest \o ps
  OBVIOUS
<1>3. IsSeq(b) /\ IsSeq(w) /\ IsSeq(f) /\ IsSeq(in) /\ IsSeq(rest) /\ IsSeq(ps)
  <2>1. IsSeq(f)
    BY <1>2, PacketsAreSeqs, FlattenIsSeq
  <2> QED
    BY <1>1, <2>1 DEF Carries, Packets
<1>4. Packets(more)
  BY <1>1, <1>2, PacketsCat
<1>5. q \o ps = in \o more
  BY <1>1, <1>2, <1>3, CatAssoc, SMTT(30)
<1>6. FlattenSeq(more) = FlattenSeq(rest) \o f
  <2>1. AllSeqs(rest) /\ AllSeqs(ps)
    BY <1>1, PacketsAreSeqs
  <2> QED
    BY <1>2, <2>1, FlattenCat
<1>7. b \o (w \o f) = (b \o w) \o f
  <2>1. IsSeq(b) /\ IsSeq(w) /\ IsSeq(f)
    BY <1>3
  <2> QED
    BY ONLY <2>1, CatAssoc, SMTT(30)
<1>8. IsSeq(w \o f)
  BY <1>3, CatFacts
<1> QED
  BY <1>1, <1>2, <1>3, <1>4, <1>5, <1>6, <1>7, <1>8 DEF Carries

LEMMA SplitAt ==
  ASSUME NEW s, IsSeq(s), NEW n \in Nat, n <= Len(s)
  PROVE  /\ IsSeq(SubSeq(s, 1, n)) /\ IsSeq(SubSeq(s, n + 1, Len(s)))
         /\ s = SubSeq(s, 1, n) \o SubSeq(s, n + 1, Len(s))
<1>1. PICK z, k \in Nat : z = Len(s) /\ k = z - n /\ n + k = z
  BY SeqElim
<1>2. PICK x, y : x = SubSeq(s, 1, n) /\ y = SubSeq(s, n + 1, n + k)
  OBVIOUS
<1>3. IsSeq(x) /\ Len(x) = n /\ \A i \in 1 .. n : x[i] = s[i]
  BY <1>2, Beginning
<1>4. IsSeq(y) /\ Len(y) = k /\ \A i \in 1 .. k : y[i] = s[n + i]
  <2>1. IsSeq(s) /\ n \in Nat /\ k \in Nat /\ n + k <= Len(s)
    BY <1>1
  <2> QED
    BY ONLY <1>2, <2>1, SubFacts
<1>5. PICK u : u = x \o y
  OBVIOUS
<1>6. /\ IsSeq(u) /\ Len(u) = n + k
      /\ \A i \in 1 .. n : u[i] = x[i]
      /\ \A i \in 1 .. k : u[n + i] = y[i]
  <2>1. IsSeq(x) /\ IsSeq(y) /\ n \in Nat /\ k \in Nat /\ n = Len(x) /\ k = Len(y)
    BY <1>3, <1>4
  <2> QED
    BY ONLY <1>5, <2>1, Joined
<1>7. ASSUME NEW i \in 1 .. z PROVE s[i] = u[i]
  <2>1. CASE i \in 1 .. n
    BY <1>3, <1>6, <2>1
  <2>2. CASE i \notin 1 .. n
    <3>1. PICK h \in 1 .. k : h = i - n /\ n + h = i
      BY <1>1, <2>2
    <3> QED
      BY <1>4, <1>6, <3>1, ZenonT(40)
  <2> QED
    BY <2>1, <2>2
<1>8. s = u
  BY <1>1, <1>6, <1>7, SeqSame
<1> QED
  BY <1>1, <1>2, <1>3, <1>4, <1>5, <1>8

\* Cells that arrive change nothing.
LEMMA Arrived ==
  ASSUME NEW in, NEW b, NEW w, NEW q, Carries(in, b, w, q), NEW n \in Nat, n <= Len(w)
  PROVE  Carries(in, b \o SubSeq(w, 1, n), SubSeq(w, n + 1, Len(w)), q)
<1>1. PICK rest : Packets(in) /\ Packets(rest) /\ q = in \o rest /\ b \o w = FlattenSeq(rest)
  BY DEF Carries
<1>2. PICK x, y : x = SubSeq(w, 1, n) /\ y = SubSeq(w, n + 1, Len(w))
  OBVIOUS
<1>3. IsSeq(b) /\ IsSeq(x) /\ IsSeq(y) /\ w = x \o y
  BY <1>2, SplitAt DEF Carries
<1>4. (b \o x) \o y = b \o w
  BY <1>3, CatAssoc, SMTT(30)
<1>5. IsSeq(b \o x)
  BY <1>3, CatFacts
<1> QED
  BY <1>1, <1>2, <1>3, <1>4, <1>5 DEF Carries

\* What the buffer holds of the cells under way.
LEMMA InBuffer ==
  ASSUME NEW b, NEW w, IsSeq(b), IsSeq(w), NEW s, s = b \o w
  PROVE  Len(b) \in 0 .. Len(s) /\ SubSeq(s, 1, Len(b)) = b /\ Len(s) \in Nat
<1>1. PICK n, m \in Nat : n = Len(b) /\ m = Len(w)
  BY SeqElim
<1>2. IsSeq(s) /\ Len(s) = n + m /\ \A i \in 1 .. n : s[i] = b[i]
  BY <1>1, Joined
<1>3. SubSeq(s, 1, n) = b
  BY <1>1, <1>2, BeginningIs
<1> QED
  BY <1>1, <1>2, <1>3

\* The first packet of those whose cells are under way, when the buffer holds it.
LEMMA Cut ==
  ASSUME NEW b, NEW w, IsSeq(b), IsSeq(w), NEW rest, Packets(rest), rest # << >>,
         b \o w = FlattenSeq(rest)
  PROVE  /\ EnoughData(b) => /\ NewMsgFromBuffer(b) = rest[1] /\ IsSeq(Retrieved(b))
                             /\ Retrieved(b) \o w = FlattenSeq(Tail(rest))
         /\ w = << >> => EnoughData(b)
<1>1. PICK p, t : p = rest[1] /\ t = FlattenSeq(Tail(rest))
  OBVIOUS
<1>2. IsPacket(p) /\ IsSeq(p) /\ IsSeq(t)
  <2>1. IsPacket(p) /\ Packets(Tail(rest))
    BY <1>1, PacketsTail
  <2>2. AllSeqs(Tail(rest))
    BY <2>1, PacketsAreSeqs
  <2> QED
    BY <1>1, <2>1, <2>2, FlattenIsSeq DEF IsPacket
<1>3. PICK s : s = p \o t
  OBVIOUS
<1>4. s = b \o w
  <2>1. AllSeqs(rest)
    BY PacketsAreSeqs
  <2>2. FlattenSeq(rest) = rest[1] \o FlattenSeq(Tail(rest))
    BY <2>1, FlattenFirst
  <2> QED
    BY <1>1, <1>3, <2>2
<1>5. PICK n \in 0 .. Len(s) : n = Len(b) /\ SubSeq(s, 1, n) = b
  BY <1>4, InBuffer
<1>6. /\ EnoughData(b) <=> n >= Len(p)
      /\ EnoughData(b) => NewMsgFromBuffer(b) = p /\ Retrieved(b) = SubSeq(t, 1, n - Len(p))
  <2>1. LET f == SubSeq(p \o t, 1, n)
        IN  /\ EnoughData(f) <=> n >= Len(p)
            /\ EnoughData(f) => /\ NewMsgFromBuffer(f) = p
                                /\ Retrieved(f) = SubSeq(t, 1, n - Len(p))
    BY <1>2, <1>3, StreamIsCut
  <2> QED
    BY <1>3, <1>5, <2>1
<1>7. PICK x, y, z \in Nat : x = Len(p) /\ y = Len(t) /\ z = Len(w) /\ Len(s) = x + y /\ n + z = x + y
  <2>1. Len(p) \in Nat /\ Len(t) \in Nat /\ Len(w) \in Nat
    BY <1>2, SeqElim
  <2>2. Len(s) = Len(p) + Len(t) /\ Len(s) = Len(b) + Len(w)
    BY <1>2, <1>3, <1>4, CatFacts
  <2> QED
    BY <1>5, <2>1, <2>2
<1>8. ASSUME EnoughData(b)
      PROVE  IsSeq(Retrieved(b)) /\ Retrieved(b) \o w = t
  <2>1. PICK k \in Nat : k = n - x /\ n = x + k /\ k <= y /\ k + z = y
    <3>1. n >= x
      BY <1>6, <1>7, <1>8
    <3>2. n \in Nat
      BY <1>7
    <3>3. x \in Nat /\ y \in Nat /\ z \in Nat /\ n + z = x + y
      BY <1>7
    <3> QED
      BY ONLY <3>1, <3>2, <3>3
  <2>2. PICK c : c = SubSeq(t, 1, k) /\ c = Retrieved(b)
    BY <1>6, <1>7, <1>8, <2>1
  <2>3. IsSeq(c) /\ Len(c) = k /\ \A i \in 1 .. k : c[i] = t[i]
    BY <1>2, <1>7, <2>1, <2>2, Beginning
  <2>4. PICK d : d = c \o w
    OBVIOUS
  <2>5. /\ IsSeq(d) /\ Len(d) = k + z
        /\ \A i \in 1 .. k : d[i] = c[i]
        /\ \A i \in 1 .. z : d[k + i] = w[i]
    <3>1. IsSeq(c) /\ IsSeq(w) /\ k \in Nat /\ z \in Nat /\ k = Len(c) /\ z = Len(w)
      BY <1>7, <2>3
    <3> QED
      BY ONLY <2>4, <3>1, Joined
  <2>6. /\ \A i \in 1 .. y : s[x + i] = t[i]
        /\ \A i \in 1 .. z : s[n + i] = w[i]
    <3>1. \A i \in 1 .. y : s[x + i] = t[i]
      BY <1>2, <1>3, <1>7, Joined
    <3>2. \A i \in 1 .. z : s[n + i] = w[i]
      BY <1>4, <1>5, <1>7, Joined
    <3> QED
      BY <3>1, <3>2
  <2>7. ASSUME NEW i \in 1 .. y PROVE d[i] = t[i]
    <3>1. CASE i \in 1 .. k
      BY <2>3, <2>5, <3>1
    <3>2. CASE i \notin 1 .. k
      <4>1. PICK h \in 1 .. z : h = i - k /\ k + h = i /\ n + h = x + i
        BY <2>1, <3>2
      <4>2. d[i] = w[h] /\ s[x + i] = w[h] /\ s[x + i] = t[i]
        BY <2>5, <2>6, <4>1
      <4> QED
        BY <4>2
    <3> QED
      BY <3>1, <3>2
  <2>8. d = t
    BY <1>2, <1>7, <2>1, <2>5, <2>7, SeqSame
  <2> QED
    BY <2>2, <2>3, <2>4, <2>8
<1>9. ASSUME w = << >> PROVE EnoughData(b)
  <2>1. z = 0
    BY <1>7, <1>9, EmptyIsSeq
  <2>2. n >= x
    BY <1>7, <2>1
  <2> QED
    BY <1>6, <1>7, <2>2
<1> QED
  BY <1>1, <1>6, <1>8, <1>9

LEMMA AppendIsCat ==
  ASSUME NEW s, IsSeq(s), NEW e
  PROVE  Append(s, e) = s \o <<e>>
<1>1. PICK n \in Nat : n = Len(s)
  BY SeqElim
<1>2. PICK one : one = <<e>> /\ IsSeq(one) /\ Len(one) = 1 /\ one[1] = e
  BY OneIsSeq
<1>8. PICK j \in Nat : j = 1
  OBVIOUS
<1>3. PICK u, a : u = s \o one /\ a = Append(s, e)
  OBVIOUS
<1>4. /\ IsSeq(u) /\ Len(u) = n + 1
      /\ \A i \in 1 .. n : u[i] = s[i]
      /\ \A i \in 1 .. 1 : u[n + i] = one[i]
  <2>1. IsSeq(s) /\ IsSeq(one) /\ n \in Nat /\ j \in Nat /\ n = Len(s) /\ j = Len(one)
    BY <1>1, <1>2, <1>8
  <2>2. /\ IsSeq(u) /\ Len(u) = n + j
        /\ \A i \in 1 .. n : u[i] = s[i]
        /\ \A i \in 1 .. j : u[n + i] = one[i]
    BY ONLY <1>3, <2>1, Joined
  <2> QED
    BY <1>8, <2>2
<1>5. /\ IsSeq(a) /\ Len(a) = n + 1
      /\ \A i \in 1 .. n : a[i] = s[i]
      /\ a[n + 1] = e
  BY <1>1, <1>3, AppendFacts
<1>6. ASSUME NEW i \in 1 .. n + 1 PROVE a[i] = u[i]
  <2>1. CASE i \in 1 .. n
    BY <1>4, <1>5, <2>1
  <2>2. CASE i = n + 1
    <3>1. 1 \in 1 .. 1
      OBVIOUS
    <3>2. u[n + 1] = one[1]
      BY <1>4, <3>1
    <3> QED
      BY <1>2, <1>5, <2>2, <3>2
  <2> QED
    BY <2>1, <2>2
<1>7. a = u
  BY <1>4, <1>5, <1>6, SeqSame
<1> QED
  BY <1>2, <1>3, <1>7

LEMMA TailCat ==
  ASSUME NEW s, IsSeq(s), s # << >>, NEW t, IsSeq(t)
  PROVE  Tail(s \o t) = Tail(s) \o t /\ Head(s \o t) = Head(s) /\ s \o t # << >>
<1>1. PICK n, m \in Nat : n = Len(s) /\ m = Len(t)
  BY SeqElim
<1>2. PICK u, a, b : u = s \o t /\ a = Tail(s \o t) /\ b = Tail(s) \o t
  OBVIOUS
<1>3. PICK r, k : r = Tail(s) /\ k = n - 1
  OBVIOUS
<1>4. /\ n \in Nat \ {0} /\ Head(s) = s[1] /\ IsSeq(r) /\ Len(r) = k /\ k \in Nat /\ k + 1 = n
      /\ \A i \in 1 .. k : r[i] = s[i + 1]
  BY <1>1, <1>3, HeadTailFacts
<1>5. /\ IsSeq(u) /\ Len(u) = n + m
      /\ \A i \in 1 .. n : u[i] = s[i]
      /\ \A i \in 1 .. m : u[n + i] = t[i]
  BY <1>1, <1>2, Joined
<1>6. u # << >>
  <2>1. Len(u) # 0
    BY <1>1, <1>4, <1>5
  <2> QED
    BY <2>1, EmptyIsSeq
<1>7. PICK h \in Nat : h = n + m - 1 /\ h = k + m
  BY <1>1, <1>3, <1>4
<1>8. /\ Head(u) = u[1] /\ IsSeq(a) /\ Len(a) = h
      /\ \A i \in 1 .. h : a[i] = u[i + 1]
  <2>1. /\ Head(u) = u[1] /\ IsSeq(Tail(u)) /\ Len(Tail(u)) = Len(u) - 1
        /\ \A i \in 1 .. Len(u) - 1 : Tail(u)[i] = u[i + 1]
    BY <1>5, <1>6, HeadTailFacts
  <2> QED
    BY <1>2, <1>5, <1>7, <2>1
<1>9. /\ IsSeq(b) /\ Len(b) = k + m
      /\ \A i \in 1 .. k : b[i] = r[i]
      /\ \A i \in 1 .. m : b[k + i] = t[i]
  <2>1. IsSeq(r) /\ IsSeq(t) /\ k \in Nat /\ m \in Nat /\ k = Len(r) /\ m = Len(t)
    BY <1>1, <1>4
  <2>2. b = r \o t
    BY <1>2, <1>3
  <2> QED
    BY ONLY <2>1, <2>2, Joined
<1>10. ASSUME NEW i \in 1 .. h PROVE a[i] = b[i]
  <2>1. CASE i \in 1 .. k
    <3>1. PICK g \in 1 .. n : g = i + 1
      BY <1>4, <2>1
    <3>2. a[i] = u[g] /\ u[g] = s[g]
      BY <1>5, <1>8, <3>1
    <3>3. b[i] = r[i] /\ r[i] = s[g]
      BY <1>4, <1>9, <2>1, <3>1
    <3> QED
      BY <3>2, <3>3
  <2>2. CASE i \notin 1 .. k
    <3>1. PICK g \in 1 .. m : g = i - k /\ k + g = i /\ n + g = i + 1
      BY <1>3, <1>4, <1>7, <2>2
    <3> QED
      BY <1>5, <1>8, <1>9, <3>1
  <2> QED
    BY <2>1, <2>2
<1>11. a = b
  BY <1>7, <1>8, <1>9, <1>10, SeqSame
<1>12. u[1] = s[1]
  BY <1>4, <1>5
<1> QED
  BY <1>2, <1>4, <1>6, <1>8, <1>11, <1>12

LEMMA HeadCat ==
  ASSUME NEW s, IsSeq(s), s # << >>
  PROVE  s = <<s[1]>> \o Tail(s)
<1>1. PICK one, t, e : one = <<e>> /\ e = s[1] /\ t = Tail(s)
  OBVIOUS
<1>2. IsSeq(one) /\ Len(one) = 1 /\ one[1] = e
  BY <1>1, OneIsSeq
<1>3. PICK n \in Nat : n + 1 = Len(s)
  <2>1. Len(s) \in Nat \ {0}
    BY HeadTailFacts
  <2>2. Len(s) - 1 \in Nat /\ (Len(s) - 1) + 1 = Len(s)
    BY <2>1
  <2> QED
    BY <2>2
<1>9. PICK j \in Nat : j = 1
  OBVIOUS
<1>4. IsSeq(t) /\ Len(t) = n /\ \A i \in 1 .. n : t[i] = s[i + 1]
  <2>1. n = Len(s) - 1
    BY <1>3
  <2> QED
    BY <1>1, <2>1, HeadTailFacts
<1>5. PICK u : u = one \o t
  OBVIOUS
<1>6. /\ IsSeq(u) /\ Len(u) = j + n
      /\ \A i \in 1 .. j : u[i] = one[i]
      /\ \A i \in 1 .. n : u[j + i] = t[i]
  <2>1. IsSeq(one) /\ IsSeq(t) /\ j \in Nat /\ n \in Nat /\ j = Len(one) /\ n = Len(t)
    BY <1>2, <1>4, <1>9
  <2> QED
    BY ONLY <1>5, <2>1, Joined
<1>7. ASSUME NEW i \in 1 .. n + 1 PROVE s[i] = u[i]
  <2>1. CASE i = 1
    <3>1. i \in 1 .. j
      BY <1>9, <2>1
    <3>2. u[i] = one[i]
      BY <1>6, <3>1
    <3> QED
      BY <1>1, <1>2, <2>1, <3>2
  <2>2. CASE i # 1
    <3>1. PICK h \in 1 .. n : h + 1 = i /\ j + h = i
      <4>1. i - 1 \in 1 .. n /\ (i - 1) + 1 = i /\ j + (i - 1) = i
        BY <1>9, <2>2
      <4> QED
        BY <4>1
    <3>2. u[j + h] = t[h] /\ t[h] = s[h + 1]
      BY <1>4, <1>6
    <3> QED
      BY <3>1, <3>2
  <2> QED
    BY <2>1, <2>2
<1>8. s = u
  <2>1. Len(s) = Len(u)
    BY <1>3, <1>6, <1>9
  <2> QED
    BY <1>3, <1>6, <1>7, <2>1, SeqSame
<1> QED
  BY <1>1, <1>5, <1>8

\* A turn of the loop of onMessage puts a whole packet into the inbox.
LEMMA Received ==
  ASSUME NEW in, NEW b, NEW w, NEW q, Carries(in, b, w, q), EnoughData(b)
  PROVE  Carries(Append(in, NewMsgFromBuffer(b)), Retrieved(b), w, q)
<1>1. PICK rest : Packets(in) /\ Packets(rest) /\ q = in \o rest /\ b \o w = FlattenSeq(rest)
  BY DEF Carries
<1>2. IsSeq(b) /\ IsSeq(w) /\ IsSeq(in) /\ IsSeq(rest)
  BY <1>1 DEF Carries, Packets
<1>3. rest # << >>
  <2> SUFFICES ASSUME rest = << >> PROVE FALSE
    OBVIOUS
  <2>1. b \o w = << >>
    BY <1>1, FlattenNone
  <2>2. Len(b) \in Nat /\ Len(w) \in Nat /\ Len(b \o w) = Len(b) + Len(w)
    BY <1>2, SeqElim, CatFacts
  <2>3. Len(b) = 0
    BY <2>1, <2>2, EmptyIsSeq
  <2> QED
    BY <2>3 DEF EnoughData
<1>4. PICK p, t : p = rest[1] /\ t = Tail(rest)
  OBVIOUS
<1>5. NewMsgFromBuffer(b) = p /\ IsSeq(Retrieved(b)) /\ Retrieved(b) \o w = FlattenSeq(t)
  BY <1>1, <1>2, <1>3, <1>4, Cut
<1>6. IsPacket(p) /\ Packets(t) /\ IsSeq(t)
  BY <1>1, <1>3, <1>4, PacketsTail DEF Packets
<1>7. Packets(<<p>>) /\ IsSeq(<<p>>)
  BY <1>6, OnePacket, OneIsSeq
<1>8. PICK more : more = Append(in, p) /\ more = in \o <<p>>
  BY <1>2, AppendIsCat
<1>9. Packets(more)
  BY <1>1, <1>7, <1>8, PacketsCat
<1>10. q = more \o t
  <2>1. rest = <<p>> \o t
    BY <1>2, <1>3, <1>4, HeadCat
  <2>2. (in \o <<p>>) \o t = in \o (<<p>> \o t)
    BY <1>2, <1>6, <1>7, CatAssoc
  <2> QED
    BY <1>1, <1>8, <2>1, <2>2
<1> QED
  BY <1>2, <1>5, <1>6, <1>8, <1>9, <1>10 DEF Carries

\* The packet that is taken up next is the first of the queue.
LEMMA Taken ==
  ASSUME NEW in, NEW b, NEW w, NEW q, Carries(in, b, w, q), in # << >>
  PROVE  /\ IsSeq(q) /\ q # << >> /\ Head(in) = q[1]
         /\ Carries(Tail(in), b, w, Tail(q))
<1>1. PICK rest : Packets(in) /\ Packets(rest) /\ q = in \o rest /\ b \o w = FlattenSeq(rest)
  BY DEF Carries
<1>2. IsSeq(in) /\ IsSeq(rest)
  BY <1>1 DEF Packets
<1>3. Tail(q) = Tail(in) \o rest /\ Head(q) = Head(in) /\ q # << >>
  BY <1>1, <1>2, TailCat
<1>4. IsSeq(q)
  BY <1>1, <1>2, CatFacts
<1>5. Head(q) = q[1]
  BY <1>3, <1>4, HeadTailFacts
<1>6. Packets(Tail(in))
  BY <1>1, PacketsTail
<1> QED
  BY <1>1, <1>3, <1>4, <1>5, <1>6 DEF Carries

\* Nothing is left of the queue when the stream is still.
LEMMA Still ==
  ASSUME NEW in, NEW b, NEW w, NEW q, Carries(in, b, w, q),
         in = << >>, w = << >>, ~EnoughData(b)
  PROVE  q = << >> /\ b = << >>
<1>1. PICK rest : Packets(in) /\ Packets(rest) /\ q = in \o rest /\ b \o w = FlattenSeq(rest)
  BY DEF Carries
<1>2. IsSeq(b) /\ IsSeq(w) /\ IsSeq(rest)
  BY <1>1 DEF Carries, Packets
<1>3. rest = << >>
  BY <1>1, <1>2, Cut
<1>4. b \o w = b /\ in \o rest = rest
  BY <1>2, CatEmpty
<1> QED
  BY <1>1, <1>3, <1>4, FlattenNone

\* The inbox holds packets.
LEMMA InboxIsPackets ==
  ASSUME NEW in, NEW b, NEW w, NEW q, Carries(in, b, w, q)
  PROVE  Packets(in)
BY DEF Carries

-----------------------------------------------------------------------------
(* All four streams.                                                       *)

Carried(in, b, w, Q) ==
    /\ in = [l \in Link |-> in[l]] /\ b = [l \in Link |-> b[l]] /\ w = [l \in Link |-> w[l]]
    /\ \A l \in Link : Carries(in[l], b[l], w[l], Q[l])

\* Q with other packets on l.
With(Q, l, q) == [k \in Link |-> IF k = l THEN q ELSE Q[k]]

IsWith(R, Q, l, q) == R[l] = q /\ \A k \in Link : k # l => R[k] = Q[k]

LEMMA WithFacts ==
  ASSUME NEW Q, NEW l \in Link, NEW q
  PROVE  IsWith(With(Q, l, q), Q, l, q)
<1>1. PICK R : R = [k \in Link |-> IF k = l THEN q ELSE Q[k]]
  OBVIOUS
<1>2. R[l] = q /\ \A k \in Link : k # l => R[k] = Q[k]
  BY <1>1
<1> QED
  BY <1>1, <1>2 DEF With, IsWith

LEMMA CarriedAfterSend ==
  ASSUME NEW in, NEW b, NEW w, NEW Q, Carried(in, b, w, Q), NEW l \in Link, NEW ps, Packets(ps)
  PROVE  Carried(in, b, [w EXCEPT ![l] = @ \o FlattenSeq(ps)], With(Q, l, Q[l] \o ps))
<1>1. PICK v, R : v = [w EXCEPT ![l] = @ \o FlattenSeq(ps)] /\ R = With(Q, l, Q[l] \o ps)
  OBVIOUS
<1>2. v = [k \in Link |-> v[k]] /\ v[l] = w[l] \o FlattenSeq(ps) /\ \A k \in Link : k # l => v[k] = w[k]
  BY <1>1 DEF Carried
<1>3. R[l] = Q[l] \o ps /\ \A k \in Link : k # l => R[k] = Q[k]
  <2>1. IsWith(R, Q, l, Q[l] \o ps)
    BY <1>1, WithFacts
  <2> QED
    BY <2>1 DEF IsWith
<1>4. ASSUME NEW k \in Link PROVE Carries(in[k], b[k], v[k], R[k])
  <2>1. CASE k = l
    <3>1. Carries(in[l], b[l], w[l] \o FlattenSeq(ps), Q[l] \o ps)
      BY Sent DEF Carried
    <3> QED
      BY <1>2, <1>3, <2>1, <3>1
  <2>2. CASE k # l
    BY <1>2, <1>3, <2>2 DEF Carried
  <2> QED
    BY <2>1, <2>2
<1> QED
  BY <1>1, <1>2, <1>4 DEF Carried

LEMMA CarriedAfterTake ==
  ASSUME NEW in, NEW b, NEW w, NEW Q, Carried(in, b, w, Q), NEW l \in Link, in[l] # << >>
  PROVE  /\ IsSeq(Q[l]) /\ Q[l] # << >> /\ Head(in[l]) = Q[l][1]
         /\ Carried([in EXCEPT ![l] = Tail(@)], b, w, With(Q, l, Tail(Q[l])))
<1>1. PICK v, R : v = [in EXCEPT ![l] = Tail(@)] /\ R = With(Q, l, Tail(Q[l]))
  OBVIOUS
<1>2. v = [k \in Link |-> v[k]] /\ v[l] = Tail(in[l]) /\ \A k \in Link : k # l => v[k] = in[k]
  BY <1>1 DEF Carried
<1>3. R[l] = Tail(Q[l]) /\ \A k \in Link : k # l => R[k] = Q[k]
  BY <1>1, WithFacts DEF IsWith
<1>5. /\ IsSeq(Q[l]) /\ Q[l] # << >> /\ Head(in[l]) = Q[l][1]
      /\ Carries(Tail(in[l]), b[l], w[l], Tail(Q[l]))
  BY Taken DEF Carried
<1>4. ASSUME NEW k \in Link PROVE Carries(v[k], b[k], w[k], R[k])
  <2>1. CASE k = l
    BY <1>2, <1>3, <1>5, <2>1
  <2>2. CASE k # l
    BY <1>2, <1>3, <2>2 DEF Carried
  <2> QED
    BY <2>1, <2>2
<1> QED
  BY <1>1, <1>2, <1>4, <1>5 DEF Carried

-----------------------------------------------------------------------------
(* What the packets of a stream stand for.                                 *)

RequestPacket(r) == Packet(r.cmd, Serialize(RequestClass(r.cmd), r.msg))

IsRequest(p, r) ==
    /\ p = RequestPacket(r) /\ IsPacket(p) /\ Cmd(p) = r.cmd /\ IsSeq(Data(p))
    /\ OfClass(RequestClass(r.cmd), r.msg) /\ Read(RequestClass(r.cmd), Data(p)) = r.msg

IsWrap(w, cmd, user, p) ==
    IsPacket(w) /\ Cmd(w) = cmd /\ InnerUser(w) = user /\ Inner(w) = p

IsPassed(w, x) ==
    \E p : IsWrap(w, "TRANSIT_CMD", User, p) /\ IsRequest(p, x)
           /\ x = [cmd |-> x.cmd, user |-> User, msg |-> x.msg]

Echoes == {"PRE_LOGIN_CMD", "HEART_CMD"}

IsAnswer(p, a) ==
    /\ IsPacket(p) /\ Cmd(p) = a.cmd /\ Data(p) = a.data /\ a.cmd \notin Echoes
    /\ Meaning(a) = [cmd |-> a.cmd, msg |-> Read(AnswerClass(a.cmd), a.data)]

IsAnswered(w, a) == \E p : IsWrap(w, "TRANSIT_ACK", User, p) /\ IsAnswer(p, a)

IsEcho(p, r) == IsRequest(p, r) /\ r.cmd \in Echoes /\ r = [cmd |-> r.cmd, msg |-> r.msg]

\* What a packet on l stands for.
Fits(l, w, x) ==
    IF l = "clientUp" THEN IsRequest(w, x) ELSE IF l = "serverUp" THEN IsPassed(w, x) ELSE IsAnswered(w, x)

\* The packets q of l stand for the items of xs after the first n, but for the first o of them.
Row(l, q, o, xs, n) ==
    /\ IsSeq(q) /\ IsSeq(xs) /\ o \in {0, 1} /\ n \in Nat /\ n <= Len(xs) /\ Len(q) + n = o + Len(xs)
    /\ \A i \in 1 .. Len(xs) - n : Fits(l, q[o + i], xs[n + i])

LEMMA RowSend ==
  ASSUME NEW l, NEW q, NEW o, NEW xs, NEW n, Row(l, q, o, xs, n),
         NEW ws, NEW ys, IsSeq(ws), IsSeq(ys), NEW k \in Nat, k = Len(ws), k = Len(ys),
         \A i \in 1 .. k : Fits(l, ws[i], ys[i])
  PROVE  Row(l, q \o ws, o, xs \o ys, n)
<1>1. PICK z, x \in Nat : z = Len(q) /\ x = Len(xs)
  BY SeqElim DEF Row
<1>2. o \in Nat /\ n \in Nat /\ n <= x /\ z + n = o + x
  BY <1>1 DEF Row
<1>3. PICK qq, xx : qq = q \o ws /\ xx = xs \o ys
  OBVIOUS
<1>4. IsSeq(qq) /\ Len(qq) = z + k /\ (\A i \in 1 .. z : qq[i] = q[i]) /\ \A i \in 1 .. k : qq[z + i] = ws[i]
  <2>1. IsSeq(q) /\ IsSeq(ws) /\ z \in Nat /\ k \in Nat /\ z = Len(q) /\ k = Len(ws)
    BY <1>1 DEF Row
  <2> QED
    BY ONLY <1>3, <2>1, Joined
<1>5. IsSeq(xx) /\ Len(xx) = x + k /\ (\A i \in 1 .. x : xx[i] = xs[i]) /\ \A i \in 1 .. k : xx[x + i] = ys[i]
  <2>1. IsSeq(xs) /\ IsSeq(ys) /\ x \in Nat /\ k \in Nat /\ x = Len(xs) /\ k = Len(ys)
    BY <1>1 DEF Row
  <2> QED
    BY ONLY <1>3, <2>1, Joined
<1>6. ASSUME NEW i \in 1 .. (x + k) - n PROVE Fits(l, qq[o + i], xx[n + i])
  <2>1. CASE i <= x - n
    <3>1. PICK g, h \in Nat : g = o + i /\ h = n + i /\ g \in 1 .. z /\ h \in 1 .. x
      BY <1>2, <2>1
    <3>2. qq[g] = q[g] /\ xx[h] = xs[h]
      BY <1>4, <1>5, <3>1
    <3>3. i \in 1 .. Len(xs) - n
      BY <1>1, <1>2, <2>1
    <3>4. Fits(l, q[o + i], xs[n + i])
      BY <3>3 DEF Row
    <3> QED
      BY <3>1, <3>2, <3>4
  <2>2. CASE ~(i <= x - n)
    <3>1. PICK h \in 1 .. k : h = i - (x - n) /\ z + h = o + i /\ x + h = n + i
      <4>1. i - (x - n) \in 1 .. k /\ z + (i - (x - n)) = o + i /\ x + (i - (x - n)) = n + i
        BY <1>2, <2>2
      <4> QED
        BY <4>1
    <3>2. qq[z + h] = ws[h] /\ xx[x + h] = ys[h]
      BY <1>4, <1>5
    <3> QED
      BY <3>1, <3>2
  <2> QED
    BY <2>1, <2>2
<1>7. n <= x + k /\ (z + k) + n = o + (x + k)
  BY <1>2
<1>8. Row(l, qq, o, xx, n)
  BY <1>4, <1>5, <1>6, <1>7 DEF Row
<1> QED
  BY <1>3, <1>8

LEMMA RowSendOne ==
  ASSUME NEW l, NEW q, NEW o, NEW xs, NEW n, Row(l, q, o, xs, n), NEW w, NEW y, Fits(l, w, y)
  PROVE  Row(l, q \o <<w>>, o, Append(xs, y), n)
<1>1. PICK ws, ys, k : ws = <<w>> /\ ys = <<y>> /\ k = 1
  OBVIOUS
<1>2. /\ IsSeq(ws) /\ k = Len(ws) /\ ws[1] = w
      /\ IsSeq(ys) /\ k = Len(ys) /\ ys[1] = y
  BY <1>1, OneIsSeq
<1>3. ASSUME NEW i \in 1 .. k PROVE Fits(l, ws[i], ys[i])
  <2>1. i = 1
    BY <1>1
  <2> QED
    BY <1>2, <2>1
<1>4. k \in Nat
  BY <1>1
<1>5. Row(l, q \o ws, o, xs \o ys, n)
  BY <1>2, <1>3, <1>4, RowSend
<1>6. Append(xs, y) = xs \o ys
  BY <1>1, AppendIsCat DEF Row
<1> QED
  BY <1>1, <1>5, <1>6

\* The first packet when it stands for nothing.
LEMMA RowTakeLead ==
  ASSUME NEW l, NEW q, NEW xs, NEW n, Row(l, q, 1, xs, n)
  PROVE  Row(l, Tail(q), 0, xs, n)
<1>1. PICK z, x \in Nat : z = Len(q) /\ x = Len(xs)
  BY SeqElim DEF Row
<1>2. n \in Nat /\ n <= x /\ z + n = 1 + x /\ IsSeq(q) /\ IsSeq(xs)
  BY <1>1 DEF Row
<1>3. q # << >>
  <2>1. z # 0
    BY <1>2
  <2> QED
    BY <1>1, <2>1, EmptyIsSeq
<1>4. PICK t : t = Tail(q)
  OBVIOUS
<1>5. IsSeq(t) /\ Len(t) = z - 1 /\ \A i \in 1 .. z - 1 : t[i] = q[i + 1]
  BY <1>1, <1>2, <1>3, <1>4, HeadTailFacts
<1>6. ASSUME NEW i \in 1 .. Len(xs) - n PROVE Fits(l, t[0 + i], xs[n + i])
  <2>1. i \in 1 .. z - 1 /\ 0 + i = i /\ 1 + i = i + 1
    BY <1>1, <1>2
  <2>2. Fits(l, q[1 + i], xs[n + i])
    BY DEF Row
  <2> QED
    BY <1>5, <2>1, <2>2
<1>7. (z - 1) + n = 0 + x
  BY <1>2
<1> QED
  BY <1>1, <1>2, <1>4, <1>5, <1>6, <1>7 DEF Row

LEMMA RowTake ==
  ASSUME NEW l, NEW q, NEW xs, NEW n, Row(l, q, 0, xs, n), q # << >>
  PROVE  n + 1 <= Len(xs) /\ Fits(l, q[1], xs[n + 1]) /\ Row(l, Tail(q), 0, xs, n + 1)
<1>1. PICK z, x \in Nat : z = Len(q) /\ x = Len(xs)
  BY SeqElim DEF Row
<1>2. n \in Nat /\ n <= x /\ z + n = x /\ IsSeq(q) /\ IsSeq(xs)
  BY <1>1 DEF Row
<1>3. z # 0
  BY <1>1, <1>2, EmptyIfNoLen
<1>4. PICK t, k : t = Tail(q) /\ k = n + 1
  OBVIOUS
<1>5. IsSeq(t) /\ Len(t) = z - 1 /\ \A i \in 1 .. z - 1 : t[i] = q[i + 1]
  BY <1>1, <1>2, <1>4, HeadTailFacts
<1>6. k \in Nat /\ k <= x /\ (z - 1) + k = 0 + x
  BY <1>2, <1>3, <1>4
<1>7. Fits(l, q[1], xs[k])
  <2>1. 1 \in 1 .. Len(xs) - n /\ 0 + 1 = 1
    BY <1>1, <1>2, <1>3
  <2>2. Fits(l, q[0 + 1], xs[n + 1])
    BY <2>1 DEF Row
  <2> QED
    BY <1>4, <2>1, <2>2
<1>8. ASSUME NEW i \in 1 .. Len(xs) - k PROVE Fits(l, t[0 + i], xs[k + i])
  <2>1. PICK j \in 1 .. Len(xs) - n : j = i + 1 /\ i \in 1 .. z - 1 /\ 0 + i = i /\ 0 + j = j /\ n + j = k + i
    BY <1>1, <1>2, <1>4
  <2>2. Fits(l, q[0 + j], xs[n + j])
    BY <2>1 DEF Row
  <2>3. t[i] = q[j]
    BY <1>5, <2>1
  <2> QED
    BY <2>1, <2>2, <2>3
<1>9. Row(l, t, 0, xs, k)
  BY <1>1, <1>2, <1>5, <1>6, <1>8 DEF Row
<1> QED
  BY <1>1, <1>4, <1>6, <1>7, <1>9

\* One that stands for nothing, on an empty queue.
LEMMA RowLead ==
  ASSUME NEW l, NEW xs, NEW n, Row(l, << >>, 0, xs, n), NEW w
  PROVE  Row(l, << >> \o <<w>>, 1, xs, n) /\ (<< >> \o <<w>>)[1] = w
<1>1. PICK x \in Nat : x = Len(xs)
  BY SeqElim DEF Row
<1>2. PICK q : q = << >> \o <<w>> /\ IsSeq(q) /\ Len(q) = 1 /\ q[1] = w
  <2>1. IsSeq(<<w>>) /\ Len(<<w>>) = 1 /\ <<w>>[1] = w
    BY OneIsSeq
  <2>2. << >> \o <<w>> = <<w>>
    BY <2>1, CatEmpty
  <2> QED
    BY <2>1, <2>2
<1>3. n \in Nat /\ n = x /\ IsSeq(xs)
  <2>1. n \in Nat /\ Len(<< >>) + n = 0 + Len(xs) /\ IsSeq(xs)
    BY DEF Row
  <2>2. Len(<< >>) = 0
    BY EmptyIsSeq
  <2> QED
    BY <1>1, <2>1, <2>2
<1>4. 1 + n = 1 + x /\ n <= x /\ 1 .. x - n = {}
  BY <1>3
<1>5. Row(l, q, 1, xs, n)
  BY <1>1, <1>2, <1>3, <1>4 DEF Row
<1> QED
  BY <1>2, <1>5

\* One packet is sent.
LEMMA CarriedAfterPacket ==
  ASSUME NEW in, NEW b, NEW w, NEW Q, Carried(in, b, w, Q), NEW l \in Link, NEW p, IsPacket(p)
  PROVE  Carried(in, b, [w EXCEPT ![l] = @ \o p], With(Q, l, Q[l] \o <<p>>))
<1>1. PICK ps : ps = <<p>> /\ Packets(ps) /\ FlattenSeq(ps) = p
  BY OnePacket
<1>2. Carried(in, b, [w EXCEPT ![l] = @ \o FlattenSeq(ps)], With(Q, l, Q[l] \o ps))
  BY <1>1, CarriedAfterSend
<1> QED
  BY <1>1, <1>2

\* Cells arrive.
LEMMA CarriedAfterArrive ==
  ASSUME NEW in, NEW b, NEW w, NEW Q, Carried(in, b, w, Q), NEW l \in Link,
         NEW n \in 1 .. Len(w[l])
  PROVE  Carried(in, [b EXCEPT ![l] = @ \o SubSeq(w[l], 1, n)],
                 [w EXCEPT ![l] = SubSeq(@, n + 1, Len(@))], Q)
<1>1. PICK v, a : /\ v = [w EXCEPT ![l] = SubSeq(@, n + 1, Len(@))]
                  /\ a = [b EXCEPT ![l] = @ \o SubSeq(w[l], 1, n)]
  OBVIOUS
<1>2. PICK x, y : x = b[l] \o SubSeq(w[l], 1, n) /\ y = SubSeq(w[l], n + 1, Len(w[l]))
  OBVIOUS
<1>3. v = [k \in Link |-> v[k]] /\ v[l] = y /\ \A k \in Link : k # l => v[k] = w[k]
  BY <1>1, <1>2 DEF Carried
<1>4. a = [k \in Link |-> a[k]] /\ a[l] = x /\ \A k \in Link : k # l => a[k] = b[k]
  BY <1>1, <1>2 DEF Carried
<1>5. Carries(in[l], x, y, Q[l])
  <2>1. Carries(in[l], b[l], w[l], Q[l])
    BY DEF Carried
  <2>2. n \in Nat /\ n <= Len(w[l])
    <3>1. Len(w[l]) \in Nat
      BY <2>1, SeqElim DEF Carries
    <3> QED
      BY <3>1
  <2>3. Carries(in[l], b[l] \o SubSeq(w[l], 1, n), SubSeq(w[l], n + 1, Len(w[l])), Q[l])
    BY ONLY <2>1, <2>2, Arrived
  <2> QED
    BY <1>2, <2>3
<1>6. ASSUME NEW k \in Link PROVE Carries(in[k], a[k], v[k], Q[k])
  <2>1. CASE k = l
    BY <1>3, <1>4, <1>5, <2>1
  <2>2. CASE k # l
    BY <1>3, <1>4, <2>2 DEF Carried
  <2> QED
    BY <2>1, <2>2
<1>7. in = [k \in Link |-> in[k]]
  BY DEF Carried
<1>8. Carried(in, a, v, Q)
  BY <1>3, <1>4, <1>6, <1>7 DEF Carried
<1> QED
  BY <1>1, <1>8

\* A turn of the loop of onMessage.
LEMMA CarriedAfterReceive ==
  ASSUME NEW in, NEW b, NEW w, NEW Q, Carried(in, b, w, Q), NEW l \in Link, EnoughData(b[l])
  PROVE  Carried([in EXCEPT ![l] = Append(@, NewMsgFromBuffer(b[l]))],
                 [b EXCEPT ![l] = Retrieved(@)], w, Q)
<1>1. PICK v, a : /\ v = [in EXCEPT ![l] = Append(@, NewMsgFromBuffer(b[l]))]
                  /\ a = [b EXCEPT ![l] = Retrieved(@)]
  OBVIOUS
<1>2. PICK x, y : x = Append(in[l], NewMsgFromBuffer(b[l])) /\ y = Retrieved(b[l])
  OBVIOUS
<1>3. v = [k \in Link |-> v[k]] /\ v[l] = x /\ \A k \in Link : k # l => v[k] = in[k]
  BY <1>1, <1>2 DEF Carried
<1>4. a = [k \in Link |-> a[k]] /\ a[l] = y /\ \A k \in Link : k # l => a[k] = b[k]
  BY <1>1, <1>2 DEF Carried
<1>5. Carries(x, y, w[l], Q[l])
  BY <1>2, Received DEF Carried
<1>6. ASSUME NEW k \in Link PROVE Carries(v[k], a[k], w[k], Q[k])
  <2>1. CASE k = l
    BY <1>3, <1>4, <1>5, <2>1
  <2>2. CASE k # l
    BY <1>3, <1>4, <2>2 DEF Carried
  <2> QED
    BY <2>1, <2>2
<1>7. w = [k \in Link |-> w[k]]
  BY DEF Carried
<1>8. Carried(v, a, w, Q)
  BY <1>3, <1>4, <1>6, <1>7 DEF Carried
<1> QED
  BY <1>1, <1>8

-----------------------------------------------------------------------------
(* What is sent is what it stands for.                                     *)

LEMMA RequestClassIs ==
  ASSUME NEW cmd
  PROVE  RequestClass(cmd) \in {"ReqLogin", "ReqCreateRole", "ReqEnterGame", "ReqMove", "Chat",
                                "ReqClientReady"}
BY DEF RequestClass

LEMMA RequestClasses ==
  {"ReqLogin", "ReqCreateRole", "ReqEnterGame", "ReqMove", "Chat", "ReqClientReady"} \subseteq Class
BY DEF Class, ChatSchema, LoginSchema, MoveSchema

LEMMA RequestIs ==
  ASSUME NEW r, OfClass(RequestClass(r.cmd), r.msg)
  PROVE  IsRequest(RequestPacket(r), r)
<1>1. PICK c, d, p : c = RequestClass(r.cmd) /\ d = Serialize(c, r.msg) /\ p = RequestPacket(r)
  OBVIOUS
<1>2. c \in Class
  BY <1>1, RequestClassIs, RequestClasses
<1>3. IsSeq(d)
  BY <1>1, <1>2, SizeIsAnnounced
<1>4. p = Packet(r.cmd, d)
  BY <1>1 DEF RequestPacket
<1>5. IsPacket(p) /\ Cmd(p) = r.cmd /\ Data(p) = d
  BY <1>3, <1>4, PacketIsPacket, PacketIsRead
<1>6. ParseFromArray(c, d) = [ok |-> TRUE, msg |-> r.msg, at |-> ByteSize(c, r.msg)]
  BY <1>1, <1>2, MessageIsReadBack
<1>7. Read(c, d) = r.msg
  BY <1>6 DEF Read
<1> QED
  BY <1>1, <1>3, <1>5, <1>7 DEF IsRequest

LEMMA WrapIs ==
  ASSUME NEW p, IsPacket(p), NEW cmd, NEW server, NEW user
  PROVE  IsWrap(Wrap(cmd, server, user, p), cmd, user, p)
BY WrapIsUndone DEF IsWrap

LEMMA PassedIs ==
  ASSUME NEW p, NEW r, IsRequest(p, r), NEW server
  PROVE  /\ IsPassed(Wrap("TRANSIT_CMD", server, User, p), [cmd |-> r.cmd, user |-> User, msg |-> r.msg])
         /\ IsPacket(Wrap("TRANSIT_CMD", server, User, p))
<1>1. PICK w, x : w = Wrap("TRANSIT_CMD", server, User, p) /\ x = [cmd |-> r.cmd, user |-> User, msg |-> r.msg]
  OBVIOUS
<1>2. IsWrap(w, "TRANSIT_CMD", User, p)
  BY <1>1, WrapIs DEF IsRequest
<1>3. x.cmd = r.cmd /\ x.msg = r.msg /\ x = [cmd |-> x.cmd, user |-> User, msg |-> x.msg]
  BY <1>1
<1>4. IsRequest(p, x)
  BY <1>3 DEF IsRequest, RequestPacket
<1>5. IsPassed(w, x)
  BY <1>2, <1>3, <1>4 DEF IsPassed
<1> QED
  BY <1>1, <1>2, <1>5 DEF IsWrap

-----------------------------------------------------------------------------
(* The messages of the program are of their classes.                       *)

LEMMA ClassesUsed ==
  {"ReqLogin", "ReqCreateRole", "ReqEnterGame", "ReqMove", "PlayerInfo", "AckLogin", "AckCreateRole",
   "AckEnterGame", "MapLocation", "AckMove", "MapAddObject", "MapDelObject", "ReqLoginServer",
   "AckLoginServer"} \subseteq Class
BY DEF Class, LoginSchema, MoveSchema, ServerSchema

LEMMA LoginSchemas ==
  /\ Schema["ReqLogin"] = ReqLogin
  /\ Schema["ReqCreateRole"] = ReqCreateRole
  /\ Schema["ReqEnterGame"] = ReqEnterGame
  /\ Schema["PlayerInfo"] = PlayerInfo
  /\ Schema["AckLogin"] = AckLogin
  /\ Schema["AckCreateRole"] = AckCreateRole
  /\ Schema["AckEnterGame"] = AckEnterGame
<1>1. ASSUME NEW c \in DOMAIN LoginSchema PROVE Schema[c] = LoginSchema[c]
  BY DEF Schema, Class, TimeSchema, ChatSchema, LoginSchema, MoveSchema, ServerSchema, TaskSchema
<1> QED
  BY <1>1 DEF LoginSchema

LEMMA MoveSchemas ==
  /\ Schema["ReqMove"] = ReqMove
  /\ Schema["MapLocation"] = MapLocation
  /\ Schema["AckMove"] = AckMove
  /\ Schema["MapAddObject"] = MapAddObject
  /\ Schema["MapDelObject"] = MapDelObject
<1>1. ASSUME NEW c \in DOMAIN MoveSchema PROVE Schema[c] = MoveSchema[c]
  BY DEF Schema, Class, TimeSchema, ChatSchema, LoginSchema, MoveSchema, ServerSchema, TaskSchema
<1> QED
  BY <1>1 DEF MoveSchema

LEMMA ServerSchemas ==
  /\ Schema["ReqLoginServer"] = ReqLoginServer
  /\ Schema["AckLoginServer"] = ReqLoginServer
<1>1. ASSUME NEW c \in DOMAIN ServerSchema PROVE Schema[c] = ServerSchema[c]
  BY DEF Schema, Class, TimeSchema, ChatSchema, LoginSchema, MoveSchema, ServerSchema, TaskSchema
<1> QED
  BY <1>1 DEF ServerSchema, ReqLoginServer, AckLoginServer

\* A value of a type, and of a field.
ValueOK(l, type, v) ==
    IF type = "int" THEN v \in Int
    ELSE IF type = "string" THEN v \in STRING ELSE OfClassAt(l - 1, type, v)

FieldRight(l, row, v) ==
    IF row.repeated
    THEN IsSeq(v) /\ v # << >> /\ \A i \in 1 .. Len(v) : ValueOK(l, row.type, v[i])
    ELSE ValueOK(l, row.type, v)

LEMMA OfClassIntro ==
  ASSUME NEW l \in 1 .. 3, NEW c \in Class, NEW m, Maps(m, DOMAIN m),
         \A f \in DOMAIN m : \E n \in Number(c) :
            Schema[c][n].name = f /\ FieldRight(l, Schema[c][n], m[f])
  PROVE  OfClassAt(l, c, m)
<1>1. ASSUME NEW n \in Number(c), NEW row, row = Schema[c][n], NEW vs, vs = Values(row, m)
      PROVE  /\ IsSeq(vs)
             /\ IsSet(m, row.name) => vs # << >>
             /\ \A i \in 1 .. Len(vs) : ValueOK(l, row.type, vs[i])
  <2>1. CASE ~IsSet(m, row.name)
    <3>1. vs = << >>
      BY <1>1, <2>1 DEF Values, List
    <3> QED
      BY <2>1, <3>1, EmptyIsSeq
  <2>2. CASE IsSet(m, row.name)
    <3>1. PICK v : v = m[row.name]
      OBVIOUS
    <3>2. FieldRight(l, row, v)
      <4>1. PICK k \in Number(c) : Schema[c][k].name = row.name /\ FieldRight(l, Schema[c][k], v)
        BY <2>2, <3>1 DEF IsSet
      <4>2. k = n
        BY <1>1, <4>1, RowFacts
      <4> QED
        BY <1>1, <4>1, <4>2
    <3>3. CASE row.repeated
      <4>1. vs = v
        BY <1>1, <2>2, <3>1, <3>3 DEF Values, List
      <4> QED
        BY <3>2, <3>3, <4>1 DEF FieldRight
    <3>4. CASE ~row.repeated
      <4>1. vs = <<v>>
        BY <1>1, <2>2, <3>1, <3>4 DEF Values
      <4>2. IsSeq(vs) /\ Len(vs) = 1 /\ vs[1] = v /\ vs # << >>
        <5>1. IsSeq(vs) /\ Len(vs) = 1 /\ vs[1] = v
          BY <4>1, OneIsSeq
        <5> QED
          BY <5>1, EmptyIsSeq
      <4>3. ValueOK(l, row.type, v)
        BY <3>2, <3>4 DEF FieldRight
      <4>4. ASSUME NEW i \in 1 .. Len(vs) PROVE ValueOK(l, row.type, vs[i])
        <5>1. i = 1
          BY <4>2
        <5> QED
          BY <4>2, <4>3, <5>1
      <4> QED
        BY <4>2, <4>4
    <3> QED
      BY <3>3, <3>4
  <2> QED
    BY <2>1, <2>2
<1>2. /\ m = [f \in DOMAIN m |-> m[f]]
      /\ \A f \in DOMAIN m : \E n \in Number(c) : Schema[c][n].name = f
  BY DEF Maps
<1>3. ASSUME NEW n \in Number(c), NEW row, row = Schema[c][n], NEW vs, vs = Values(row, m)
      PROVE  /\ Len(vs) \in Nat /\ vs = [i \in 1 .. Len(vs) |-> vs[i]]
             /\ IsSet(m, row.name) => vs # << >>
             /\ \A i \in DOMAIN vs : ValueOK(l, row.type, vs[i])
  BY <1>1, <1>3, SeqElim, ZenonT(40)
<1>4. CASE l = 3
  <2>1. \A type, v : OfClassAt(l - 1, type, v) = OfClass1(type, v)
    BY <1>4 DEF OfClassAt
  <2>2. ASSUME NEW n \in Number(c)
        PROVE  LET row == Schema[c][n]
                   vs == Values(row, m)
               IN  /\ Len(vs) \in Nat /\ vs = [i \in 1 .. Len(vs) |-> vs[i]]
                   /\ IsSet(m, row.name) => vs # << >>
                   /\ \A i \in DOMAIN vs :
                         CASE row.type = "int"    -> vs[i] \in Int
                           [] row.type = "string" -> vs[i] \in STRING
                           [] OTHER               -> OfClass1(row.type, vs[i])
    <3>1. PICK row, vs : row = Schema[c][n] /\ vs = Values(row, m)
      OBVIOUS
    <3>2. /\ Len(vs) \in Nat /\ vs = [i \in 1 .. Len(vs) |-> vs[i]]
          /\ IsSet(m, row.name) => vs # << >>
      BY <1>3, <3>1
    <3>3. ASSUME NEW i \in DOMAIN vs
          PROVE  CASE row.type = "int"    -> vs[i] \in Int
                   [] row.type = "string" -> vs[i] \in STRING
                   [] OTHER               -> OfClass1(row.type, vs[i])
      <4>1. ValueOK(l, row.type, vs[i])
        BY <1>3, <3>1
      <4>2. row.type # "int" /\ row.type # "string" => OfClass1(row.type, vs[i])
        BY <2>1, <4>1 DEF ValueOK
      <4>3. (row.type = "int" => vs[i] \in Int) /\ (row.type = "string" => vs[i] \in STRING)
        BY <4>1 DEF ValueOK
      <4> QED
        BY <4>2, <4>3
    <3> QED
      BY <3>1, <3>2, <3>3
  <2>3. OfClassWith(c, m, OfClass1)
    BY <1>2, <2>2 DEF OfClassWith
  <2> QED
    BY <1>4, <2>3 DEF OfClassAt, OfClass
<1>5. CASE l = 2
  <2>1. \A type, v : OfClassAt(l - 1, type, v) = OfClass0(type, v)
    BY <1>5 DEF OfClassAt
  <2>2. ASSUME NEW n \in Number(c)
        PROVE  LET row == Schema[c][n]
                   vs == Values(row, m)
               IN  /\ Len(vs) \in Nat /\ vs = [i \in 1 .. Len(vs) |-> vs[i]]
                   /\ IsSet(m, row.name) => vs # << >>
                   /\ \A i \in DOMAIN vs :
                         CASE row.type = "int"    -> vs[i] \in Int
                           [] row.type = "string" -> vs[i] \in STRING
                           [] OTHER               -> OfClass0(row.type, vs[i])
    <3>1. PICK row, vs : row = Schema[c][n] /\ vs = Values(row, m)
      OBVIOUS
    <3>2. /\ Len(vs) \in Nat /\ vs = [i \in 1 .. Len(vs) |-> vs[i]]
          /\ IsSet(m, row.name) => vs # << >>
      BY <1>3, <3>1
    <3>3. ASSUME NEW i \in DOMAIN vs
          PROVE  CASE row.type = "int"    -> vs[i] \in Int
                   [] row.type = "string" -> vs[i] \in STRING
                   [] OTHER               -> OfClass0(row.type, vs[i])
      <4>1. ValueOK(l, row.type, vs[i])
        BY <1>3, <3>1
      <4>2. row.type # "int" /\ row.type # "string" => OfClass0(row.type, vs[i])
        BY <2>1, <4>1 DEF ValueOK
      <4>3. (row.type = "int" => vs[i] \in Int) /\ (row.type = "string" => vs[i] \in STRING)
        BY <4>1 DEF ValueOK
      <4> QED
        BY <4>2, <4>3
    <3> QED
      BY <3>1, <3>2, <3>3
  <2>3. OfClassWith(c, m, OfClass0)
    BY <1>2, <2>2 DEF OfClassWith
  <2> QED
    BY <1>5, <2>3 DEF OfClassAt, OfClass1
<1>6. CASE l = 1
  <2>1. \A type, v : OfClassAt(l - 1, type, v) = FALSE
    BY <1>6 DEF OfClassAt
  <2>2. ASSUME NEW n \in Number(c)
        PROVE  LET row == Schema[c][n]
                   vs == Values(row, m)
               IN  /\ Len(vs) \in Nat /\ vs = [i \in 1 .. Len(vs) |-> vs[i]]
                   /\ IsSet(m, row.name) => vs # << >>
                   /\ \A i \in DOMAIN vs :
                         CASE row.type = "int"    -> vs[i] \in Int
                           [] row.type = "string" -> vs[i] \in STRING
                           [] OTHER               -> FALSE
    <3>1. PICK row, vs : row = Schema[c][n] /\ vs = Values(row, m)
      OBVIOUS
    <3>2. /\ Len(vs) \in Nat /\ vs = [i \in 1 .. Len(vs) |-> vs[i]]
          /\ IsSet(m, row.name) => vs # << >>
      BY <1>3, <3>1
    <3>3. ASSUME NEW i \in DOMAIN vs
          PROVE  CASE row.type = "int"    -> vs[i] \in Int
                   [] row.type = "string" -> vs[i] \in STRING
                   [] OTHER               -> FALSE
      <4>1. ValueOK(l, row.type, vs[i])
        BY <1>3, <3>1
      <4>2. row.type # "int" /\ row.type # "string" => FALSE
        BY <2>1, <4>1 DEF ValueOK
      <4>3. (row.type = "int" => vs[i] \in Int) /\ (row.type = "string" => vs[i] \in STRING)
        BY <4>1 DEF ValueOK
      <4> QED
        BY <4>2, <4>3
    <3> QED
      BY <3>1, <3>2, <3>3
  <2>3. OfClass0(c, m)
    BY <1>2, <2>2 DEF OfClassWith, OfClass0
  <2> QED
    BY <1>6, <2>3 DEF OfClassAt
<1> QED
  BY <1>4, <1>5, <1>6

\* A class has a field.
HasField(c, f, type, repeated) ==
    \E n \in Number(c) : Schema[c][n] = [name |-> f, type |-> type, repeated |-> repeated]

\* A value is right for a field of a class.
Held(l, c, f, v) == \E n \in Number(c) : Schema[c][n].name = f /\ FieldRight(l, Schema[c][n], v)

LEMMA HeldValue ==
  ASSUME NEW l, NEW c, NEW f, NEW type, HasField(c, f, type, FALSE), NEW v, ValueOK(l, type, v)
  PROVE  Held(l, c, f, v)
<1>1. PICK n \in Number(c) : Schema[c][n] = [name |-> f, type |-> type, repeated |-> FALSE]
  BY DEF HasField
<1>2. FieldRight(l, Schema[c][n], v)
  BY <1>1 DEF FieldRight
<1> QED
  BY <1>1, <1>2 DEF Held

LEMMA HeldOne ==
  ASSUME NEW l, NEW c, NEW f, NEW type, HasField(c, f, type, TRUE), NEW v, ValueOK(l, type, v)
  PROVE  Held(l, c, f, <<v>>)
<1>1. PICK n \in Number(c) : Schema[c][n] = [name |-> f, type |-> type, repeated |-> TRUE]
  BY DEF HasField
<1>2. PICK s : s = <<v>> /\ IsSeq(s) /\ Len(s) = 1 /\ s[1] = v
  BY OneIsSeq
<1>3. s # << >>
  BY <1>2, EmptyIsSeq
<1>4. ASSUME NEW i \in 1 .. Len(s) PROVE ValueOK(l, type, s[i])
  <2>1. i = 1
    BY <1>2
  <2> QED
    BY <1>2, <2>1
<1>5. FieldRight(l, Schema[c][n], s)
  BY <1>1, <1>2, <1>3, <1>4 DEF FieldRight
<1> QED
  BY <1>1, <1>2, <1>5 DEF Held

LEMMA HeldNumber ==
  ASSUME NEW l, NEW c, NEW f, HasField(c, f, "int", FALSE), NEW v \in Int
  PROVE  Held(l, c, f, v)
BY HeldValue DEF ValueOK

LEMMA HeldText ==
  ASSUME NEW l, NEW c, NEW f, HasField(c, f, "string", FALSE), NEW v \in STRING
  PROVE  Held(l, c, f, v)
BY HeldValue DEF ValueOK

LEMMA OfClassHeld ==
  ASSUME NEW l \in 1 .. 3, NEW c \in Class, NEW m, Maps(m, DOMAIN m), \A f \in DOMAIN m : Held(l, c, f, m[f])
  PROVE  OfClassAt(l, c, m)
BY OfClassIntro DEF Held

LEMMA RowIs ==
  ASSUME NEW c, NEW t, t = Schema[c], NEW n \in DOMAIN t, NEW f, NEW type, NEW rep,
         t[n] = [name |-> f, type |-> type, repeated |-> rep]
  PROVE  HasField(c, f, type, rep)
BY DEF HasField, Number

LEMMA WholeRow ==
  ASSUME NEW c, NEW t, t = Schema[c], NEW n \in DOMAIN t, NEW f, t[n] = Whole(f)
  PROVE  HasField(c, f, "int", FALSE)
BY RowIs DEF Whole, Optional

LEMMA TextRow ==
  ASSUME NEW c, NEW t, t = Schema[c], NEW n \in DOMAIN t, NEW f, t[n] = Text(f)
  PROVE  HasField(c, f, "string", FALSE)
BY RowIs DEF Text, Optional

LEMMA MessageRow ==
  ASSUME NEW c, NEW t, t = Schema[c], NEW n \in DOMAIN t, NEW f, NEW type
  PROVE  /\ t[n] = Optional(f, type) => HasField(c, f, type, FALSE)
         /\ t[n] = Repeated(f, type) => HasField(c, f, type, TRUE)
BY RowIs DEF Optional, Repeated

LEMMA AnswerFields ==
  /\ \A c \in {"AckLogin", "AckCreateRole"} :
        /\ HasField(c, "errorCode", "int", FALSE)
        /\ HasField(c, "playerCount", "int", FALSE)
        /\ HasField(c, "playerInfoArray", "PlayerInfo", TRUE)
  /\ HasField("AckEnterGame", "errorCode", "int", FALSE)
  /\ HasField("AckEnterGame", "tmpId", "int", FALSE)
<1>1. ASSUME NEW c \in {"AckLogin", "AckCreateRole"}
      PROVE  /\ HasField(c, "errorCode", "int", FALSE)
             /\ HasField(c, "playerCount", "int", FALSE)
             /\ HasField(c, "playerInfoArray", "PlayerInfo", TRUE)
  <2>1. PICK t : t = Schema[c] /\ t = <<Whole("errorCode"), Whole("playerCount"),
                                        Repeated("playerInfoArray", "PlayerInfo"), Times>>
    BY LoginSchemas DEF AckLogin, AckCreateRole
  <2>2. DOMAIN t = 1 .. 4 /\ {1, 2, 3, 4} \subseteq DOMAIN t /\ t[1] = Whole("errorCode") /\ t[2] = Whole("playerCount")
        /\ t[3] = Repeated("playerInfoArray", "PlayerInfo")
    BY <2>1
  <2> QED
    BY <2>1, <2>2, WholeRow, TextRow, MessageRow
<1>2. PICK t : t = Schema["AckEnterGame"] /\ t = <<Whole("errorCode"), Whole("tmpId"), Times>>
  BY LoginSchemas DEF AckEnterGame
<1>3. DOMAIN t = 1 .. 3 /\ {1, 2, 3} \subseteq DOMAIN t /\ t[1] = Whole("errorCode") /\ t[2] = Whole("tmpId")
  BY <1>2
<1>4. HasField("AckEnterGame", "errorCode", "int", FALSE) /\ HasField("AckEnterGame", "tmpId", "int", FALSE)
  BY <1>2, <1>3, WholeRow, TextRow, MessageRow
<1> QED
  BY <1>1, <1>4

LEMMA PlayerFields ==
  /\ HasField("PlayerInfo", "playerName", "string", FALSE)
  /\ \A f \in {"playerLevel", "playerJob", "playerCountry", "playerOnlyId", "mapId", "lastLoginTime"} :
        HasField("PlayerInfo", f, "int", FALSE)
<1>1. PICK t : t = Schema["PlayerInfo"]
               /\ t = <<Text("playerName"), Whole("playerLevel"), Whole("playerJob"),
                        Whole("playerCountry"), Whole("playerOnlyId"), Whole("mapId"),
                        Whole("lastLoginTime")>>
  BY LoginSchemas DEF PlayerInfo
<1>2. /\ DOMAIN t = 1 .. 7 /\ {1, 2, 3, 4, 5, 6, 7} \subseteq DOMAIN t /\ t[1] = Text("playerName") /\ t[2] = Whole("playerLevel")
      /\ t[3] = Whole("playerJob") /\ t[4] = Whole("playerCountry") /\ t[5] = Whole("playerOnlyId")
      /\ t[6] = Whole("mapId") /\ t[7] = Whole("lastLoginTime")
  BY <1>1
<1> QED
  BY <1>1, <1>2, WholeRow, TextRow, MessageRow

LEMMA MoveFields ==
  /\ \A f \in {"mapId", "curx", "cury"} : HasField("MapLocation", f, "int", FALSE)
  /\ \A f \in {"errorCode", "pixelx", "pixely", "tmpId"} : HasField("AckMove", f, "int", FALSE)
  /\ HasField("AckMove", "location", "MapLocation", FALSE)
  /\ \A f \in {"dir", "curx", "cury", "pixelx", "pixely", "tmpId"} :
        HasField("MapAddObject", f, "int", FALSE)
  /\ HasField("MapDelObject", "tmpId", "int", FALSE)
<1>1. \A f \in {"mapId", "curx", "cury"} : HasField("MapLocation", f, "int", FALSE)
  <2>1. PICK t : t = Schema["MapLocation"] /\ t = <<Whole("mapId"), Whole("curx"), Whole("cury")>>
    BY MoveSchemas DEF MapLocation
  <2>2. DOMAIN t = 1 .. 3 /\ {1, 2, 3} \subseteq DOMAIN t /\ t[1] = Whole("mapId") /\ t[2] = Whole("curx") /\ t[3] = Whole("cury")
    BY <2>1
  <2> QED
    BY <2>1, <2>2, WholeRow, TextRow, MessageRow
<1>2. /\ \A f \in {"errorCode", "pixelx", "pixely", "tmpId"} : HasField("AckMove", f, "int", FALSE)
      /\ HasField("AckMove", "location", "MapLocation", FALSE)
  <2>1. PICK t : t = Schema["AckMove"]
                 /\ t = <<Whole("errorCode"), Whole("pixelx"), Whole("pixely"), Whole("tmpId"),
                          Optional("location", "MapLocation"), Times>>
    BY MoveSchemas DEF AckMove
  <2>2. /\ DOMAIN t = 1 .. 6 /\ {1, 2, 3, 4, 5, 6} \subseteq DOMAIN t /\ t[1] = Whole("errorCode") /\ t[2] = Whole("pixelx")
        /\ t[3] = Whole("pixely") /\ t[4] = Whole("tmpId") /\ t[5] = Optional("location", "MapLocation")
    BY <2>1
  <2> QED
    BY <2>1, <2>2, WholeRow, TextRow, MessageRow
<1>3. \A f \in {"dir", "curx", "cury", "pixelx", "pixely", "tmpId"} :
         HasField("MapAddObject", f, "int", FALSE)
  <2>1. PICK t : t = Schema["MapAddObject"]
                 /\ t = <<Whole("dir"), Whole("curx"), Whole("cury"), Whole("pixelx"), Whole("pixely"),
                          Whole("tmpId"), Times>>
    BY MoveSchemas DEF MapAddObject
  <2>2. /\ DOMAIN t = 1 .. 7 /\ {1, 2, 3, 4, 5, 6, 7} \subseteq DOMAIN t /\ t[1] = Whole("dir") /\ t[2] = Whole("curx") /\ t[3] = Whole("cury")
        /\ t[4] = Whole("pixelx") /\ t[5] = Whole("pixely") /\ t[6] = Whole("tmpId")
    BY <2>1
  <2> QED
    BY <2>1, <2>2, WholeRow, TextRow, MessageRow
<1>4. HasField("MapDelObject", "tmpId", "int", FALSE)
  <2>1. PICK t : t = Schema["MapDelObject"] /\ t = <<Whole("tmpId"), Times>>
    BY MoveSchemas DEF MapDelObject
  <2>2. DOMAIN t = 1 .. 2 /\ {1, 2} \subseteq DOMAIN t /\ t[1] = Whole("tmpId")
    BY <2>1
  <2> QED
    BY <2>1, <2>2, WholeRow, TextRow, MessageRow
<1> QED
  BY <1>1, <1>2, <1>3, <1>4

LEMMA ServerFields ==
  \A f \in {"checkCode", "serverId", "serverType"} : HasField("ReqLoginServer", f, "int", FALSE)
<1>1. PICK t : t = Schema["ReqLoginServer"] /\ t = <<Whole("checkCode"), Whole("serverId"), Whole("serverType")>>
  BY ServerSchemas DEF ReqLoginServer
<1>2. DOMAIN t = 1 .. 3 /\ {1, 2, 3} \subseteq DOMAIN t /\ t[1] = Whole("checkCode") /\ t[2] = Whole("serverId") /\ t[3] = Whole("serverType")
  BY <1>1
<1> QED
  BY <1>1, <1>2, WholeRow, TextRow, MessageRow

LEMMA RequestFields ==
  /\ HasField("ReqCreateRole", "playerName", "string", FALSE)
  /\ \A f \in {"playerJob", "playerCountry"} : HasField("ReqCreateRole", f, "int", FALSE)
  /\ HasField("ReqEnterGame", "playerOnlyId", "int", FALSE)
  /\ \A f \in {"curx", "cury", "pixelx", "pixely"} : HasField("ReqMove", f, "int", FALSE)
<1>1. /\ HasField("ReqCreateRole", "playerName", "string", FALSE)
      /\ \A f \in {"playerJob", "playerCountry"} : HasField("ReqCreateRole", f, "int", FALSE)
  <2>1. PICK t : t = Schema["ReqCreateRole"]
                 /\ t = <<Text("playerName"), Whole("playerJob"), Whole("playerCountry"), Times>>
    BY LoginSchemas DEF ReqCreateRole
  <2>2. DOMAIN t = 1 .. 4 /\ {1, 2, 3, 4} \subseteq DOMAIN t /\ t[1] = Text("playerName") /\ t[2] = Whole("playerJob") /\ t[3] = Whole("playerCountry")
    BY <2>1
  <2> QED
    BY <2>1, <2>2, WholeRow, TextRow, MessageRow
<1>2. HasField("ReqEnterGame", "playerOnlyId", "int", FALSE)
  <2>1. PICK t : t = Schema["ReqEnterGame"] /\ t = <<Whole("playerOnlyId"), Times>>
    BY LoginSchemas DEF ReqEnterGame
  <2>2. DOMAIN t = 1 .. 2 /\ {1, 2} \subseteq DOMAIN t /\ t[1] = Whole("playerOnlyId")
    BY <2>1
  <2> QED
    BY <2>1, <2>2, WholeRow, TextRow, MessageRow
<1>3. \A f \in {"curx", "cury", "pixelx", "pixely"} : HasField("ReqMove", f, "int", FALSE)
  <2>1. PICK t : t = Schema["ReqMove"]
                 /\ t = <<Whole("curx"), Whole("cury"), Whole("pixelx"), Whole("pixely"), Times>>
    BY MoveSchemas DEF ReqMove
  <2>2. /\ DOMAIN t = 1 .. 5 /\ {1, 2, 3, 4, 5} \subseteq DOMAIN t /\ t[1] = Whole("curx") /\ t[2] = Whole("cury")
        /\ t[3] = Whole("pixelx") /\ t[4] = Whole("pixely")
    BY <2>1
  <2> QED
    BY <2>1, <2>2, WholeRow, TextRow, MessageRow
<1> QED
  BY <1>1, <1>2, <1>3

\* What a message of a class holds.
LEMMA HoldsValue ==
  ASSUME NEW c, NEW m, OfClass(c, m), NEW f, NEW type, HasField(c, f, type, FALSE), IsSet(m, f)
  PROVE  /\ type = "int" => m[f] \in Int
         /\ type = "string" => m[f] \in STRING
<1>1. PICK n \in Number(c) : Schema[c][n] = [name |-> f, type |-> type, repeated |-> FALSE]
  BY DEF HasField
<1>2. PICK row, vs : row = Schema[c][n] /\ vs = Values(row, m)
  OBVIOUS
<1>3. row.name = f /\ row.type = type /\ row.repeated = FALSE
  BY <1>1, <1>2
<1>4. vs = <<m[f]>>
  BY <1>2, <1>3 DEF Values
<1>5. 1 \in DOMAIN vs /\ vs[1] = m[f]
  BY <1>4
<1>6. \A i \in DOMAIN vs :
         CASE row.type = "int"    -> vs[i] \in Int
           [] row.type = "string" -> vs[i] \in STRING
           [] OTHER               -> OfClass1(row.type, vs[i])
  BY <1>2 DEF OfClass, OfClassWith
<1> QED
  BY <1>3, <1>5, <1>6

LEMMA GetIntIs ==
  ASSUME NEW c, NEW m, OfClass(c, m), NEW f, HasField(c, f, "int", FALSE)
  PROVE  GetInt(m, f) \in Int
<1>1. CASE IsSet(m, f)
  BY <1>1, HoldsValue DEF GetInt
<1>2. CASE ~IsSet(m, f)
  BY <1>2 DEF GetInt
<1> QED
  BY <1>1, <1>2

LEMMA RoleInfoIs ==
  ASSUME NEW name \in STRING, NEW job \in Int, NEW country \in Int
  PROVE  OfClassAt(2, "PlayerInfo", RoleInfo(name, job, country))
<1>1. PICK m : m = RoleInfo(name, job, country)
  OBVIOUS
<1>2. /\ DOMAIN m = {"playerName", "playerLevel", "playerJob", "playerCountry", "playerOnlyId",
                     "lastLoginTime"}
      /\ m["playerName"] = name /\ m["playerLevel"] = 0 /\ m["playerJob"] = job
      /\ m["playerCountry"] = country /\ m["playerOnlyId"] = 3 /\ m["lastLoginTime"] = 0
  BY <1>1 DEF RoleInfo
<1>3. Maps(m, DOMAIN m)
  BY <1>1 DEF RoleInfo, Maps
<1>4. PICK l \in 1 .. 3 : l = 2
  OBVIOUS
<1>5. PICK c \in Class : c = "PlayerInfo"
  BY ClassesUsed
<1>6. HasField(c, "playerName", "string", FALSE)
  BY <1>5, PlayerFields
<1>7. \A f \in {"playerLevel", "playerJob", "playerCountry", "playerOnlyId", "lastLoginTime"} :
         HasField(c, f, "int", FALSE) /\ m[f] \in Int
  <2>1. ASSUME NEW f \in {"playerLevel", "playerJob", "playerCountry", "playerOnlyId", "lastLoginTime"}
        PROVE  HasField(c, f, "int", FALSE)
    BY <1>5, PlayerFields
  <2>2. ASSUME NEW f \in {"playerLevel", "playerJob", "playerCountry", "playerOnlyId", "lastLoginTime"}
        PROVE  m[f] \in Int
    BY <1>2
  <2> QED
    BY <2>1, <2>2
<1>8. ASSUME NEW f \in DOMAIN m PROVE Held(l, c, f, m[f])
  <2>1. CASE f = "playerName"
    BY <1>2, <1>6, <2>1, HeldText
  <2>2. CASE f # "playerName"
    BY <1>2, <1>7, <2>2, HeldNumber
  <2> QED
    BY <2>1, <2>2
<1> QED
  BY <1>1, <1>3, <1>4, <1>5, <1>8, OfClassHeld

\* A message of numbers only.
LEMMA NumbersOnly ==
  ASSUME NEW l \in 1 .. 3, NEW c \in Class, NEW m, Maps(m, DOMAIN m),
         \A f \in DOMAIN m : HasField(c, f, "int", FALSE) /\ m[f] \in Int
  PROVE  OfClassAt(l, c, m)
<1>1. ASSUME NEW f \in DOMAIN m PROVE Held(l, c, f, m[f])
  BY HeldNumber
<1> QED
  BY <1>1, OfClassHeld

LEMMA TopLevel ==
  ASSUME NEW c, NEW m
  PROVE  3 \in 1 .. 3 /\ (OfClassAt(3, c, m) <=> OfClass(c, m))
BY DEF OfClassAt

LEMMA RolesAre ==
  ASSUME NEW c \in {"AckLogin", "AckCreateRole"}, NEW role, OfClassAt(2, "PlayerInfo", role)
  PROVE  OfClass(c, Roles(<<role>>))
<1>1. PICK m, s : m = Roles(s) /\ s = <<role>>
  OBVIOUS
<1>2. /\ DOMAIN m = {"errorCode", "playerCount", "playerInfoArray"}
      /\ m["errorCode"] = 0 /\ m["playerCount"] = 1 /\ m["playerInfoArray"] = s
  BY <1>1 DEF Roles
<1>3. Maps(m, DOMAIN m)
  BY <1>1 DEF Roles, Maps
<1>4. PICK l \in 1 .. 3 : l = 3
  OBVIOUS
<1>5. c \in Class
  BY ClassesUsed
<1>6. /\ HasField(c, "errorCode", "int", FALSE) /\ HasField(c, "playerCount", "int", FALSE)
      /\ HasField(c, "playerInfoArray", "PlayerInfo", TRUE)
  BY AnswerFields
<1>7. ASSUME NEW f \in {"errorCode", "playerCount"} PROVE Held(l, c, f, m[f])
  <2>1. m[f] \in Int
    BY <1>2
  <2>2. HasField(c, f, "int", FALSE)
    BY <1>6
  <2> QED
    BY <2>1, <2>2, HeldNumber
<1>8. Held(l, c, "playerInfoArray", s)
  <2>1. ValueOK(l, "PlayerInfo", role)
    BY <1>4, 3 - 1 = 2 DEF ValueOK
  <2> QED
    BY <1>1, <1>6, <2>1, HeldOne
<1>9. ASSUME NEW f \in DOMAIN m PROVE Held(l, c, f, m[f])
  BY <1>2, <1>7, <1>8
<1>10. OfClassAt(l, c, m)
  BY <1>3, <1>5, <1>9, OfClassHeld
<1> QED
  BY <1>1, <1>4, <1>10, TopLevel

LEMMA NoRolesAre == OfClass("AckLogin", [errorCode |-> 0, playerCount |-> 0])
<1>1. PICK m : m = [errorCode |-> 0, playerCount |-> 0]
  OBVIOUS
<1>2. Maps(m, DOMAIN m) /\ DOMAIN m = {"errorCode", "playerCount"} /\ \A f \in DOMAIN m : m[f] \in Int
  BY <1>1 DEF Maps
<1>3. \A f \in DOMAIN m : HasField("AckLogin", f, "int", FALSE)
  BY <1>2, AnswerFields
<1>4. PICK c \in Class : c = "AckLogin"
  BY ClassesUsed
<1>5. PICK l \in 1 .. 3 : l = 3
  OBVIOUS
<1>6. OfClassAt(l, c, m)
  BY <1>2, <1>3, <1>4, NumbersOnly
<1> QED
  BY <1>1, <1>4, <1>5, <1>6, TopLevel

LEMMA EnteredIs ==
  ASSUME NEW id \in Int, NEW a \in {[errorCode |-> 0, tmpId |-> id], [errorCode |-> 1]}
  PROVE  OfClass("AckEnterGame", a)
<1>1. Maps(a, DOMAIN a) /\ DOMAIN a \subseteq {"errorCode", "tmpId"} /\ \A f \in DOMAIN a : a[f] \in Int
  BY DEF Maps
<1>2. \A f \in DOMAIN a : HasField("AckEnterGame", f, "int", FALSE)
  BY <1>1, AnswerFields
<1>3. PICK c \in Class : c = "AckEnterGame"
  BY ClassesUsed
<1>4. PICK l \in 1 .. 3 : l = 3
  OBVIOUS
<1>5. OfClassAt(l, c, a)
  BY <1>1, <1>2, <1>3, NumbersOnly
<1> QED
  BY <1>3, <1>4, <1>5, TopLevel

LEMMA AppearedIs == OfClass("MapAddObject", [tmpId |-> 4, curx |-> 2, cury |-> 0])
<1>1. PICK m : m = [tmpId |-> 4, curx |-> 2, cury |-> 0]
  OBVIOUS
<1>2. Maps(m, DOMAIN m) /\ DOMAIN m = {"tmpId", "curx", "cury"} /\ \A f \in DOMAIN m : m[f] \in Int
  BY <1>1 DEF Maps
<1>3. \A f \in DOMAIN m : HasField("MapAddObject", f, "int", FALSE)
  BY <1>2, MoveFields
<1>4. PICK c \in Class : c = "MapAddObject"
  BY ClassesUsed
<1>5. PICK l \in 1 .. 3 : l = 3
  OBVIOUS
<1>6. OfClassAt(l, c, m)
  BY <1>2, <1>3, <1>4, NumbersOnly
<1> QED
  BY <1>1, <1>4, <1>5, <1>6, TopLevel

LEMMA LeftIs == OfClass("MapDelObject", [tmpId |-> 4])
<1>1. PICK m : m = [tmpId |-> 4]
  OBVIOUS
<1>2. Maps(m, DOMAIN m) /\ DOMAIN m = {"tmpId"} /\ \A f \in DOMAIN m : m[f] \in Int
  BY <1>1 DEF Maps
<1>3. \A f \in DOMAIN m : HasField("MapDelObject", f, "int", FALSE)
  BY <1>2, MoveFields
<1>4. PICK c \in Class : c = "MapDelObject"
  BY ClassesUsed
<1>5. PICK l \in 1 .. 3 : l = 3
  OBVIOUS
<1>6. OfClassAt(l, c, m)
  BY <1>2, <1>3, <1>4, NumbersOnly
<1> QED
  BY <1>1, <1>4, <1>5, <1>6, TopLevel

LEMMA LocationIs ==
  ASSUME NEW map \in Int, NEW x \in Int, NEW y \in Int
  PROVE  OfClassAt(2, "MapLocation", Location(map, x, y))
<1>1. PICK m : m = Location(map, x, y)
  OBVIOUS
<1>2. Maps(m, DOMAIN m) /\ DOMAIN m = {"mapId", "curx", "cury"} /\ \A f \in DOMAIN m : m[f] \in Int
  BY <1>1 DEF Maps, Location
<1>3. \A f \in DOMAIN m : HasField("MapLocation", f, "int", FALSE)
  BY <1>2, MoveFields
<1>4. PICK c \in Class : c = "MapLocation"
  BY ClassesUsed
<1>5. PICK l \in 1 .. 3 : l = 2
  OBVIOUS
<1>6. OfClassAt(l, c, m)
  BY <1>2, <1>3, <1>4, NumbersOnly
<1> QED
  BY <1>1, <1>4, <1>5, <1>6

LEMMA MovedIs ==
  ASSUME NEW m, Maps(m, DOMAIN m),
         DOMAIN m \subseteq {"errorCode", "pixelx", "pixely", "tmpId", "location"},
         \A f \in DOMAIN m : f # "location" => m[f] \in Int,
         OfClassAt(2, "MapLocation", m["location"])
  PROVE  OfClass("AckMove", m)
<1>1. PICK c \in Class : c = "AckMove"
  BY ClassesUsed
<1>2. PICK l \in 1 .. 3 : l = 3
  OBVIOUS
<1>3. ASSUME NEW f \in DOMAIN m PROVE Held(l, c, f, m[f])
  <2>1. CASE f = "location"
    <3>1. ValueOK(l, "MapLocation", m[f])
      BY <1>2, <2>1, 3 - 1 = 2 DEF ValueOK
    <3>2. HasField(c, f, "MapLocation", FALSE)
      BY <1>1, <2>1, MoveFields
    <3> QED
      BY <3>1, <3>2, HeldValue
  <2>2. CASE f # "location"
    <3>1. f \in {"errorCode", "pixelx", "pixely", "tmpId"} /\ m[f] \in Int
      BY <2>2
    <3>2. HasField(c, f, "int", FALSE)
      BY <1>1, <3>1, MoveFields
    <3> QED
      BY <3>1, <3>2, HeldNumber
  <2> QED
    BY <2>1, <2>2
<1>4. OfClassAt(l, c, m)
  BY <1>3, OfClassHeld
<1> QED
  BY <1>1, <1>2, <1>4, TopLevel

\* The message a logic server logs in with, and what the gateway makes of it.
LoginMsg == [serverId |-> THIS_SERVER_ID, serverType |-> 1, checkCode |-> 9]

LEMMA LoginMsgIs == OfClass("ReqLoginServer", LoginMsg)
<1>1. PICK m : m = LoginMsg
  OBVIOUS
<1>2. /\ Maps(m, DOMAIN m) /\ DOMAIN m = {"serverId", "serverType", "checkCode"}
      /\ \A f \in DOMAIN m : m[f] \in Int
  BY <1>1 DEF Maps, LoginMsg, THIS_SERVER_ID
<1>3. \A f \in DOMAIN m : HasField("ReqLoginServer", f, "int", FALSE)
  BY <1>2, ServerFields
<1>4. PICK c \in Class : c = "ReqLoginServer"
  BY ClassesUsed
<1>5. PICK l \in 1 .. 3 : l = 3
  OBVIOUS
<1>6. OfClassAt(l, c, m)
  BY <1>2, <1>3, <1>4, NumbersOnly
<1> QED
  BY <1>1, <1>4, <1>5, <1>6, TopLevel

\* Bytes that a client can read under the command they go out with.
GoodAnswer(a) ==
    /\ IsSeq(a.data) /\ a.cmd \notin Echoes
    /\ a.class = AnswerClass(a.cmd) \/ a = MoveRefused

LEMMA GoodMeaning ==
  ASSUME NEW a, GoodAnswer(a)
  PROVE  Meaning(a) = [cmd |-> a.cmd, msg |-> Read(AnswerClass(a.cmd), a.data)]
<1>1. CASE a = MoveRefused
  <2>1. a.cmd = "DELOBJ_CMD"
    BY <1>1 DEF MoveRefused, Answer
  <2>2. AnswerClass(a.cmd) = "MapDelObject"
    BY <2>1 DEF AnswerClass
  <2> QED
    BY <1>1, <2>2 DEF Meaning
<1>2. CASE a # MoveRefused
  BY <1>2 DEF Meaning, GoodAnswer
<1> QED
  BY <1>1, <1>2

LEMMA AnswerIsGood ==
  ASSUME NEW cmd, cmd \notin Echoes, NEW c \in Class, NEW m, OfClass(c, m), NEW a, a = Answer(cmd, c, m),
         c = AnswerClass(cmd) \/ a = MoveRefused
  PROVE  GoodAnswer(a)
<1>1. IsSeq(Serialize(c, m))
  BY SizeIsAnnounced
<1>2. a.cmd = cmd /\ a.class = c /\ a.data = Serialize(c, m)
  BY DEF Answer
<1> QED
  BY <1>1, <1>2 DEF GoodAnswer

AllGood(as) == IsSeq(as) /\ \A i \in 1 .. Len(as) : GoodAnswer(as[i])

LEMMA GoodOne == ASSUME NEW a, GoodAnswer(a) PROVE AllGood(<<a>>)
<1>1. PICK s : s = <<a>> /\ IsSeq(s) /\ Len(s) = 1 /\ s[1] = a
  BY OneIsSeq
<1>2. ASSUME NEW i \in 1 .. Len(s) PROVE GoodAnswer(s[i])
  <2>1. i = 1
    BY <1>1
  <2> QED
    BY <1>1, <2>1
<1> QED
  BY <1>1, <1>2 DEF AllGood

LEMMA GoodTwo == ASSUME NEW a, NEW b, GoodAnswer(a), GoodAnswer(b) PROVE AllGood(<<a, b>>)
<1>1. PICK s : s = <<a, b>> /\ IsSeq(s) /\ Len(s) = 2 /\ s[1] = a /\ s[2] = b
  <2>1. <<a, b>> \in Seq({a, b})
    OBVIOUS
  <2>2. IsSeq(<<a, b>>)
    BY <2>1 DEF IsSeq
  <2>3. Len(<<a, b>>) = 2 /\ <<a, b>>[1] = a /\ <<a, b>>[2] = b
    OBVIOUS
  <2> QED
    BY <2>2, <2>3
<1>2. ASSUME NEW i \in 1 .. Len(s) PROVE GoodAnswer(s[i])
  <2>1. i = 1 \/ i = 2
    BY <1>1
  <2> QED
    BY <1>1, <2>1
<1> QED
  BY <1>1, <1>2 DEF AllGood

LEMMA GoodNone == AllGood(<< >>)
BY EmptyIsSeq DEF AllGood

\* The class of each of the logic server's answers.
LEMMA AnswerClassIs ==
  /\ AnswerClass("PRE_LOGIN_ACK") = "AckLogin"
  /\ AnswerClass("CREATE_ROLE_ACK") = "AckCreateRole"
  /\ AnswerClass("ENTER_GAME_ACK") = "AckEnterGame"
  /\ AnswerClass("MOVE_ACK") = "AckMove"
  /\ AnswerClass("ADDOBJ_CMD") = "MapAddObject"
  /\ AnswerClass("DELOBJ_CMD") = "MapDelObject"
  /\ AnswerClass("CHAT_CMD") = "Chat"
BY DEF AnswerClass, RequestClass

LEMMA PreLoginGood == ASSUME NEW as \in PreLoginAnswers PROVE AllGood(as)
<1>1. PICK c \in Class : c = "AckLogin"
  BY ClassesUsed
<1>2. PICK cmd : cmd = "PRE_LOGIN_ACK" /\ cmd \notin Echoes /\ c = AnswerClass(cmd)
  BY <1>1, AnswerClassIs DEF Echoes
<1>3. PICK m : OfClass(c, m) /\ as = <<Answer(cmd, c, m)>>
  <2>1. CASE as = <<Answer("PRE_LOGIN_ACK", "AckLogin", [errorCode |-> 0, playerCount |-> 0])>>
    BY <1>1, <1>2, <2>1, NoRolesAre
  <2>2. CASE as = <<Answer("PRE_LOGIN_ACK", "AckLogin", Roles(<<RoleInfo("ann", 1, 2)>>))>>
    <3>1. OfClassAt(2, "PlayerInfo", RoleInfo("ann", 1, 2))
      <4>1. PICK name \in STRING : name = "ann"
        BY TextAssumption
      <4>2. PICK job, country \in Int : job = 1 /\ country = 2
        OBVIOUS
      <4> QED
        BY <4>1, <4>2, RoleInfoIs
    <3>2. OfClass("AckLogin", Roles(<<RoleInfo("ann", 1, 2)>>))
      BY <3>1, RolesAre
    <3> QED
      BY <1>1, <1>2, <2>2, <3>2
  <2> QED
    BY <2>1, <2>2 DEF PreLoginAnswers
<1>4. GoodAnswer(Answer(cmd, c, m))
  BY <1>2, <1>3, AnswerIsGood
<1> QED
  BY <1>3, <1>4, GoodOne

LEMMA CreatePlayerGood ==
  ASSUME NEW m, OfClass("ReqCreateRole", m), NEW as \in CreatePlayerAnswers(m)
  PROVE  AllGood(as)
<1>1. PICK c \in Class : c = "AckCreateRole"
  BY ClassesUsed
<1>2. PICK cmd : cmd = "CREATE_ROLE_ACK" /\ cmd \notin Echoes /\ c = AnswerClass(cmd)
  BY <1>1, AnswerClassIs DEF Echoes
<1>3. PICK name : name = IF IsSet(m, "playerName") THEN m["playerName"] ELSE ""
  OBVIOUS
<1>4. name \in STRING
  <2>1. CASE IsSet(m, "playerName")
    BY <1>3, <2>1, RequestFields, HoldsValue
  <2>2. CASE ~IsSet(m, "playerName")
    BY <1>3, <2>2, TextAssumption
  <2> QED
    BY <2>1, <2>2
<1>5. PICK job, country \in Int : job = GetInt(m, "playerJob") /\ country = GetInt(m, "playerCountry")
  <2>1. HasField("ReqCreateRole", "playerJob", "int", FALSE) /\ HasField("ReqCreateRole", "playerCountry", "int", FALSE)
    BY RequestFields
  <2> QED
    BY <2>1, GetIntIs
<1>6. PICK x : x = Roles(<<RoleInfo(name, job, country)>>)
  OBVIOUS
<1>7. OfClass(c, x)
  <2>1. OfClassAt(2, "PlayerInfo", RoleInfo(name, job, country))
    BY <1>4, RoleInfoIs
  <2> QED
    BY <1>1, <1>6, <2>1, RolesAre
<1>8. as = <<Answer(cmd, c, x)>>
  BY <1>1, <1>2, <1>3, <1>5, <1>6 DEF CreatePlayerAnswers
<1>9. GoodAnswer(Answer(cmd, c, x))
  BY <1>2, <1>7, AnswerIsGood
<1> QED
  BY <1>8, <1>9, GoodOne

LEMMA EnterGameGood ==
  ASSUME NEW m, OfClass("ReqEnterGame", m), NEW as \in EnterGameAnswers(m)
  PROVE  AllGood(as)
<1>1. PICK c \in Class : c = "AckEnterGame"
  BY ClassesUsed
<1>2. PICK cmd : cmd = "ENTER_GAME_ACK" /\ cmd \notin Echoes /\ c = AnswerClass(cmd)
  BY <1>1, AnswerClassIs DEF Echoes
<1>3. PICK id \in Int : id = GetInt(m, "playerOnlyId")
  BY RequestFields, GetIntIs
<1>4. PICK a \in {[errorCode |-> 0, tmpId |-> id], [errorCode |-> 1]} : as = <<Answer(cmd, c, a)>>
  BY <1>1, <1>2, <1>3 DEF EnterGameAnswers
<1>5. OfClass(c, a)
  BY <1>1, EnteredIs
<1>6. GoodAnswer(Answer(cmd, c, a))
  BY <1>2, <1>5, AnswerIsGood
<1> QED
  BY <1>4, <1>6, GoodOne

LEMMA AppearedGood == GoodAnswer(Appeared)
<1>1. PICK c \in Class : c = "MapAddObject"
  BY ClassesUsed
<1>2. PICK cmd : cmd = "ADDOBJ_CMD" /\ cmd \notin Echoes /\ c = AnswerClass(cmd)
  BY <1>1, AnswerClassIs DEF Echoes
<1>3. PICK m : m = [tmpId |-> 4, curx |-> 2, cury |-> 0] /\ OfClass(c, m)
  BY <1>1, AppearedIs
<1>4. Appeared = Answer(cmd, c, m)
  BY <1>1, <1>2, <1>3 DEF Appeared
<1> QED
  BY <1>2, <1>3, <1>4, AnswerIsGood

LEMMA LeftGood == GoodAnswer(Left)
<1>1. PICK c \in Class : c = "MapDelObject"
  BY ClassesUsed
<1>2. PICK cmd : cmd = "DELOBJ_CMD" /\ cmd \notin Echoes /\ c = AnswerClass(cmd)
  BY <1>1, AnswerClassIs DEF Echoes
<1>3. PICK m : m = [tmpId |-> 4] /\ OfClass(c, m)
  BY <1>1, LeftIs
<1>4. Left = Answer(cmd, c, m)
  BY <1>1, <1>2, <1>3 DEF Left
<1> QED
  BY <1>2, <1>3, <1>4, AnswerIsGood

LEMMA MovedGood ==
  ASSUME NEW m, OfClass("ReqMove", m)
  PROVE  GoodAnswer(Moved(m))
<1>1. PICK c \in Class : c = "AckMove"
  BY ClassesUsed
<1>2. PICK cmd : cmd = "MOVE_ACK" /\ cmd \notin Echoes /\ c = AnswerClass(cmd)
  BY <1>1, AnswerClassIs DEF Echoes
<1>3. PICK x, y, u, v \in Int : /\ u = GetInt(m, "pixelx") /\ v = GetInt(m, "pixely")
                                /\ x = GetInt(m, "curx") /\ y = GetInt(m, "cury")
  <2>1. \A f \in {"curx", "cury", "pixelx", "pixely"} : GetInt(m, f) \in Int
    BY RequestFields, GetIntIs
  <2> QED
    BY <2>1
<1>4. PICK a, loc : /\ loc = Location(1, x, y)
                    /\ a = [errorCode |-> 0, tmpId |-> 3, pixelx |-> u, pixely |-> v, location |-> loc]
  OBVIOUS
<1>5. OfClassAt(2, "MapLocation", loc)
  BY <1>4, LocationIs, 1 \in Int
<1>6. /\ Maps(a, DOMAIN a)
      /\ DOMAIN a \subseteq {"errorCode", "pixelx", "pixely", "tmpId", "location"}
      /\ \A f \in DOMAIN a : f # "location" => a[f] \in Int
      /\ a["location"] = loc
  BY <1>4 DEF Maps
<1>7. OfClass(c, a)
  BY <1>1, <1>5, <1>6, MovedIs
<1>8. Moved(m) = Answer(cmd, c, a)
  BY <1>1, <1>2, <1>3, <1>4 DEF Moved
<1> QED
  BY <1>2, <1>7, <1>8, AnswerIsGood

LEMMA MoveRefusedGood == GoodAnswer(MoveRefused)
<1>1. PICK c \in Class : c = "AckMove"
  BY ClassesUsed
<1>2. PICK cmd : cmd = "DELOBJ_CMD" /\ cmd \notin Echoes
  BY DEF Echoes
<1>4. PICK a, loc : /\ loc = Location(0, 0, 0) /\ a = [errorCode |-> 0, tmpId |-> 0, location |-> loc]
  OBVIOUS
<1>5. OfClassAt(2, "MapLocation", loc)
  BY <1>4, LocationIs, 0 \in Int
<1>6. /\ Maps(a, DOMAIN a)
      /\ DOMAIN a \subseteq {"errorCode", "pixelx", "pixely", "tmpId", "location"}
      /\ \A f \in DOMAIN a : f # "location" => a[f] \in Int
      /\ a["location"] = loc
  BY <1>4 DEF Maps
<1>7. OfClass(c, a)
  BY <1>1, <1>5, <1>6, MovedIs
<1>8. MoveRefused = Answer(cmd, c, a)
  BY <1>1, <1>2, <1>4 DEF MoveRefused
<1> QED
  BY <1>2, <1>7, <1>8, AnswerIsGood

LEMMA ChatGood ==
  ASSUME NEW data, IsSeq(data), NEW as \in ChatAnswers(data)
  PROVE  AllGood(as)
<1>1. CASE as = << >>
  BY <1>1, GoodNone
<1>2. CASE as # << >>
  <2>1. PICK a : a = [cmd |-> "CHAT_CMD", class |-> "Chat", data |-> data] /\ as = <<a>>
    BY <1>2 DEF ChatAnswers
  <2>2. a.cmd = "CHAT_CMD" /\ a.class = "Chat" /\ a.data = data
    BY <2>1
  <2>3. GoodAnswer(a)
    BY <2>2, AnswerClassIs DEF GoodAnswer, Echoes
  <2> QED
    BY <2>1, <2>3, GoodOne
<1> QED
  BY <1>1, <1>2

LEMMA AnswersAreGood ==
  ASSUME NEW cmd, NEW data, IsSeq(data), NEW m, OfClass(RequestClass(cmd), m),
         NEW as \in Answers(cmd, m, data)
  PROVE  AllGood(as)
<1>1. CASE cmd = "PRE_LOGIN_CMD"
  <2>1. as \in PreLoginAnswers
    BY <1>1 DEF Answers
  <2> QED
    BY <2>1, PreLoginGood
<1>2. CASE cmd = "CREATE_ROLE_CMD"
  <2>1. as \in CreatePlayerAnswers(m) /\ RequestClass(cmd) = "ReqCreateRole"
    BY <1>2 DEF Answers, RequestClass
  <2> QED
    BY <2>1, CreatePlayerGood
<1>3. CASE cmd = "ENTER_GAME_CMD"
  <2>1. as \in EnterGameAnswers(m) /\ RequestClass(cmd) = "ReqEnterGame"
    BY <1>3 DEF Answers, RequestClass
  <2> QED
    BY <2>1, EnterGameGood
<1>4. CASE cmd = "CLIENT_READY_CMD"
  <2>1. as = << >> \/ as = <<Appeared>>
    BY <1>4 DEF Answers
  <2> QED
    BY <2>1, GoodNone, GoodOne, AppearedGood
<1>5. CASE cmd = "MOVE_CMD"
  <2>1. as = <<Left, Moved(m)>> \/ as = <<Moved(m), Appeared>> \/ as = <<MoveRefused>>
    BY <1>5 DEF Answers
  <2>2. RequestClass(cmd) = "ReqMove"
    BY <1>5 DEF RequestClass
  <2>3. GoodAnswer(Moved(m))
    BY <2>2, MovedGood
  <2> QED
    BY <2>1, <2>3, GoodOne, GoodTwo, AppearedGood, LeftGood, MoveRefusedGood
<1>6. CASE cmd = "CHAT_CMD"
  <2>1. as \in ChatAnswers(data)
    BY <1>6 DEF Answers
  <2> QED
    BY <2>1, ChatGood
<1>7. CASE cmd = "USERLOGIN_CMD"
  <2>1. as = << >> \/ as = <<Left>>
    BY <1>7 DEF Answers
  <2> QED
    BY <2>1, GoodNone, GoodOne, LeftGood
<1>8. CASE cmd \notin {"PRE_LOGIN_CMD", "CREATE_ROLE_CMD", "ENTER_GAME_CMD", "CLIENT_READY_CMD",
                       "MOVE_CMD", "CHAT_CMD", "USERLOGIN_CMD"}
  <2>1. as = << >>
    BY <1>8 DEF Answers
  <2> QED
    BY <2>1, GoodNone
<1> QED
  BY <1>1, <1>2, <1>3, <1>4, <1>5, <1>6, <1>7, <1>8

\* The answers are sent together.
Wrapped(ws, as, server) ==
    ws = [i \in DOMAIN as |-> Wrap("TRANSIT_ACK", server, User, Packet(as[i].cmd, as[i].data))]

LEMMA AnswersAreSent ==
  ASSUME NEW as, AllGood(as), NEW server, NEW ws, Wrapped(ws, as, server)
  PROVE  /\ Packets(ws) /\ Len(ws) = Len(as)
         /\ \A i \in 1 .. Len(as) : IsAnswered(ws[i], as[i])
<1>1. PICK n \in Nat : n = Len(as) /\ DOMAIN as = 1 .. n
  BY SeqElim DEF AllGood
<1>2. ASSUME NEW i \in 1 .. n PROVE IsAnswered(ws[i], as[i]) /\ IsPacket(ws[i])
  <2>1. PICK a, p, w : a = as[i] /\ p = Packet(a.cmd, a.data) /\ w = Wrap("TRANSIT_ACK", server, User, p)
    OBVIOUS
  <2>2. ws[i] = w
    BY <1>1, <2>1 DEF Wrapped
  <2>3. GoodAnswer(a)
    BY <1>1, <2>1 DEF AllGood
  <2>4. IsPacket(p) /\ Cmd(p) = a.cmd /\ Data(p) = a.data
    BY <2>1, <2>3, PacketIsPacket, PacketIsRead DEF GoodAnswer
  <2>5. IsWrap(w, "TRANSIT_ACK", User, p)
    BY <2>1, <2>4, WrapIs
  <2>6. IsAnswer(p, a)
    BY <2>3, <2>4, GoodMeaning DEF IsAnswer, GoodAnswer
  <2> QED
    BY <2>1, <2>2, <2>5, <2>6 DEF IsAnswered, IsWrap
<1>3. ws = [i \in 1 .. n |-> ws[i]]
  BY <1>1 DEF Wrapped
<1>4. IsSeq(ws) /\ Len(ws) = n
  BY <1>3, SeqIntro
<1> QED
  BY <1>1, <1>2, <1>4 DEF Packets

\* Serialize looks at the table of the class, not at its name.
FieldsIn(table, m) ==
    FlattenSeq([n \in DOMAIN table |->
        LET vs == Values(table[n], m)
        IN  [i \in DOMAIN vs |-> [number |-> n, type |-> table[n].type, value |-> vs[i]]]])

WrittenFields(fs, m) ==
    FlattenSeq([i \in DOMAIN fs |->
        FieldCells(fs[i], ByteSize1(fs[i].type, fs[i].value), Serialize1(fs[i].type, fs[i].value))])
    \o List(m, "unknown")

LEMMA SerializeByTable ==
  ASSUME NEW c, NEW d, Schema[c] = Schema[d], NEW m
  PROVE  Serialize(c, m) = Serialize(d, m)
<1>1. ASSUME NEW e PROVE Fields(e, m) = FieldsIn(Schema[e], m)
  BY DEF Fields, Numbered, FieldsIn, Number
<1>2. ASSUME NEW e PROVE Serialize(e, m) = WrittenFields(Fields(e, m), m)
  BY DEF Serialize, WriteWith, AllCells, WrittenFields
<1>3. Fields(c, m) = Fields(d, m)
  BY <1>1
<1> QED
  BY <1>2, <1>3

\* The gateway reads the login of the logic server.
IsLogin(w) ==
    IsPacket(w) /\ Cmd(w) = "SVRLOGIN_CMD" /\ Read("ReqLoginServer", Data(Inner(w))) = LoginMsg

LEMMA LoginIs ==
  IsLogin(Wrap("SVRLOGIN_CMD", 1, 0, Packet("SVRLOGIN_CMD", Serialize("AckLoginServer", LoginMsg))))
<1>1. PICK c \in Class : c = "ReqLoginServer"
  BY ClassesUsed
<1>2. PICK d, p, w : /\ d = Serialize("AckLoginServer", LoginMsg) /\ p = Packet("SVRLOGIN_CMD", d)
                     /\ w = Wrap("SVRLOGIN_CMD", 1, 0, p)
  OBVIOUS
<1>3. OfClass(c, LoginMsg)
  BY <1>1, LoginMsgIs
<1>4. d = Serialize(c, LoginMsg)
  BY <1>1, <1>2, ServerSchemas, SerializeByTable
<1>5. IsSeq(d)
  BY <1>3, <1>4, SizeIsAnnounced
<1>6. IsPacket(p) /\ Data(p) = d
  BY <1>2, <1>5, PacketIsPacket, PacketIsRead
<1>7. IsPacket(w) /\ Cmd(w) = "SVRLOGIN_CMD" /\ Inner(w) = p
  BY <1>2, <1>6, WrapIsUndone
<1>8. ParseFromArray(c, d) = [ok |-> TRUE, msg |-> LoginMsg, at |-> ByteSize(c, LoginMsg)]
  BY <1>3, <1>4, MessageIsReadBack
<1>9. Read(c, d) = LoginMsg
  BY <1>8 DEF Read
<1> QED
  BY <1>1, <1>2, <1>6, <1>7, <1>9 DEF IsLogin

\* What the gateway sends then.
IsLoginAck(w) == IsPacket(w) /\ Cmd(w) = "SVRLOGIN_ACK"

LEMMA LoginAckIs ==
  ASSUME NEW m, m = LoginMsg
  PROVE  /\ GetInt(m, "serverId") = THIS_SERVER_ID
         /\ LET ack == [checkCode |-> GetInt(m, "checkCode"), serverId |-> GetInt(m, "serverId"),
                        serverType |-> GetInt(m, "serverType")]
            IN  IsLoginAck(Wrap("SVRLOGIN_ACK", 1, 0,
                                Packet("SVRLOGIN_ACK", Serialize("AckLoginServer", ack))))
<1>1. /\ GetInt(m, "serverId") = THIS_SERVER_ID /\ GetInt(m, "serverType") = 1
      /\ GetInt(m, "checkCode") = 9
  BY DEF LoginMsg, GetInt, IsSet
<1>2. PICK ack : ack = [checkCode |-> GetInt(m, "checkCode"), serverId |-> GetInt(m, "serverId"),
                        serverType |-> GetInt(m, "serverType")]
  OBVIOUS
<1>3. ack = LoginMsg
  BY <1>1, <1>2 DEF LoginMsg
<1>4. PICK c \in Class : c = "ReqLoginServer"
  BY ClassesUsed
<1>5. PICK d, p, w : /\ d = Serialize("AckLoginServer", ack) /\ p = Packet("SVRLOGIN_ACK", d)
                     /\ w = Wrap("SVRLOGIN_ACK", 1, 0, p)
  OBVIOUS
<1>6. d = Serialize(c, LoginMsg)
  BY <1>3, <1>4, <1>5, ServerSchemas, SerializeByTable
<1>7. IsSeq(d)
  BY <1>4, <1>6, LoginMsgIs, SizeIsAnnounced
<1>8. IsPacket(p)
  BY <1>5, <1>7, PacketIsPacket
<1>9. IsLoginAck(w)
  BY <1>5, <1>8, WrapIsUndone DEF IsLoginAck
<1> QED
  BY <1>1, <1>2, <1>5, <1>9

-----------------------------------------------------------------------------
(* The packets to the client: requests that are sent back among answers.   *)

\* A packet is the next of one of the two.
Tells(p, r, a, e, f, t, u) ==
    \/ f = e + 1 /\ u = t /\ IsEcho(p, r[f])
    \/ f = e /\ u = t + 1 /\ IsAnswer(p, a[u])

\* E and T count what has been told of r and of a behind every packet of q.
Counts(E, T, q, r, a, e, t, n) ==
    /\ E[0] = e /\ T[0] = t /\ E[Len(q)] = Len(r) /\ T[Len(q)] = n
    /\ \A k \in 0 .. Len(q) : E[k] \in 0 .. Len(r) /\ T[k] \in 0 .. Len(a)
    /\ \A k \in 0 .. Len(q) : k # Len(q) => Tells(q[k + 1], r, a, E[k], E[k + 1], T[k], T[k + 1])

\* The packets q are those of r after the first e and those of a after the first t and up
\* to the nth, each in their order.
Telling(q, r, a, e, t, n) ==
    /\ IsSeq(q) /\ IsSeq(r) /\ IsSeq(a)
    /\ \E E, T : Counts(E, T, q, r, a, e, t, n)

LEMMA TellNothing == Telling(<< >>, << >>, << >>, 0, 0, 0)
<1>1. PICK q, r, a : q = << >> /\ r = << >> /\ a = << >>
  OBVIOUS
<1>2. IsSeq(q) /\ IsSeq(r) /\ IsSeq(a) /\ Len(q) = 0 /\ Len(r) = 0 /\ Len(a) = 0
  BY <1>1, EmptyIsSeq
<1>3. PICK E : E = [k \in {0} |-> 0]
  OBVIOUS
<1>4. E[0] = 0
  BY <1>3
<1>5. Counts(E, E, q, r, a, 0, 0, 0)
  BY <1>2, <1>4 DEF Counts
<1> QED
  BY <1>1, <1>2, <1>5 DEF Telling

LEMMA TellingRanges ==
  ASSUME NEW q, NEW r, NEW a, NEW e, NEW t, NEW n, Telling(q, r, a, e, t, n)
  PROVE  e \in 0 .. Len(r) /\ t \in 0 .. Len(a) /\ n \in 0 .. Len(a)
<1>1. PICK E, T : Counts(E, T, q, r, a, e, t, n)
  BY DEF Telling
<1>2. PICK k \in Nat : k = Len(q)
  BY SeqElim DEF Telling
<1>3. 0 \in 0 .. Len(q) /\ Len(q) \in 0 .. Len(q)
  BY <1>2
<1> QED
  BY <1>1, <1>3 DEF Counts

\* What is told already is not changed by what comes.
LEMMA TellsMore ==
  ASSUME NEW p, NEW r, NEW a, NEW e \in Nat, NEW f \in 0 .. Len(r), NEW t \in Nat, NEW u \in 0 .. Len(a),
         IsSeq(r), IsSeq(a), Tells(p, r, a, e, f, t, u), NEW rs, NEW as, IsSeq(rs), IsSeq(as)
  PROVE  Tells(p, r \o rs, a \o as, e, f, t, u)
<1>1. PICK x, y \in Nat : x = Len(r) /\ y = Len(a)
  BY SeqElim
<1>2. CASE f = e + 1 /\ u = t /\ IsEcho(p, r[f])
  <2>1. f \in 1 .. Len(r)
    BY <1>1, <1>2
  <2>2. (r \o rs)[f] = r[f]
    BY <2>1, CatFacts
  <2> QED
    BY <1>2, <2>2 DEF Tells
<1>3. CASE f = e /\ u = t + 1 /\ IsAnswer(p, a[u])
  <2>1. u \in 1 .. Len(a)
    BY <1>1, <1>3
  <2>2. (a \o as)[u] = a[u]
    BY <2>1, CatFacts
  <2> QED
    BY <1>3, <2>2 DEF Tells
<1> QED
  BY <1>2, <1>3 DEF Tells

LEMMA TellingMore ==
  ASSUME NEW q, NEW r, NEW a, NEW e, NEW t, NEW n, Telling(q, r, a, e, t, n), NEW as, IsSeq(as)
  PROVE  Telling(q, r, a \o as, e, t, n)
<1>1. PICK E, T : Counts(E, T, q, r, a, e, t, n)
  BY DEF Telling
<1>2. PICK z, x, y, h \in Nat : z = Len(q) /\ x = Len(r) /\ y = Len(a) /\ h = Len(as)
  BY SeqElim DEF Telling
<1>3. PICK b : b = a \o as
  OBVIOUS
<1>4. IsSeq(b) /\ Len(b) = y + h
  BY <1>2, <1>3, CatFacts DEF Telling
<1>5. PICK none : none = << >> /\ IsSeq(none) /\ r \o none = r
  BY EmptyIsSeq, CatEmpty DEF Telling
<1>6. ASSUME NEW k \in 0 .. z PROVE E[k] \in 0 .. x /\ T[k] \in 0 .. y /\ T[k] \in 0 .. y + h
  <2>1. E[k] \in 0 .. x /\ T[k] \in 0 .. y
    BY <1>1, <1>2 DEF Counts
  <2> QED
    BY <2>1
<1>7. ASSUME NEW k \in 0 .. z, k # z PROVE Tells(q[k + 1], r, b, E[k], E[k + 1], T[k], T[k + 1])
  <2>1. PICK i : i = k + 1 /\ i \in 0 .. z
    BY <1>7
  <2>2. Tells(q[i], r, a, E[k], E[i], T[k], T[i])
    BY <1>1, <1>2, <1>7, <2>1 DEF Counts
  <2>3. E[k] \in Nat /\ T[k] \in Nat /\ E[i] \in 0 .. Len(r) /\ T[i] \in 0 .. Len(a)
    <3>1. E[k] \in 0 .. x /\ T[k] \in 0 .. y
      BY <1>6
    <3>2. E[i] \in 0 .. x /\ T[i] \in 0 .. y
      BY <1>6, <2>1
    <3> QED
      BY <1>2, <3>1, <3>2
  <2>4. IsSeq(r) /\ IsSeq(a)
    BY DEF Telling
  <2>5. Tells(q[i], r \o none, a \o as, E[k], E[i], T[k], T[i])
    BY <1>5, <2>2, <2>3, <2>4, TellsMore
  <2> QED
    BY <1>3, <1>5, <2>1, <2>5
<1>8. Counts(E, T, q, r, b, e, t, n)
  BY <1>1, <1>2, <1>4, <1>6, <1>7 DEF Counts
<1> QED
  BY <1>3, <1>4, <1>8 DEF Telling

\* One more packet.
LEMMA TellingOne ==
  ASSUME NEW q, NEW r, NEW a, NEW e, NEW t, NEW n, Telling(q, r, a, e, t, n),
         NEW p, NEW rs, IsSeq(rs), NEW f, f = Len(r) + Len(rs), NEW u \in 0 .. Len(a),
         Tells(p, r \o rs, a, Len(r), f, n, u)
  PROVE  Telling(q \o <<p>>, r \o rs, a, e, t, u)
<1>1. PICK E, T : Counts(E, T, q, r, a, e, t, n)
  BY DEF Telling
<1>2. PICK z, x, y, h \in Nat : z = Len(q) /\ x = Len(r) /\ y = Len(a) /\ h = Len(rs)
  BY SeqElim DEF Telling
<1>3. PICK s, qq : s = r \o rs /\ qq = Append(q, p)
  OBVIOUS
<1>4. qq = q \o <<p>> /\ IsSeq(qq) /\ Len(qq) = z + 1 /\ (\A i \in 1 .. z : qq[i] = q[i]) /\ qq[z + 1] = p
  BY <1>2, <1>3, AppendIsCat, AppendFacts DEF Telling
<1>5. IsSeq(s) /\ Len(s) = x + h /\ f = x + h
  BY <1>2, <1>3, CatFacts DEF Telling
<1>6. PICK none : none = << >> /\ IsSeq(none) /\ a \o none = a
  BY EmptyIsSeq, CatEmpty DEF Telling
<1>7. PICK F, U : /\ F = [k \in 0 .. z + 1 |-> IF k = z + 1 THEN f ELSE E[k]]
                  /\ U = [k \in 0 .. z + 1 |-> IF k = z + 1 THEN u ELSE T[k]]
  OBVIOUS
<1>8. F[z + 1] = f /\ U[z + 1] = u /\ \A k \in 0 .. z : F[k] = E[k] /\ U[k] = T[k]
  BY <1>7
<1>9. ASSUME NEW k \in 0 .. z PROVE E[k] \in 0 .. x /\ T[k] \in 0 .. y
  BY <1>1, <1>2 DEF Counts
<1>10. ASSUME NEW k \in 0 .. z + 1 PROVE F[k] \in 0 .. x + h /\ U[k] \in 0 .. y
  <2>1. CASE k = z + 1
    BY <1>2, <1>5, <1>8, <2>1
  <2>2. CASE k # z + 1
    <3>1. k \in 0 .. z
      BY <2>2
    <3>2. E[k] \in 0 .. x /\ T[k] \in 0 .. y
      BY <1>9, <3>1
    <3> QED
      BY <1>8, <3>1, <3>2, SMTT(30)
  <2> QED
    BY <2>1, <2>2
<1>11. ASSUME NEW k \in 0 .. z + 1, k # z + 1
       PROVE  Tells(qq[k + 1], s, a, F[k], F[k + 1], U[k], U[k + 1])
  <2>1. CASE k = z
    <3>1. F[k] = x /\ U[k] = n
      BY <1>1, <1>2, <1>8, <2>1 DEF Counts
    <3>2. Tells(p, s, a, x, f, n, u)
      BY <1>2, <1>3
    <3> QED
      BY <1>4, <1>8, <2>1, <3>1, <3>2
  <2>2. CASE k # z
    <3>1. PICK i : i = k + 1 /\ i \in 1 .. z /\ i \in 0 .. z /\ k \in 0 .. z
      BY <1>11, <2>2
    <3>2. Tells(q[i], r, a, E[k], E[i], T[k], T[i])
      BY <1>1, <1>2, <2>2, <3>1 DEF Counts
    <3>3. E[k] \in Nat /\ T[k] \in Nat /\ E[i] \in 0 .. Len(r) /\ T[i] \in 0 .. Len(a)
      BY <1>2, <1>9, <3>1
    <3>4. IsSeq(r) /\ IsSeq(a)
      BY DEF Telling
    <3>5. Tells(q[i], r \o rs, a \o none, E[k], E[i], T[k], T[i])
      BY <1>6, <3>2, <3>3, <3>4, TellsMore
    <3>6. qq[i] = q[i] /\ F[k] = E[k] /\ F[i] = E[i] /\ U[k] = T[k] /\ U[i] = T[i]
      BY <1>4, <1>8, <3>1
    <3> QED
      BY <1>3, <1>6, <3>1, <3>5, <3>6
  <2> QED
    BY <2>1, <2>2
<1>12. F[0] = e /\ U[0] = t
  <2>1. 0 \in 0 .. z
    BY <1>2
  <2> QED
    BY <1>1, <1>8, <2>1 DEF Counts
<1>13. Counts(F, U, qq, s, a, e, t, u)
  BY <1>2, <1>4, <1>5, <1>8, <1>10, <1>11, <1>12 DEF Counts
<1> QED
  BY <1>3, <1>4, <1>5, <1>13 DEF Telling

LEMMA TellingEcho ==
  ASSUME NEW q, NEW r, NEW a, NEW e, NEW t, NEW n, Telling(q, r, a, e, t, n), NEW p, NEW x, IsEcho(p, x)
  PROVE  Telling(q \o <<p>>, Append(r, x), a, e, t, n)
<1>1. PICK rs : rs = <<x>> /\ IsSeq(rs) /\ Len(rs) = 1
  BY OneIsSeq
<1>2. PICK y \in Nat : y = Len(r)
  BY SeqElim DEF Telling
<1>3. PICK s, f : s = Append(r, x) /\ f = y + 1
  OBVIOUS
<1>4. s[f] = x /\ s = r \o rs
  BY <1>1, <1>2, <1>3, AppendFacts, AppendIsCat DEF Telling
<1>5. Tells(p, s, a, y, f, n, n)
  BY <1>3, <1>4 DEF Tells
<1>6. n \in 0 .. Len(a)
  BY TellingRanges
<1>7. Telling(q \o <<p>>, r \o rs, a, e, t, n)
  BY <1>1, <1>2, <1>3, <1>4, <1>5, <1>6, TellingOne
<1> QED
  BY <1>3, <1>4, <1>7

LEMMA TellingAnswer ==
  ASSUME NEW q, NEW r, NEW a, NEW e, NEW t, NEW n, Telling(q, r, a, e, t, n), NEW p,
         n + 1 <= Len(a), IsAnswer(p, a[n + 1])
  PROVE  Telling(q \o <<p>>, r, a, e, t, n + 1)
<1>1. PICK none : none = << >> /\ IsSeq(none) /\ Len(none) = 0 /\ r \o none = r
  BY EmptyIsSeq, CatEmpty DEF Telling
<1>2. PICK y, z \in Nat : y = Len(r) /\ z = Len(a)
  BY SeqElim DEF Telling
<1>3. PICK u : u = n + 1 /\ u \in 0 .. Len(a)
  BY <1>2, TellingRanges
<1>4. y = Len(r) + Len(none)
  BY <1>1, <1>2
<1>5. Tells(p, r \o none, a, y, y, n, u)
  BY <1>1, <1>3 DEF Tells
<1>6. Telling(q \o <<p>>, r \o none, a, e, t, u)
  BY <1>1, <1>2, <1>3, <1>4, <1>5, TellingOne
<1> QED
  BY <1>1, <1>3, <1>6

\* The client takes up the first.
LEMMA TellingTake ==
  ASSUME NEW q, NEW r, NEW a, NEW e, NEW t, NEW n, Telling(q, r, a, e, t, n), q # << >>
  PROVE  \/ /\ e + 1 <= Len(r) /\ IsEcho(q[1], r[e + 1])
            /\ Telling(Tail(q), r, a, e + 1, t, n)
         \/ /\ t + 1 <= Len(a) /\ IsAnswer(q[1], a[t + 1])
            /\ Telling(Tail(q), r, a, e, t + 1, n)
<1>1. PICK E, T : Counts(E, T, q, r, a, e, t, n)
  BY DEF Telling
<1>2. PICK x, y \in Nat : x = Len(r) /\ y = Len(a)
  BY SeqElim DEF Telling
<1>3. PICK z \in Nat : z + 1 = Len(q)
  <2>1. Len(q) \in Nat \ {0}
    BY HeadTailFacts DEF Telling
  <2>2. Len(q) - 1 \in Nat /\ (Len(q) - 1) + 1 = Len(q)
    BY <2>1
  <2> QED
    BY <2>2
<1>4. PICK s : s = Tail(q) /\ IsSeq(s) /\ Len(s) = z /\ \A i \in 1 .. z : s[i] = q[i + 1]
  <2>1. Len(q) - 1 = z
    BY <1>3
  <2> QED
    BY <2>1, HeadTailFacts DEF Telling
<1>5. ASSUME NEW k \in 0 .. z + 1 PROVE E[k] \in 0 .. x /\ T[k] \in 0 .. y
  BY <1>1, <1>2, <1>3 DEF Counts
<1>6. ASSUME NEW k \in 0 .. z PROVE Tells(q[k + 1], r, a, E[k], E[k + 1], T[k], T[k + 1])
  <2>1. k \in 0 .. Len(q) /\ k # Len(q)
    BY <1>3
  <2> QED
    BY <1>1, <2>1 DEF Counts
<1>7. PICK F, U : F = [k \in 0 .. z |-> E[k + 1]] /\ U = [k \in 0 .. z |-> T[k + 1]]
  OBVIOUS
<1>8. PICK f, u : f = E[1] /\ u = T[1]
  OBVIOUS
<1>9. F[0] = f /\ U[0] = u /\ F[z] = x /\ U[z] = n
  <2>1. F[0] = f /\ U[0] = u /\ F[z] = E[z + 1] /\ U[z] = T[z + 1]
    BY <1>7, <1>8
  <2> QED
    BY <1>1, <1>2, <1>3, <2>1 DEF Counts
<1>10. ASSUME NEW k \in 0 .. z PROVE F[k] \in 0 .. x /\ U[k] \in 0 .. y
  <2>1. PICK i : i = k + 1 /\ i \in 0 .. z + 1
    OBVIOUS
  <2>2. F[k] = E[i] /\ U[k] = T[i]
    BY <1>7, <2>1
  <2> QED
    BY <1>5, <2>1, <2>2
<1>11. ASSUME NEW k \in 0 .. z, k # z PROVE Tells(s[k + 1], r, a, F[k], F[k + 1], U[k], U[k + 1])
  <2>1. PICK i : i = k + 1 /\ i \in 0 .. z /\ i \in 1 .. z
    BY <1>11
  <2>2. Tells(q[i + 1], r, a, E[i], E[i + 1], T[i], T[i + 1])
    BY <1>6, <2>1
  <2>3. s[i] = q[i + 1] /\ F[k] = E[i] /\ F[i] = E[i + 1] /\ U[k] = T[i] /\ U[i] = T[i + 1]
    BY <1>4, <1>7, <2>1
  <2> QED
    BY <2>1, <2>2, <2>3
<1>12. Counts(F, U, s, r, a, f, u, n)
  BY <1>2, <1>4, <1>9, <1>10, <1>11 DEF Counts
<1>13. Telling(s, r, a, f, u, n)
  BY <1>4, <1>12 DEF Telling
<1>14. Tells(q[1], r, a, e, f, t, u)
  <2>1. 0 \in 0 .. z /\ 0 + 1 = 1
    OBVIOUS
  <2>2. Tells(q[0 + 1], r, a, E[0], E[0 + 1], T[0], T[0 + 1])
    BY <1>6, <2>1
  <2> QED
    BY <1>1, <1>8, <2>1, <2>2 DEF Counts
<1>15. f \in 0 .. x /\ u \in 0 .. y
  BY <1>2, <1>13, TellingRanges
<1>16. CASE f = e + 1 /\ u = t /\ IsEcho(q[1], r[f])
  <2>1. e + 1 <= Len(r)
    BY <1>2, <1>15, <1>16
  <2> QED
    BY <1>4, <1>13, <1>16, <2>1
<1>17. CASE f = e /\ u = t + 1 /\ IsAnswer(q[1], a[u])
  <2>1. t + 1 <= Len(a)
    BY <1>2, <1>15, <1>17
  <2> QED
    BY <1>4, <1>13, <1>17, <2>1
<1> QED
  BY <1>14, <1>16, <1>17 DEF Tells

LEMMA TellingStill ==
  ASSUME NEW r, NEW a, NEW e, NEW t, NEW n, Telling(<< >>, r, a, e, t, n)
  PROVE  e = Len(r) /\ t = n
<1>1. PICK q : q = << >> /\ Len(q) = 0
  BY EmptyIsSeq
<1>2. PICK E, T : Counts(E, T, q, r, a, e, t, n)
  BY <1>1 DEF Telling
<1> QED
  BY <1>1, <1>2 DEF Counts

-----------------------------------------------------------------------------
(* The inductive invariant: Q are the packets on the way, o and d say       *)
(* whether the gateway's answer to a login and the login are among them, n  *)
(* is how many of the answers have passed the gateway.                      *)

AskedRow(q) ==
    /\ IsSeq(asked) /\ Len(asked) <= MaxRequests /\ \A i \in 1 .. Len(asked) : asked[i] \in Request
    /\ Row("clientUp", q, 0, asked, handled)

PassedRow(q, o) ==
    /\ Row("serverUp", q, o, passed, Len(heard))
    /\ o = 1 => IsLoginAck(q[1])
    /\ IsSeq(heard) /\ \A i \in 1 .. Len(heard) : heard[i] = passed[i]

AnsweredRow(q, d, n) ==
    /\ Row("serverDown", q, d, answered, n)
    /\ d = 1 => IsLogin(q[1])

ToldRow(q, n) ==
    /\ Telling(q, returned, answered, Len(echoed), Len(told), n) /\ IsSeq(echoed) /\ IsSeq(told)
    /\ \A i \in 1 .. Len(echoed) : echoed[i] = returned[i]
    /\ \A i \in 1 .. Len(told) : told[i] = Meaning(answered[i])

Sessions(o, d) ==
    /\ started \in BOOLEAN /\ serverIds \in {{}, {THIS_SERVER_ID}}
    /\ session = NoSession \/ session.user = User
    /\ serverIds = {} => passed = << >> /\ answered = << >> /\ o = 0
    /\ d = 1 <=> started /\ serverIds = {}
    /\ serverIds # {} => started
    /\ passed # << >> => session.user = User
    /\ answered # << >> => passed # << >>

OnTheWay(Q, o, d, n) ==
    /\ Carried(inbox, buf, wire, Q)
    /\ AskedRow(Q["clientUp"]) /\ PassedRow(Q["serverUp"], o)
    /\ AnsweredRow(Q["serverDown"], d, n) /\ ToldRow(Q["clientDown"], n)
    /\ Sessions(o, d)

IInv == \E Q, o, d, n : OnTheWay(Q, o, d, n)

LEMMA Links ==
  /\ "clientUp" \in Link /\ "serverUp" \in Link /\ "serverDown" \in Link /\ "clientDown" \in Link
BY DEF Link

LEMMA EmptyRow == ASSUME NEW l PROVE Row(l, << >>, 0, << >>, 0)
<1>1. PICK e : e = << >> /\ IsSeq(e) /\ Len(e) = 0
  BY EmptyIsSeq
<1>2. Row(l, e, 0, e, 0)
  BY <1>1 DEF Row
<1> QED
  BY <1>1, <1>2

LEMMA InitIInv == Init => IInv
<1> SUFFICES ASSUME Init PROVE IInv
  OBVIOUS
<1>1. PICK e : e = << >> /\ IsSeq(e) /\ Len(e) = 0
  BY EmptyIsSeq
<1>2. PICK Q : Q = [l \in Link |-> e]
  OBVIOUS
<1>3. \A l \in Link : Q[l] = e
  BY <1>2
<1>4. Carries(e, e, e, e)
  <2>1. Packets(e) /\ FlattenSeq(e) = e /\ e \o e = e
    BY <1>1, NoPackets, FlattenNone, CatEmpty
  <2> QED
    BY <1>1, <2>1 DEF Carries
<1>5. inbox = Q /\ buf = Q /\ wire = Q
  BY <1>1, <1>2 DEF Init
<1>6. Carried(Q, Q, Q, Q)
  <2>1. Q = [l \in Link |-> Q[l]]
    BY <1>2
  <2>2. \A l \in Link : Carries(Q[l], Q[l], Q[l], Q[l])
    BY <1>3, <1>4
  <2> QED
    BY <2>1, <2>2 DEF Carried
<1>7. /\ asked = e /\ handled = 0 /\ passed = e /\ returned = e
      /\ heard = e /\ answered = e /\ told = e /\ echoed = e
  BY <1>1 DEF Init
<1>8. Len(asked) <= MaxRequests
  BY <1>1, <1>7, RelayAssumption
<1>9. AskedRow(e)
  BY <1>1, <1>7, <1>8, EmptyRow DEF AskedRow
<1>10. PassedRow(e, 0)
  BY <1>1, <1>7, EmptyRow DEF PassedRow
<1>11. AnsweredRow(e, 0, 0)
  BY <1>1, <1>7, EmptyRow DEF AnsweredRow
<1>12. ToldRow(e, 0)
  BY <1>1, <1>7, TellNothing DEF ToldRow
<1>13. Sessions(0, 0)
  <2>1. started = FALSE /\ serverIds = {} /\ passed = << >> /\ answered = << >>
    BY DEF Init
  <2>2. session = NoSession \/ session.user = User
    <3>1. session \in {NoSession, [user |-> User, server |-> THIS_SERVER_ID]}
      BY DEF Init
    <3> QED
      BY <3>1
  <2>3. started \in BOOLEAN /\ serverIds \in {{}, {THIS_SERVER_ID}}
    BY <2>1
  <2>4. 0 = 1 <=> started /\ serverIds = {}
    BY <2>1
  <2> QED
    BY ONLY <2>1, <2>2, <2>3, <2>4 DEF Sessions
<1>14. OnTheWay(Q, 0, 0, 0)
  BY <1>3, <1>5, <1>6, <1>9, <1>10, <1>11, <1>12, <1>13, Links DEF OnTheWay
<1> QED
  BY <1>14 DEF IInv

\* What the parts of the invariant are about.
LEMMA RowsStay ==
  ASSUME NEW Q, NEW o, NEW d, NEW n, OnTheWay(Q, o, d, n)
  PROVE  /\ UNCHANGED <<asked, handled>> => AskedRow(Q["clientUp"])'
         /\ UNCHANGED <<passed, heard>> => PassedRow(Q["serverUp"], o)'
         /\ UNCHANGED answered => AnsweredRow(Q["serverDown"], d, n)'
         /\ UNCHANGED <<returned, answered, echoed, told>> => ToldRow(Q["clientDown"], n)'
         /\ UNCHANGED <<started, serverIds, session, passed, answered>> => Sessions(o, d)'
<1>1. UNCHANGED <<asked, handled>> => AskedRow(Q["clientUp"])'
  BY DEF OnTheWay, AskedRow
<1>2. UNCHANGED <<passed, heard>> => PassedRow(Q["serverUp"], o)'
  BY DEF OnTheWay, PassedRow
<1>3. UNCHANGED answered => AnsweredRow(Q["serverDown"], d, n)'
  BY DEF OnTheWay, AnsweredRow
<1>4. UNCHANGED <<returned, answered, echoed, told>> => ToldRow(Q["clientDown"], n)'
  BY DEF OnTheWay, ToldRow
<1>5. UNCHANGED <<started, serverIds, session, passed, answered>> => Sessions(o, d)'
  BY DEF OnTheWay, Sessions
<1> QED
  BY <1>1, <1>2, <1>3, <1>4, <1>5

LEMMA HistoryStays ==
  ASSUME UNCHANGED history
  PROVE  UNCHANGED <<asked, handled, passed, returned, heard, answered, told, echoed>>
BY DEF history

LEMMA StutterIInv == ASSUME IInv, UNCHANGED vars PROVE IInv'
<1>1. PICK Q, o, d, n : OnTheWay(Q, o, d, n)
  BY DEF IInv
<1>2. UNCHANGED <<wire, buf, inbox, started, serverIds, session>> /\ UNCHANGED history
  BY DEF vars, links
<1>3. UNCHANGED <<asked, handled, passed, returned, heard, answered, told, echoed>>
  BY <1>2, HistoryStays
<1>4. Carried(inbox', buf', wire', Q)
  BY <1>1, <1>2 DEF OnTheWay
<1>5. OnTheWay(Q, o, d, n)'
  BY <1>1, <1>2, <1>3, <1>4, RowsStay DEF OnTheWay
<1> QED
  BY <1>5 DEF IInv

LEMMA ArriveIInv == ASSUME IInv, NEW l \in Link, Arrive(l) PROVE IInv'
<1>1. PICK Q, o, d, n : OnTheWay(Q, o, d, n)
  BY DEF IInv
<1>2. UNCHANGED <<inbox, started, serverIds, session>> /\ UNCHANGED history
  BY DEF Arrive
<1>3. UNCHANGED <<asked, handled, passed, returned, heard, answered, told, echoed>>
  BY <1>2, HistoryStays
<1>4. PICK k \in 1 .. Len(wire[l]) :
        /\ buf' = [buf EXCEPT ![l] = @ \o SubSeq(wire[l], 1, k)]
        /\ wire' = [wire EXCEPT ![l] = SubSeq(@, k + 1, Len(@))]
  BY DEF Arrive
<1>5. Carried(inbox', buf', wire', Q)
  BY <1>1, <1>2, <1>4, CarriedAfterArrive DEF OnTheWay
<1>6. OnTheWay(Q, o, d, n)'
  BY <1>1, <1>2, <1>3, <1>5, RowsStay DEF OnTheWay
<1> QED
  BY <1>6 DEF IInv

LEMMA OnMessageIInv == ASSUME IInv, NEW l \in Link, OnMessage(l) PROVE IInv'
<1>1. PICK Q, o, d, n : OnTheWay(Q, o, d, n)
  BY DEF IInv
<1>2. UNCHANGED <<wire, started, serverIds, session>> /\ UNCHANGED history
  BY DEF OnMessage
<1>3. UNCHANGED <<asked, handled, passed, returned, heard, answered, told, echoed>>
  BY <1>2, HistoryStays
<1>4. Carried(inbox', buf', wire', Q)
  BY <1>1, <1>2, CarriedAfterReceive DEF OnTheWay, OnMessage
<1>5. OnTheWay(Q, o, d, n)'
  BY <1>1, <1>2, <1>3, <1>4, RowsStay DEF OnTheWay
<1> QED
  BY <1>5 DEF IInv

\* Q with other packets on one link.
LEMMA WithLink ==
  ASSUME NEW Q, NEW R, NEW l \in Link, NEW q, R = With(Q, l, q)
  PROVE  /\ R[l] = q
         /\ l # "clientUp" => R["clientUp"] = Q["clientUp"]
         /\ l # "serverUp" => R["serverUp"] = Q["serverUp"]
         /\ l # "serverDown" => R["serverDown"] = Q["serverDown"]
         /\ l # "clientDown" => R["clientDown"] = Q["clientDown"]
BY WithFacts, Links DEF IsWith

LEMMA AskIInv == ASSUME IInv, NEW r \in Request, Ask(r) PROVE IInv'
<1>1. PICK Q, o, d, n : OnTheWay(Q, o, d, n)
  BY DEF IInv
<1>2. /\ UNCHANGED <<buf, inbox, started, serverIds, session>>
      /\ UNCHANGED <<handled, passed, returned, heard, answered, told, echoed>>
  BY DEF Ask
<1>3. PICK p, ask : p = RequestPacket(r) /\ ask = Append(asked, r)
  OBVIOUS
<1>4. asked' = ask /\ wire' = [wire EXCEPT !["clientUp"] = @ \o p] /\ Len(asked) < MaxRequests
  BY <1>3 DEF Ask, Send, RequestPacket
<1>5. IsRequest(p, r) /\ IsPacket(p)
  <2>1. OfClass(RequestClass(r.cmd), r.msg)
    BY RelayAssumption
  <2> QED
    BY <1>3, <2>1, RequestIs DEF IsRequest
<1>6. PICK q, l : q = Q[l] /\ l = "clientUp" /\ l \in Link
  BY Links
<1>7. PICK R : R = With(Q, l, q \o <<p>>)
  OBVIOUS
<1>8. /\ R["clientUp"] = q \o <<p>> /\ R["serverUp"] = Q["serverUp"]
      /\ R["serverDown"] = Q["serverDown"] /\ R["clientDown"] = Q["clientDown"]
  <2>1. IsWith(R, Q, l, q \o <<p>>)
    BY <1>6, <1>7, WithFacts
  <2> QED
    BY <1>6, <2>1, Links DEF IsWith
<1>9. Carried(inbox', buf', wire', R)
  BY <1>1, <1>2, <1>4, <1>5, <1>6, <1>7, CarriedAfterPacket DEF OnTheWay
<1>10. AskedRow(q \o <<p>>)'
  <2>1. AskedRow(q)
    BY <1>1, <1>6 DEF OnTheWay
  <2>2. Fits(l, p, r)
    BY <1>5, <1>6 DEF Fits
  <2>3. Row(l, q \o <<p>>, 0, ask, handled)
    BY <1>3, <1>6, <2>1, <2>2, RowSendOne DEF AskedRow
  <2>4. PICK k \in Nat : k = Len(asked)
    BY <2>1, SeqElim DEF AskedRow
  <2>5. IsSeq(ask) /\ Len(ask) = k + 1 /\ (\A i \in 1 .. k : ask[i] = asked[i]) /\ ask[k + 1] = r
    BY <1>3, <2>1, <2>4, AppendFacts DEF AskedRow
  <2>6. ASSUME NEW i \in 1 .. k + 1 PROVE ask[i] \in Request
    <3>1. CASE i = k + 1
      BY <2>5, <3>1
    <3>2. CASE i # k + 1
      <4>1. i \in 1 .. k
        BY <3>2
      <4> QED
        BY <2>1, <2>4, <2>5, <4>1 DEF AskedRow
    <3> QED
      BY <3>1, <3>2
  <2>7. k + 1 <= MaxRequests
    BY <1>4, <2>4, RelayAssumption
  <2> QED
    BY <1>2, <1>4, <1>6, <2>3, <2>5, <2>6, <2>7 DEF AskedRow
<1>11. OnTheWay(R, o, d, n)'
  BY <1>1, <1>2, <1>8, <1>9, <1>10, RowsStay DEF OnTheWay
<1> QED
  BY <1>11 DEF IInv

-----------------------------------------------------------------------------
(* The gateway keeps the invariant.                                        *)

LEMMA TakeUp ==
  ASSUME NEW Q, NEW o, NEW d, NEW n, OnTheWay(Q, o, d, n), NEW l \in Link, Take(l)
  PROVE  /\ IsSeq(Q[l]) /\ Q[l] # << >> /\ Head(inbox[l]) = Q[l][1]
         /\ Carried(inbox', buf', wire, With(Q, l, Tail(Q[l])))
<1>1. inbox[l] # << >> /\ inbox' = [inbox EXCEPT ![l] = Tail(@)] /\ buf' = buf
  BY DEF Take
<1>2. Carried(inbox, buf, wire, Q)
  BY DEF OnTheWay
<1>3. PICK v, R : v = [inbox EXCEPT ![l] = Tail(@)] /\ R = With(Q, l, Tail(Q[l]))
  OBVIOUS
<1>4. IsSeq(Q[l]) /\ Q[l] # << >> /\ Head(inbox[l]) = Q[l][1] /\ Carried(v, buf, wire, R)
  <2>1. l \in Link /\ inbox[l] # << >>
    BY <1>1
  <2>2. /\ IsSeq(Q[l]) /\ Q[l] # << >> /\ Head(inbox[l]) = Q[l][1]
        /\ Carried([inbox EXCEPT ![l] = Tail(@)], buf, wire, With(Q, l, Tail(Q[l])))
    BY ONLY <1>2, <2>1, CarriedAfterTake
  <2> QED
    BY ONLY <1>3, <2>2
<1>5. inbox' = v /\ buf' = buf
  BY <1>1, <1>3
<1> QED
  BY ONLY <1>3, <1>4, <1>5

\* The request that the gateway takes up.
LEMMA NextRequest ==
  ASSUME NEW q, AskedRow(q), q # << >>
  PROVE  /\ handled \in Nat /\ handled + 1 <= Len(asked) /\ asked[handled + 1] \in Request
         /\ IsRequest(q[1], asked[handled + 1])
         /\ Row("clientUp", Tail(q), 0, asked, handled + 1)
<1>1. Row("clientUp", q, 0, asked, handled)
  BY DEF AskedRow
<1>2. PICK l : l = "clientUp"
  OBVIOUS
<1>3. /\ handled + 1 <= Len(asked) /\ Fits(l, q[1], asked[handled + 1])
      /\ Row(l, Tail(q), 0, asked, handled + 1)
  BY <1>1, <1>2, RowTake
<1>4. handled \in Nat
  BY <1>1 DEF Row
<1>5. Len(asked) \in Nat
  BY SeqElim DEF AskedRow
<1>6. handled + 1 \in 1 .. Len(asked)
  BY <1>3, <1>4, <1>5
<1>7. asked[handled + 1] \in Request
  BY <1>6 DEF AskedRow
<1> QED
  BY <1>2, <1>3, <1>4, <1>7 DEF Fits

LEMMA AskedTaken ==
  ASSUME NEW q, AskedRow(q), q # << >>, handled' = handled + 1, asked' = asked
  PROVE  AskedRow(Tail(q))'
BY NextRequest DEF AskedRow

\* A request that is passed on, if the server is registered.
LEMMA PassIInv ==
  ASSUME NEW Q, NEW o, NEW d, NEW n, OnTheWay(Q, o, d, n), Take("clientUp"),
         NEW server, NEW by, NEW user, NEW w, NEW r, r = asked[handled + 1],
         server \in serverIds => /\ user = User /\ session'.user = User
                                 /\ w = Wrap("TRANSIT_CMD", by, User, Q["clientUp"][1]),
         session' = NoSession \/ session'.user = User,
         session.user = User => session'.user = User,
         handled' = handled + 1,
         passed' = IF server \in serverIds
                   THEN Append(passed, [cmd |-> r.cmd, user |-> user, msg |-> r.msg]) ELSE passed,
         wire' = IF server \in serverIds THEN [wire EXCEPT !["serverUp"] = @ \o w] ELSE wire,
         UNCHANGED <<started, serverIds, asked, returned, heard, answered, told, echoed>>
  PROVE  IInv'
<1>1. PICK l, q, p : l = "clientUp" /\ l \in Link /\ q = Q[l] /\ p = q[1]
  BY Links
<1>2. q # << >> /\ Carried(inbox', buf', wire, With(Q, l, Tail(q)))
  BY <1>1, TakeUp
<1>3. PICK R : R = With(Q, l, Tail(q))
  OBVIOUS
<1>4. /\ R["clientUp"] = Tail(q) /\ R["serverUp"] = Q["serverUp"]
      /\ R["serverDown"] = Q["serverDown"] /\ R["clientDown"] = Q["clientDown"]
  <2>1. IsWith(R, Q, l, Tail(q))
    BY <1>1, <1>3, WithFacts
  <2> QED
    BY <1>1, <2>1, Links DEF IsWith
<1>5. AskedRow(q) /\ IsRequest(p, r)
  BY <1>1, <1>2, NextRequest DEF OnTheWay
<1>6. AskedRow(Tail(q))'
  BY <1>2, <1>5, AskedTaken
<1>7. CASE server \notin serverIds
  <2>1. wire' = wire /\ passed' = passed
    BY <1>7
  <2>2. Carried(inbox', buf', wire', R)
    BY <1>2, <1>3, <2>1
  <2>3. Sessions(o, d)'
    BY <2>1 DEF OnTheWay, Sessions
  <2>4. OnTheWay(R, o, d, n)'
    BY <1>4, <1>6, <2>1, <2>2, <2>3, RowsStay DEF OnTheWay
  <2> QED
    BY <2>4 DEF IInv
<1>8. CASE server \in serverIds
  <2>1. PICK x, k, u : x = [cmd |-> r.cmd, user |-> User, msg |-> r.msg] /\ k = "serverUp" /\ u = Q[k]
    OBVIOUS
  <2>2. k \in Link
    BY <2>1, Links
  <2>3. PICK pa : pa = Append(passed, x) /\ passed' = pa
    BY <1>8, <2>1
  <2>4. IsPassed(w, x) /\ IsPacket(w)
    BY <1>1, <1>5, <1>8, <2>1, PassedIs
  <2>5. PICK S : S = With(R, k, R[k] \o <<w>>)
    OBVIOUS
  <2>6. /\ S["clientUp"] = Tail(q) /\ S["serverUp"] = u \o <<w>>
        /\ S["serverDown"] = Q["serverDown"] /\ S["clientDown"] = Q["clientDown"]
    <3>1. IsWith(S, R, k, R[k] \o <<w>>)
      BY <2>2, <2>5, WithFacts
    <3> QED
      BY <1>4, <2>1, <3>1, Links DEF IsWith
  <2>7. Carried(inbox', buf', wire', S)
    <3>1. wire' = [wire EXCEPT ![k] = @ \o w]
      BY <1>8, <2>1
    <3>2. Carried(inbox', buf', wire, R)
      BY <1>2, <1>3
    <3>3. Carried(inbox', buf', [wire EXCEPT ![k] = @ \o w], S)
      BY <2>2, <2>4, <2>5, <3>2, CarriedAfterPacket
    <3> QED
      BY <3>1, <3>3
  <2>8. PassedRow(u \o <<w>>, o)'
    <3>1. PassedRow(u, o)
      BY <2>1 DEF OnTheWay
    <3>2. Row(k, u, o, passed, Len(heard))
      BY <2>1, <3>1 DEF PassedRow
    <3>3. Fits(k, w, x)
      BY <2>1, <2>4 DEF Fits
    <3>4. Row(k, u \o <<w>>, o, pa, Len(heard))
      BY <2>3, <3>2, <3>3, RowSendOne
    <3>5. o = 1 => (u \o <<w>>)[1] = u[1]
      <4>1. PICK z, h \in Nat : z = Len(u) /\ h = Len(passed)
        BY <3>2, SeqElim DEF Row
      <4>2. Len(heard) \in Nat /\ Len(heard) <= h /\ z + Len(heard) = o + h
        BY <3>2, <4>1 DEF Row
      <4>3. o = 1 => 1 \in 1 .. z
        BY <4>1, <4>2
      <4>4. IsSeq(u) /\ IsSeq(<<w>>)
        BY <3>2, OneIsSeq DEF Row
      <4>5. \A i \in 1 .. Len(u) : (u \o <<w>>)[i] = u[i]
        BY <4>4, CatFacts
      <4> QED
        BY <4>1, <4>3, <4>5
    <3>6. ASSUME NEW i \in 1 .. Len(heard) PROVE heard[i] = pa[i]
      <4>1. Len(heard) \in Nat /\ Len(heard) <= Len(passed) /\ IsSeq(passed)
        BY <3>2 DEF Row
      <4>2. Len(passed) \in Nat
        BY <4>1, SeqElim
      <4>3. i \in 1 .. Len(passed)
        BY <4>1, <4>2
      <4>4. pa[i] = passed[i]
        BY <2>3, <4>1, <4>3, AppendFacts
      <4> QED
        BY <3>1, <4>4 DEF PassedRow
    <3> QED
      BY <2>1, <2>3, <3>1, <3>4, <3>5, <3>6 DEF PassedRow
  <2>9. Sessions(o, d)'
    <3>1. session'.user = User /\ serverIds # {} /\ passed' # << >>
      <4>1. IsSeq(passed)
        BY DEF OnTheWay, PassedRow, Row
      <4>2. PICK z \in Nat : z = Len(passed)
        BY <4>1, SeqElim
      <4>3. Len(pa) = z + 1
        BY <2>3, <4>1, <4>2, AppendFacts
      <4>4. pa # << >>
        BY <4>2, <4>3, EmptyIsSeq
      <4> QED
        BY <1>8, <2>3, <4>4
    <3> QED
      BY <3>1 DEF OnTheWay, Sessions
  <2>10. AnsweredRow(Q["serverDown"], d, n)' /\ ToldRow(Q["clientDown"], n)'
    BY RowsStay
  <2>11. OnTheWay(S, o, d, n)'
    BY <1>6, <2>1, <2>6, <2>7, <2>8, <2>9, <2>10 DEF OnTheWay
  <2> QED
    BY <2>11 DEF IInv
<1> QED
  BY <1>7, <1>8

LEMMA GatewayLoginIInv == ASSUME IInv, GatewayLogin PROVE IInv'
<1>1. PICK Q, o, d, n : OnTheWay(Q, o, d, n)
  BY DEF IInv
<1>2. Take("clientUp")
  BY DEF GatewayLogin
<1>3. PICK l, q, p, r : l = "clientUp" /\ q = Q[l] /\ p = q[1] /\ r = asked[handled + 1]
  OBVIOUS
<1>4. q # << >> /\ Head(inbox["clientUp"]) = p
  BY <1>1, <1>2, <1>3, Links, TakeUp
<1>5. r \in Request /\ IsRequest(p, r)
  BY <1>1, <1>3, <1>4, NextRequest DEF OnTheWay
<1>6. PICK m, s : /\ m = Read("ReqLogin", Data(p))
                  /\ s = [user |-> GetInt(m, "userId"), server |-> GetInt(m, "serverId")]
  OBVIOUS
<1>7. /\ Cmd(p) = "PRE_LOGIN_CMD" /\ GoodKey(m)
      /\ session' = IF session.user = s.user THEN session ELSE s
      /\ SendMsgToServer(s.server, Wrap("TRANSIT_CMD", session'.server, session'.user, p))
      /\ PassedOn(s)
      /\ UNCHANGED <<started, serverIds, asked, returned, heard, answered, told, echoed>>
  BY <1>4, <1>6 DEF GatewayLogin
<1>8. s.user = User
  <2>1. r.cmd = "PRE_LOGIN_CMD"
    BY <1>5, <1>7 DEF IsRequest
  <2>2. RequestClass(r.cmd) = "ReqLogin"
    BY <2>1 DEF RequestClass
  <2>3. r.msg = m
    BY <1>5, <1>6, <2>2 DEF IsRequest
  <2>4. GetInt(r.msg, "userId") = User
    BY <1>5, <1>7, <2>1, <2>3, RelayAssumption
  <2> QED
    BY <1>6, <2>3, <2>4
<1>9. session'.user = User
  BY <1>7, <1>8
<1>10. PICK server, w : server = s.server /\ w = Wrap("TRANSIT_CMD", session'.server, User, p)
  OBVIOUS
<1>11. /\ handled' = handled + 1
       /\ passed' = IF server \in serverIds
                    THEN Append(passed, [cmd |-> r.cmd, user |-> User, msg |-> r.msg]) ELSE passed
  BY <1>3, <1>7, <1>8, <1>10 DEF PassedOn
<1>12. wire' = IF server \in serverIds THEN [wire EXCEPT !["serverUp"] = @ \o w] ELSE wire
  BY <1>7, <1>9, <1>10 DEF SendMsgToServer, Send
<1>13. PICK by, user : by = session'.server /\ user = User
  OBVIOUS
<1>14. /\ server \in serverIds => /\ user = User /\ session'.user = User
                                  /\ w = Wrap("TRANSIT_CMD", by, User, Q["clientUp"][1])
       /\ passed' = IF server \in serverIds
                    THEN Append(passed, [cmd |-> r.cmd, user |-> user, msg |-> r.msg]) ELSE passed
  BY <1>3, <1>9, <1>10, <1>11, <1>13
<1>15. UNCHANGED <<started, serverIds, asked, returned, heard, answered, told, echoed>>
  BY <1>7
<1> QED
  BY <1>1, <1>2, <1>3, <1>9, <1>11, <1>12, <1>14, <1>15, PassIInv

LEMMA GatewayForwardIInv == ASSUME IInv, GatewayForward PROVE IInv'
<1>1. PICK Q, o, d, n : OnTheWay(Q, o, d, n)
  BY DEF IInv
<1>2. Take("clientUp")
  BY DEF GatewayForward
<1>3. PICK l, q, p, r : l = "clientUp" /\ q = Q[l] /\ p = q[1] /\ r = asked[handled + 1]
  OBVIOUS
<1>4. q # << >> /\ Head(inbox["clientUp"]) = p
  BY <1>1, <1>2, <1>3, Links, TakeUp
<1>5. /\ SendMsgToServer(session.server, Wrap("TRANSIT_CMD", session.server, session.user, p))
      /\ PassedOn(session)
      /\ UNCHANGED <<started, serverIds, session, asked, returned, heard, answered, told, echoed>>
  BY <1>4 DEF GatewayForward
<1>6. PICK server, by, user, w : /\ server = session.server /\ by = server /\ user = session.user
                                 /\ w = Wrap("TRANSIT_CMD", by, user, p)
  OBVIOUS
<1>7. session = NoSession \/ session.user = User
  BY <1>1 DEF OnTheWay, Sessions
<1>8. server \in serverIds => user = User
  <2>1. serverIds \in {{}, {THIS_SERVER_ID}}
    BY <1>1 DEF OnTheWay, Sessions
  <2>2. NoSession.server = 0
    BY DEF NoSession
  <2> QED
    BY <1>6, <1>7, <2>1, <2>2 DEF THIS_SERVER_ID
<1>9. /\ handled' = handled + 1
      /\ passed' = IF server \in serverIds
                   THEN Append(passed, [cmd |-> r.cmd, user |-> user, msg |-> r.msg]) ELSE passed
  BY <1>3, <1>5, <1>6 DEF PassedOn
<1>10. wire' = IF server \in serverIds THEN [wire EXCEPT !["serverUp"] = @ \o w] ELSE wire
  BY <1>5, <1>6 DEF SendMsgToServer, Send
<1>11. server \in serverIds => /\ user = User /\ session'.user = User
                               /\ w = Wrap("TRANSIT_CMD", by, User, Q["clientUp"][1])
  BY <1>3, <1>5, <1>6, <1>8
<1>12. /\ session' = NoSession \/ session'.user = User
       /\ session.user = User => session'.user = User
  BY <1>5, <1>7
<1>13. UNCHANGED <<started, serverIds, asked, returned, heard, answered, told, echoed>>
  BY <1>5
<1> QED
  BY <1>1, <1>2, <1>3, <1>9, <1>10, <1>11, <1>12, <1>13, PassIInv

LEMMA GatewayEchoIInv == ASSUME IInv, GatewayEcho PROVE IInv'
<1>1. PICK Q, o, d, n : OnTheWay(Q, o, d, n)
  BY DEF IInv
<1>2. Take("clientUp")
  BY DEF GatewayEcho
<1>3. PICK l, q, p, r : l = "clientUp" /\ l \in Link /\ q = Q[l] /\ p = q[1] /\ r = asked[handled + 1]
  BY Links
<1>4. q # << >> /\ Head(inbox[l]) = p /\ Carried(inbox', buf', wire, With(Q, l, Tail(q)))
  BY <1>1, <1>2, <1>3, TakeUp
<1>5. AskedRow(q) /\ r \in Request /\ IsRequest(p, r)
  BY <1>1, <1>3, <1>4, NextRequest DEF OnTheWay
<1>6. PICK re : re = Append(returned, r)
  OBVIOUS
<1>7. /\ wire' = [wire EXCEPT !["clientDown"] = @ \o p]
      /\ handled' = handled + 1 /\ returned' = re
      /\ UNCHANGED <<started, serverIds, session, asked, passed, heard, answered, told, echoed>>
      /\ Cmd(p) \in Echoes
  BY <1>3, <1>4, <1>6 DEF GatewayEcho, Send, Echoes
<1>8. AskedRow(Tail(q))'
  BY <1>4, <1>5, <1>7, AskedTaken
<1>9. IsEcho(p, r) /\ IsPacket(p)
  <2>1. r.cmd \in Echoes
    BY <1>5, <1>7 DEF IsRequest
  <2>2. r = [cmd |-> r.cmd, msg |-> r.msg]
    BY <1>5, RelayAssumption
  <2> QED
    BY <1>5, <2>1, <2>2 DEF IsEcho, IsRequest
<1>10. PICK R : R = With(Q, l, Tail(q))
  OBVIOUS
<1>11. /\ R["clientUp"] = Tail(q) /\ R["serverUp"] = Q["serverUp"]
       /\ R["serverDown"] = Q["serverDown"] /\ R["clientDown"] = Q["clientDown"]
  <2>1. IsWith(R, Q, l, Tail(q))
    BY <1>3, <1>10, WithFacts
  <2> QED
    BY <1>3, <2>1, Links DEF IsWith
<1>12. PICK k, u : k = "clientDown" /\ k \in Link /\ u = Q[k]
  BY Links
<1>13. PICK S : S = With(R, k, R[k] \o <<p>>)
  OBVIOUS
<1>14. /\ S["clientUp"] = Tail(q) /\ S["serverUp"] = Q["serverUp"]
       /\ S["serverDown"] = Q["serverDown"] /\ S["clientDown"] = u \o <<p>>
  <2>1. IsWith(S, R, k, R[k] \o <<p>>)
    BY <1>12, <1>13, WithFacts
  <2> QED
    BY <1>11, <1>12, <2>1, Links DEF IsWith
<1>15. Carried(inbox', buf', wire', S)
  <2>1. wire' = [wire EXCEPT ![k] = @ \o p]
    BY <1>7, <1>12
  <2>2. Carried(inbox', buf', wire, R)
    BY <1>4, <1>10
  <2>3. Carried(inbox', buf', [wire EXCEPT ![k] = @ \o p], S)
    BY <1>9, <1>12, <1>13, <2>2, CarriedAfterPacket
  <2> QED
    BY <2>1, <2>3
<1>16. ToldRow(u \o <<p>>, n)'
  <2>1. ToldRow(u, n)
    BY <1>1, <1>12 DEF OnTheWay
  <2>2. Telling(u \o <<p>>, re, answered, Len(echoed), Len(told), n)
    BY <1>6, <1>9, <2>1, TellingEcho DEF ToldRow
  <2>3. ASSUME NEW i \in 1 .. Len(echoed) PROVE echoed[i] = re[i]
    <3>1. Len(echoed) \in 0 .. Len(returned) /\ IsSeq(returned)
      BY <2>1, TellingRanges DEF ToldRow, Telling
    <3>2. i \in 1 .. Len(returned)
      <4>1. Len(returned) \in Nat
        BY <3>1, SeqElim
      <4> QED
        BY <3>1, <4>1
    <3>3. re[i] = returned[i]
      BY <1>6, <3>1, <3>2, AppendFacts
    <3> QED
      BY <2>1, <3>3 DEF ToldRow
  <2> QED
    BY <1>7, <2>1, <2>2, <2>3 DEF ToldRow
<1>17. PassedRow(Q["serverUp"], o)' /\ AnsweredRow(Q["serverDown"], d, n)' /\ Sessions(o, d)'
  BY <1>1, <1>7, RowsStay
<1>18. OnTheWay(S, o, d, n)'
  BY <1>8, <1>14, <1>15, <1>16, <1>17 DEF OnTheWay
<1> QED
  BY <1>18 DEF IInv

\* What the gateway takes up from the logic server.
LEMMA NextAnswer ==
  ASSUME NEW q, NEW d, NEW n, AnsweredRow(q, d, n), q # << >>
  PROVE  \/ d = 1 /\ IsLogin(q[1])
         \/ d = 0 /\ n \in Nat /\ n + 1 <= Len(answered) /\ IsAnswered(q[1], answered[n + 1])
            /\ Row("serverDown", Tail(q), 0, answered, n + 1)
<1>1. PICK l : l = "serverDown"
  OBVIOUS
<1>2. Row(l, q, d, answered, n)
  BY <1>1 DEF AnsweredRow
<1>3. d \in {0, 1} /\ n \in Nat
  BY <1>2 DEF Row
<1>4. CASE d = 1
  BY <1>4 DEF AnsweredRow
<1>5. CASE d = 0
  <2>1. n + 1 <= Len(answered) /\ Fits(l, q[1], answered[n + 1]) /\ Row(l, Tail(q), 0, answered, n + 1)
    BY <1>2, <1>5, RowTake
  <2>2. IsAnswered(q[1], answered[n + 1])
    BY <1>1, <2>1 DEF Fits
  <2> QED
    BY <1>1, <1>3, <1>5, <2>1, <2>2
<1> QED
  BY <1>3, <1>4, <1>5

LEMMA GatewayServerLoginIInv == ASSUME IInv, GatewayServerLogin PROVE IInv'
<1>1. PICK Q, o, d, n : OnTheWay(Q, o, d, n)
  BY DEF IInv
<1>2. Take("serverDown")
  BY DEF GatewayServerLogin
<1>3. PICK l, q, p : l = "serverDown" /\ l \in Link /\ q = Q[l] /\ p = q[1]
  BY Links
<1>4. q # << >> /\ Head(inbox[l]) = p /\ Carried(inbox', buf', wire, With(Q, l, Tail(q)))
  BY <1>1, <1>2, <1>3, TakeUp
<1>5. PICK m, ack, w :
         /\ m = Read("ReqLoginServer", Data(Inner(p)))
         /\ ack = [checkCode |-> GetInt(m, "checkCode"), serverId |-> GetInt(m, "serverId"),
                   serverType |-> GetInt(m, "serverType")]
         /\ w = Wrap("SVRLOGIN_ACK", 1, 0, Packet("SVRLOGIN_ACK", Serialize("AckLoginServer", ack)))
  OBVIOUS
<1>6. /\ Cmd(p) = "SVRLOGIN_CMD"
      /\ serverIds' = serverIds \cup {GetInt(m, "serverId")}
      /\ IF GetInt(m, "serverId") \in serverIds THEN UNCHANGED wire ELSE Send("serverUp", w)
      /\ UNCHANGED <<started, session>> /\ UNCHANGED history
  BY <1>3, <1>4, <1>5 DEF GatewayServerLogin
<1>7. UNCHANGED <<asked, handled, passed, returned, heard, answered, told, echoed>>
  BY <1>6, HistoryStays
<1>8. AnsweredRow(q, d, n)
  BY <1>1, <1>3 DEF OnTheWay
<1>9. d = 1 /\ IsLogin(p)
  <2>1. ~IsAnswered(p, answered[n + 1])
    BY <1>6 DEF IsAnswered, IsWrap
  <2> QED
    BY <1>3, <1>4, <1>8, <2>1, NextAnswer
<1>10. m = LoginMsg
  BY <1>5, <1>9 DEF IsLogin
<1>11. GetInt(m, "serverId") = THIS_SERVER_ID /\ IsLoginAck(w)
  BY <1>5, <1>10, LoginAckIs
<1>12. /\ started /\ serverIds = {} /\ passed = << >> /\ answered = << >> /\ o = 0
       /\ session = NoSession \/ session.user = User
  BY <1>1, <1>9 DEF OnTheWay, Sessions
<1>13. wire' = [wire EXCEPT !["serverUp"] = @ \o w] /\ serverIds' = {THIS_SERVER_ID}
  BY <1>6, <1>11, <1>12 DEF Send
<1>14. PICK R : R = With(Q, l, Tail(q))
  OBVIOUS
<1>15. /\ R["clientUp"] = Q["clientUp"] /\ R["serverUp"] = Q["serverUp"]
       /\ R["serverDown"] = Tail(q) /\ R["clientDown"] = Q["clientDown"]
  <2>1. IsWith(R, Q, l, Tail(q))
    BY <1>3, <1>14, WithFacts
  <2> QED
    BY <1>3, <2>1, Links DEF IsWith
<1>16. PICK k, u : k = "serverUp" /\ k \in Link /\ u = Q[k]
  BY Links
<1>17. PICK S : S = With(R, k, R[k] \o <<w>>)
  OBVIOUS
<1>18. /\ S["clientUp"] = Q["clientUp"] /\ S["serverUp"] = u \o <<w>>
       /\ S["serverDown"] = Tail(q) /\ S["clientDown"] = Q["clientDown"]
  <2>1. IsWith(S, R, k, R[k] \o <<w>>)
    BY <1>16, <1>17, WithFacts
  <2> QED
    BY <1>15, <1>16, <2>1, Links DEF IsWith
<1>19. Carried(inbox', buf', wire', S)
  <2>1. wire' = [wire EXCEPT ![k] = @ \o w]
    BY <1>13, <1>16
  <2>2. Carried(inbox', buf', wire, R)
    BY <1>4, <1>14
  <2>3. IsPacket(w)
    BY <1>11 DEF IsLoginAck
  <2>4. Carried(inbox', buf', [wire EXCEPT ![k] = @ \o w], S)
    BY <1>16, <1>17, <2>2, <2>3, CarriedAfterPacket
  <2> QED
    BY <2>1, <2>4
<1>20. AnsweredRow(Tail(q), 0, n)'
  <2>1. Row("serverDown", q, 1, answered, n)
    BY <1>8, <1>9 DEF AnsweredRow
  <2>2. Row("serverDown", Tail(q), 0, answered, n)
    BY <2>1, RowTakeLead
  <2> QED
    BY <1>7, <2>2 DEF AnsweredRow
<1>21. PassedRow(u \o <<w>>, 1)'
  <2>1. PassedRow(u, 0)
    BY <1>1, <1>12, <1>16 DEF OnTheWay
  <2>2. Row(k, u, 0, passed, Len(heard))
    BY <1>16, <2>1 DEF PassedRow
  <2>3. u = << >>
    <3>1. Len(passed) = 0
      BY <1>12, EmptyIsSeq
    <3>2. Len(u) \in Nat /\ IsSeq(u)
      BY <2>2, SeqElim DEF Row
    <3>3. Len(heard) \in Nat /\ Len(heard) <= Len(passed) /\ Len(u) + Len(heard) = 0 + Len(passed)
      BY <2>2 DEF Row
    <3>4. Len(u) = 0
      BY <3>1, <3>2, <3>3
    <3> QED
      BY <3>2, <3>4, EmptyIfNoLen
  <2>4. Row(k, u \o <<w>>, 1, passed, Len(heard)) /\ (u \o <<w>>)[1] = w
    BY <2>2, <2>3, RowLead
  <2> QED
    BY <1>7, <1>11, <1>16, <2>1, <2>4 DEF PassedRow
<1>22. AskedRow(Q["clientUp"])' /\ ToldRow(Q["clientDown"], n)'
  BY <1>1, <1>7, RowsStay
<1>23. Sessions(1, 0)'
  <2>1. /\ started' = started /\ session' = session /\ passed' = << >> /\ answered' = << >>
        /\ serverIds' = {THIS_SERVER_ID} /\ started = TRUE
    BY <1>6, <1>7, <1>12, <1>13
  <2> QED
    BY <1>12, <2>1 DEF Sessions
<1>24. OnTheWay(S, 1, 0, n)'
  BY <1>18, <1>19, <1>20, <1>21, <1>22, <1>23 DEF OnTheWay
<1> QED
  BY <1>24 DEF IInv

LEMMA GatewayAnswerIInv == ASSUME IInv, GatewayAnswer PROVE IInv'
<1>1. PICK Q, o, d, n : OnTheWay(Q, o, d, n)
  BY DEF IInv
<1>2. Take("serverDown")
  BY DEF GatewayAnswer
<1>3. PICK l, q, w : l = "serverDown" /\ l \in Link /\ q = Q[l] /\ w = q[1]
  BY Links
<1>4. q # << >> /\ Head(inbox[l]) = w /\ Carried(inbox', buf', wire, With(Q, l, Tail(q)))
  BY <1>1, <1>2, <1>3, TakeUp
<1>5. /\ Cmd(w) = "TRANSIT_ACK"
      /\ IF InnerUser(w) = session.user THEN Send("clientDown", Inner(w)) ELSE UNCHANGED wire
      /\ UNCHANGED <<started, serverIds, session>> /\ UNCHANGED history
  BY <1>3, <1>4 DEF GatewayAnswer
<1>6. UNCHANGED <<asked, handled, passed, returned, heard, answered, told, echoed>>
  BY <1>5, HistoryStays
<1>7. AnsweredRow(q, d, n)
  BY <1>1, <1>3 DEF OnTheWay
<1>8. /\ d = 0 /\ n \in Nat /\ n + 1 <= Len(answered) /\ IsAnswered(w, answered[n + 1])
      /\ Row("serverDown", Tail(q), 0, answered, n + 1)
  <2>1. ~IsLogin(w)
    BY <1>5 DEF IsLogin
  <2> QED
    BY <1>3, <1>4, <1>7, <2>1, NextAnswer
<1>9. PICK p : IsWrap(w, "TRANSIT_ACK", User, p) /\ IsAnswer(p, answered[n + 1])
  BY <1>8 DEF IsAnswered
<1>10. InnerUser(w) = User /\ Inner(w) = p /\ IsPacket(p)
  BY <1>9 DEF IsWrap, IsAnswer
<1>11. session.user = User
  <2>1. answered # << >>
    <3>1. answered = << >> => Len(answered) = 0
      BY EmptyIsSeq
    <3> QED
      BY <1>8, <3>1
  <2> QED
    BY <1>1, <2>1 DEF OnTheWay, Sessions
<1>12. wire' = [wire EXCEPT !["clientDown"] = @ \o p]
  BY <1>5, <1>10, <1>11 DEF Send
<1>14. PICK R : R = With(Q, l, Tail(q))
  OBVIOUS
<1>15. /\ R["clientUp"] = Q["clientUp"] /\ R["serverUp"] = Q["serverUp"]
       /\ R["serverDown"] = Tail(q) /\ R["clientDown"] = Q["clientDown"]
  <2>1. IsWith(R, Q, l, Tail(q))
    BY <1>3, <1>14, WithFacts
  <2> QED
    BY <1>3, <2>1, Links DEF IsWith
<1>16. PICK k, u : k = "clientDown" /\ k \in Link /\ u = Q[k]
  BY Links
<1>17. PICK S : S = With(R, k, R[k] \o <<p>>)
  OBVIOUS
<1>18. /\ S["clientUp"] = Q["clientUp"] /\ S["serverUp"] = Q["serverUp"]
       /\ S["serverDown"] = Tail(q) /\ S["clientDown"] = u \o <<p>>
  <2>1. IsWith(S, R, k, R[k] \o <<p>>)
    BY <1>16, <1>17, WithFacts
  <2> QED
    BY <1>15, <1>16, <2>1, Links DEF IsWith
<1>19. Carried(inbox', buf', wire', S)
  <2>1. wire' = [wire EXCEPT ![k] = @ \o p]
    BY <1>12, <1>16
  <2>2. Carried(inbox', buf', wire, R)
    BY <1>4, <1>14
  <2>3. Carried(inbox', buf', [wire EXCEPT ![k] = @ \o p], S)
    BY <1>10, <1>16, <1>17, <2>2, CarriedAfterPacket
  <2> QED
    BY <2>1, <2>3
<1>20. AnsweredRow(Tail(q), 0, n + 1)'
  BY <1>6, <1>8 DEF AnsweredRow
<1>21. ToldRow(u \o <<p>>, n + 1)'
  <2>1. ToldRow(u, n)
    BY <1>1, <1>16 DEF OnTheWay
  <2>2. Telling(u \o <<p>>, returned, answered, Len(echoed), Len(told), n + 1)
    BY <1>8, <1>9, <2>1, TellingAnswer DEF ToldRow
  <2>3. ToldRow(u \o <<p>>, n + 1)
    BY <2>1, <2>2 DEF ToldRow
  <2> QED
    BY <1>6, <2>3 DEF ToldRow
<1>22. AskedRow(Q["clientUp"])' /\ PassedRow(Q["serverUp"], o)' /\ Sessions(o, 0)'
  BY <1>1, <1>5, <1>6, <1>8, RowsStay
<1>24. OnTheWay(S, o, 0, n + 1)'
  BY <1>18, <1>19, <1>20, <1>21, <1>22 DEF OnTheWay
<1> QED
  BY <1>24 DEF IInv

-----------------------------------------------------------------------------
(* So do the logic server and the client.                                  *)

LEMMA LogicConnectedIInv == ASSUME IInv, LogicConnected PROVE IInv'
<1>1. PICK Q, o, d, n : OnTheWay(Q, o, d, n)
  BY DEF IInv
<1>2. PICK w : w = Wrap("SVRLOGIN_CMD", 1, 0, Packet("SVRLOGIN_CMD", Serialize("AckLoginServer", LoginMsg)))
  OBVIOUS
<1>3. IsLogin(w) /\ IsPacket(w)
  BY <1>2, LoginIs DEF IsLogin
<1>4. /\ ~started /\ started' = TRUE
      /\ wire' = [wire EXCEPT !["serverDown"] = @ \o w]
      /\ UNCHANGED <<buf, inbox, serverIds, session>> /\ UNCHANGED history
  BY <1>2 DEF LogicConnected, Send, LoginMsg
<1>5. UNCHANGED <<asked, handled, passed, returned, heard, answered, told, echoed>>
  BY <1>4, HistoryStays
<1>6. PICK k, u : k = "serverDown" /\ k \in Link /\ u = Q[k]
  BY Links
<1>7. AnsweredRow(u, d, n) /\ Sessions(o, d)
  BY <1>1, <1>6 DEF OnTheWay
<1>8. /\ serverIds = {} /\ passed = << >> /\ answered = << >> /\ o = 0 /\ d # 1
      /\ session = NoSession \/ session.user = User
  BY <1>4, <1>7 DEF Sessions
<1>9. Row(k, u, 0, answered, n)
  <2>1. Row(k, u, d, answered, n)
    BY <1>6, <1>7 DEF AnsweredRow
  <2>2. d = 0
    BY <1>8, <2>1 DEF Row
  <2> QED
    BY <2>1, <2>2
<1>10. u = << >>
  <2>1. Len(answered) = 0
    BY <1>8, EmptyIsSeq
  <2>2. Len(u) \in Nat /\ IsSeq(u)
    BY <1>9, SeqElim DEF Row
  <2>3. n \in Nat /\ n <= Len(answered) /\ Len(u) + n = 0 + Len(answered)
    BY <1>9 DEF Row
  <2>4. Len(u) = 0
    BY <2>1, <2>2, <2>3
  <2> QED
    BY <2>2, <2>4, EmptyIfNoLen
<1>11. Row(k, u \o <<w>>, 1, answered, n) /\ (u \o <<w>>)[1] = w
  BY <1>9, <1>10, RowLead
<1>12. AnsweredRow(u \o <<w>>, 1, n)'
  BY <1>3, <1>5, <1>6, <1>11 DEF AnsweredRow
<1>13. PICK S : S = With(Q, k, Q[k] \o <<w>>)
  OBVIOUS
<1>14. /\ S["clientUp"] = Q["clientUp"] /\ S["serverUp"] = Q["serverUp"]
       /\ S["serverDown"] = u \o <<w>> /\ S["clientDown"] = Q["clientDown"]
  <2>1. IsWith(S, Q, k, Q[k] \o <<w>>)
    BY <1>6, <1>13, WithFacts
  <2> QED
    BY <1>6, <2>1, Links DEF IsWith
<1>15. Carried(inbox', buf', wire', S)
  <2>1. wire' = [wire EXCEPT ![k] = @ \o w] /\ inbox' = inbox /\ buf' = buf
    BY <1>4, <1>6
  <2>2. Carried(inbox, buf, wire, Q)
    BY <1>1 DEF OnTheWay
  <2>3. Carried(inbox, buf, [wire EXCEPT ![k] = @ \o w], S)
    BY <1>3, <1>6, <1>13, <2>2, CarriedAfterPacket
  <2> QED
    BY <2>1, <2>3
<1>16. Sessions(o, 1)'
  <2>1. /\ started' = TRUE /\ session' = session /\ passed' = << >> /\ answered' = << >>
        /\ serverIds' = {} /\ o = 0
    BY <1>4, <1>5, <1>8
  <2> QED
    BY <1>8, <2>1 DEF Sessions
<1>17. AskedRow(Q["clientUp"])' /\ PassedRow(Q["serverUp"], o)' /\ ToldRow(Q["clientDown"], n)'
  BY <1>1, <1>5, RowsStay
<1>18. OnTheWay(S, o, 1, n)'
  BY <1>12, <1>14, <1>15, <1>16, <1>17 DEF OnTheWay
<1> QED
  BY <1>18 DEF IInv

\* What the logic server takes up.
LEMMA NextPassed ==
  ASSUME NEW q, NEW o, PassedRow(q, o), q # << >>
  PROVE  \/ o = 1 /\ IsLoginAck(q[1])
         \/ o = 0 /\ Len(heard) + 1 <= Len(passed) /\ IsPassed(q[1], passed[Len(heard) + 1])
            /\ Row("serverUp", Tail(q), 0, passed, Len(heard) + 1)
<1>1. PICK l, n : l = "serverUp" /\ n = Len(heard)
  OBVIOUS
<1>2. Row(l, q, o, passed, n)
  BY <1>1 DEF PassedRow
<1>3. o \in {0, 1}
  BY <1>2 DEF Row
<1>4. CASE o = 1
  BY <1>4 DEF PassedRow
<1>5. CASE o = 0
  <2>1. n + 1 <= Len(passed) /\ Fits(l, q[1], passed[n + 1]) /\ Row(l, Tail(q), 0, passed, n + 1)
    BY <1>2, <1>5, RowTake
  <2>2. IsPassed(q[1], passed[n + 1])
    BY <1>1, <2>1 DEF Fits
  <2> QED
    BY <1>1, <1>3, <1>5, <2>1, <2>2
<1> QED
  BY <1>3, <1>4, <1>5

LEMMA LogicServerAckIInv == ASSUME IInv, LogicServerAck PROVE IInv'
<1>1. PICK Q, o, d, n : OnTheWay(Q, o, d, n)
  BY DEF IInv
<1>2. Take("serverUp")
  BY DEF LogicServerAck
<1>3. PICK l, q, p : l = "serverUp" /\ l \in Link /\ q = Q[l] /\ p = q[1]
  BY Links
<1>4. q # << >> /\ Head(inbox[l]) = p /\ Carried(inbox', buf', wire, With(Q, l, Tail(q)))
  BY <1>1, <1>2, <1>3, TakeUp
<1>5. Cmd(p) = "SVRLOGIN_ACK" /\ UNCHANGED <<wire, started, serverIds, session>> /\ UNCHANGED history
  BY <1>3, <1>4 DEF LogicServerAck
<1>6. UNCHANGED <<asked, handled, passed, returned, heard, answered, told, echoed>>
  BY <1>5, HistoryStays
<1>7. PassedRow(q, o)
  BY <1>1, <1>3 DEF OnTheWay
<1>8. o = 1
  <2>1. ~IsPassed(p, passed[Len(heard) + 1])
    BY <1>5 DEF IsPassed, IsWrap
  <2> QED
    BY <1>3, <1>4, <1>7, <2>1, NextPassed
<1>9. PassedRow(Tail(q), 0)'
  <2>1. Row("serverUp", q, 1, passed, Len(heard))
    BY <1>7, <1>8 DEF PassedRow
  <2>2. Row("serverUp", Tail(q), 0, passed, Len(heard))
    BY <2>1, RowTakeLead
  <2> QED
    BY <1>6, <1>7, <2>2 DEF PassedRow
<1>10. PICK R : R = With(Q, l, Tail(q))
  OBVIOUS
<1>11. /\ R["clientUp"] = Q["clientUp"] /\ R["serverUp"] = Tail(q)
       /\ R["serverDown"] = Q["serverDown"] /\ R["clientDown"] = Q["clientDown"]
  <2>1. IsWith(R, Q, l, Tail(q))
    BY <1>3, <1>10, WithFacts
  <2> QED
    BY <1>3, <2>1, Links DEF IsWith
<1>12. Carried(inbox', buf', wire', R)
  BY <1>4, <1>5, <1>10
<1>13. Sessions(0, d)'
  <2>1. Sessions(o, d)
    BY <1>1 DEF OnTheWay
  <2> QED
    BY <1>5, <1>6, <2>1 DEF Sessions
<1>14. AskedRow(Q["clientUp"])' /\ AnsweredRow(Q["serverDown"], d, n)' /\ ToldRow(Q["clientDown"], n)'
  BY <1>1, <1>6, RowsStay
<1>15. OnTheWay(R, 0, d, n)'
  BY <1>9, <1>11, <1>12, <1>13, <1>14 DEF OnTheWay
<1> QED
  BY <1>15 DEF IInv

LEMMA LogicDispatchIInv == ASSUME IInv, LogicDispatch PROVE IInv'
<1>1. PICK Q, o, d, n : OnTheWay(Q, o, d, n)
  BY DEF IInv
<1>2. Take("serverUp")
  BY DEF LogicDispatch
<1>3. PICK l, q, w : l = "serverUp" /\ l \in Link /\ q = Q[l] /\ w = q[1]
  BY Links
<1>4. q # << >> /\ Head(inbox[l]) = w /\ Carried(inbox', buf', wire, With(Q, l, Tail(q)))
  BY <1>1, <1>2, <1>3, TakeUp
<1>5. PICK cmd, data, m, user :
         /\ cmd = Cmd(Inner(w)) /\ data = Data(Inner(w)) /\ m = Read(RequestClass(cmd), data)
         /\ user = InnerUser(w)
  OBVIOUS
<1>6. /\ Cmd(w) = "TRANSIT_CMD"
      /\ heard' = Append(heard, [cmd |-> cmd, user |-> user, msg |-> m])
      /\ UNCHANGED <<started, serverIds, session, asked, handled, passed, returned, told, echoed>>
  BY <1>3, <1>4, <1>5 DEF LogicDispatch
<1>7. PICK as \in Answers(cmd, m, data) :
         /\ answered' = answered \o as
         /\ Send("serverDown", FlattenSeq([i \in DOMAIN as |->
                Wrap("TRANSIT_ACK", THIS_SERVER_ID, user, Packet(as[i].cmd, as[i].data))]))
  BY <1>3, <1>4, <1>5 DEF LogicDispatch
<1>8. PassedRow(q, o)
  BY <1>1, <1>3 DEF OnTheWay
<1>9. PICK h : h = Len(heard)
  OBVIOUS
<1>10. PICK x : x = passed[h + 1]
  OBVIOUS
<1>11. /\ o = 0 /\ h + 1 <= Len(passed) /\ IsPassed(w, x)
       /\ Row("serverUp", Tail(q), 0, passed, h + 1)
  <2>1. ~IsLoginAck(w)
    BY <1>6 DEF IsLoginAck
  <2> QED
    BY <1>3, <1>4, <1>8, <1>9, <1>10, <2>1, NextPassed
<1>12. PICK p : /\ IsWrap(w, "TRANSIT_CMD", User, p) /\ IsRequest(p, x)
                /\ x = [cmd |-> x.cmd, user |-> User, msg |-> x.msg]
  BY <1>11 DEF IsPassed
<1>13. user = User /\ cmd = x.cmd /\ m = x.msg /\ IsSeq(data) /\ OfClass(RequestClass(cmd), m)
  <2>1. InnerUser(w) = User /\ Inner(w) = p
    BY <1>12 DEF IsWrap
  <2>2. /\ Cmd(p) = x.cmd /\ IsSeq(Data(p)) /\ OfClass(RequestClass(x.cmd), x.msg)
        /\ Read(RequestClass(x.cmd), Data(p)) = x.msg
    BY <1>12 DEF IsRequest
  <2> QED
    BY <1>5, <2>1, <2>2
<1>14. PICK he : he = Append(heard, x) /\ heard' = he
  BY <1>6, <1>12, <1>13
<1>15. PICK ws : ws = [i \in DOMAIN as |->
                          Wrap("TRANSIT_ACK", THIS_SERVER_ID, user, Packet(as[i].cmd, as[i].data))]
  OBVIOUS
<1>16. AllGood(as) /\ IsSeq(as)
  BY <1>7, <1>13, AnswersAreGood DEF AllGood
<1>17. /\ Packets(ws) /\ IsSeq(ws) /\ Len(ws) = Len(as)
       /\ \A i \in 1 .. Len(as) : IsAnswered(ws[i], as[i])
  <2>1. PICK server : server = THIS_SERVER_ID
    OBVIOUS
  <2>2. Wrapped(ws, as, server)
    BY ONLY <1>13, <1>15, <2>1 DEF Wrapped
  <2>3. AllGood(as)
    BY ONLY <1>16
  <2>4. Packets(ws) /\ Len(ws) = Len(as) /\ \A i \in 1 .. Len(as) : IsAnswered(ws[i], as[i])
    BY ONLY <2>2, <2>3, AnswersAreSent
  <2>5. IsSeq(ws)
    BY ONLY <2>4 DEF Packets
  <2> QED
    BY ONLY <2>4, <2>5
<1>18. wire' = [wire EXCEPT !["serverDown"] = @ \o FlattenSeq(ws)]
  BY <1>7, <1>15 DEF Send
<1>19. PICK R : R = With(Q, l, Tail(q))
  OBVIOUS
<1>20. /\ R["clientUp"] = Q["clientUp"] /\ R["serverUp"] = Tail(q)
       /\ R["serverDown"] = Q["serverDown"] /\ R["clientDown"] = Q["clientDown"]
  <2>1. IsWith(R, Q, l, Tail(q))
    BY <1>3, <1>19, WithFacts
  <2> QED
    BY <1>3, <2>1, Links DEF IsWith
<1>21. PICK k, u : k = "serverDown" /\ k \in Link /\ u = Q[k]
  BY Links
<1>22. PICK S : S = With(R, k, R[k] \o ws)
  OBVIOUS
<1>23. /\ S["clientUp"] = Q["clientUp"] /\ S["serverUp"] = Tail(q)
       /\ S["serverDown"] = u \o ws /\ S["clientDown"] = Q["clientDown"]
  <2>1. IsWith(S, R, k, R[k] \o ws)
    BY <1>21, <1>22, WithFacts
  <2> QED
    BY <1>20, <1>21, <2>1, Links DEF IsWith
<1>24. Carried(inbox', buf', wire', S)
  <2>1. wire' = [wire EXCEPT ![k] = @ \o FlattenSeq(ws)]
    BY <1>18, <1>21
  <2>2. Carried(inbox', buf', wire, R)
    BY <1>4, <1>19
  <2>3. Carried(inbox', buf', [wire EXCEPT ![k] = @ \o FlattenSeq(ws)], S)
    BY <1>17, <1>21, <1>22, <2>2, CarriedAfterSend
  <2> QED
    BY <2>1, <2>3
<1>25. PassedRow(Tail(q), 0)'
  <2>1. IsSeq(heard) /\ \A i \in 1 .. h : heard[i] = passed[i]
    BY <1>8, <1>9 DEF PassedRow
  <2>2. h \in Nat
    BY <1>9, <2>1, SeqElim
  <2>3. IsSeq(he) /\ Len(he) = h + 1 /\ (\A i \in 1 .. h : he[i] = heard[i]) /\ he[h + 1] = x
    BY <1>9, <1>14, <2>1, AppendFacts
  <2>4. ASSUME NEW i \in 1 .. h + 1 PROVE he[i] = passed[i]
    <3>1. CASE i = h + 1
      BY <1>10, <2>3, <3>1
    <3>2. CASE i # h + 1
      <4>1. i \in 1 .. h
        BY <2>2, <3>2
      <4> QED
        BY <2>1, <2>3, <4>1
    <3> QED
      BY <3>1, <3>2
  <2> QED
    BY <1>6, <1>11, <1>14, <2>3, <2>4 DEF PassedRow
<1>26. PICK an : an = answered \o as
  OBVIOUS
<1>27. AnsweredRow(u \o ws, d, n)'
  <2>1. AnsweredRow(u, d, n)
    BY <1>1, <1>21 DEF OnTheWay
  <2>2. Row(k, u, d, answered, n)
    BY <1>21, <2>1 DEF AnsweredRow
  <2>3. PICK z \in Nat : z = Len(as) /\ z = Len(ws)
    BY <1>16, <1>17, SeqElim
  <2>4. \A i \in 1 .. z : Fits(k, ws[i], as[i])
    BY <1>17, <1>21, <2>3 DEF Fits
  <2>5. Row(k, u \o ws, d, an, n)
    BY <1>16, <1>17, <1>26, <2>2, <2>3, <2>4, RowSend
  <2>6. d # 1
    <3>1. passed # << >>
      <4>1. passed = << >> => Len(passed) = 0
        BY EmptyIsSeq
      <4>2. h \in Nat
        BY <1>8, <1>9, SeqElim DEF PassedRow
      <4> QED
        BY <1>11, <4>1, <4>2
    <3> QED
      BY <1>1, <3>1 DEF OnTheWay, Sessions
  <2> QED
    BY <1>7, <1>21, <1>26, <2>5, <2>6 DEF AnsweredRow
<1>28. ToldRow(Q["clientDown"], n)'
  <2>1. PICK v : v = Q["clientDown"]
    OBVIOUS
  <2>2. ToldRow(v, n)
    BY <1>1, <2>1 DEF OnTheWay
  <2>3. Telling(v, returned, an, Len(echoed), Len(told), n)
    BY <1>16, <1>26, <2>2, TellingMore DEF ToldRow
  <2>4. ASSUME NEW i \in 1 .. Len(told) PROVE told[i] = Meaning(an[i])
    <3>1. Len(told) \in 0 .. Len(answered) /\ IsSeq(answered)
      BY <2>2, TellingRanges DEF ToldRow, Telling
    <3>2. Len(answered) \in Nat
      BY <3>1, SeqElim
    <3>3. i \in 1 .. Len(answered)
      BY <3>1, <3>2
    <3>4. an[i] = answered[i]
      BY <1>16, <1>26, <3>1, <3>3, CatFacts
    <3> QED
      BY <2>2, <3>4 DEF ToldRow
  <2> QED
    BY <1>6, <1>7, <1>26, <2>1, <2>2, <2>3, <2>4 DEF ToldRow
<1>29. Sessions(0, d)'
  <2>1. passed # << >>
    <3>1. passed = << >> => Len(passed) = 0
      BY EmptyIsSeq
    <3>2. h \in Nat
      BY <1>8, <1>9, SeqElim DEF PassedRow
    <3> QED
      BY <1>11, <3>1, <3>2
  <2>2. Sessions(o, d)
    BY <1>1 DEF OnTheWay
  <2> QED
    BY <1>6, <2>1, <2>2 DEF Sessions
<1>30. AskedRow(Q["clientUp"])'
  BY <1>1, <1>6, RowsStay
<1>31. OnTheWay(S, 0, d, n)'
  BY <1>23, <1>24, <1>25, <1>27, <1>28, <1>29, <1>30 DEF OnTheWay
<1> QED
  BY <1>31 DEF IInv

LEMMA ReadAnswerIInv == ASSUME IInv, ReadAnswer PROVE IInv'
<1>1. PICK Q, o, d, n : OnTheWay(Q, o, d, n)
  BY DEF IInv
<1>2. Take("clientDown")
  BY DEF ReadAnswer
<1>3. PICK l, q, p : l = "clientDown" /\ l \in Link /\ q = Q[l] /\ p = q[1]
  BY Links
<1>4. q # << >> /\ Head(inbox[l]) = p /\ Carried(inbox', buf', wire, With(Q, l, Tail(q)))
  BY <1>1, <1>2, <1>3, TakeUp
<1>5. PICK a : a = [cmd |-> Cmd(p), msg |-> Read(AnswerClass(Cmd(p)), Data(p))]
  OBVIOUS
<1>6. /\ IF Cmd(p) \in Echoes
         THEN echoed' = Append(echoed, a) /\ UNCHANGED told
         ELSE told' = Append(told, a) /\ UNCHANGED echoed
      /\ UNCHANGED <<wire, started, serverIds, session, asked, handled, passed, returned, heard,
                     answered>>
  BY <1>3, <1>4, <1>5 DEF ReadAnswer, Echoes
<1>7. PICK e, t : e = Len(echoed) /\ t = Len(told)
  OBVIOUS
<1>8. /\ Telling(q, returned, answered, e, t, n) /\ IsSeq(echoed) /\ IsSeq(told)
      /\ \A i \in 1 .. e : echoed[i] = returned[i]
      /\ \A i \in 1 .. t : told[i] = Meaning(answered[i])
  BY <1>1, <1>3, <1>7 DEF OnTheWay, ToldRow
<1>9. e \in Nat /\ t \in Nat
  BY <1>7, <1>8, SeqElim
<1>10. ToldRow(Tail(q), n)'
  <2>1. CASE /\ e + 1 <= Len(returned) /\ IsEcho(p, returned[e + 1])
             /\ Telling(Tail(q), returned, answered, e + 1, t, n)
    <3>1. PICK r : r = returned[e + 1] /\ IsRequest(p, r) /\ r.cmd \in Echoes /\ r = [cmd |-> r.cmd, msg |-> r.msg]
      BY <2>1 DEF IsEcho
    <3>2. Cmd(p) = r.cmd /\ Read(RequestClass(r.cmd), Data(p)) = r.msg
      BY <3>1 DEF IsRequest
    <3>3. AnswerClass(r.cmd) = RequestClass(r.cmd)
      BY <3>1 DEF AnswerClass, Echoes
    <3>4. a = r
      BY <1>5, <3>1, <3>2, <3>3
    <3>5. PICK ec : ec = Append(echoed, r) /\ echoed' = ec /\ told' = told
      BY <1>6, <3>1, <3>2, <3>4
    <3>6. IsSeq(ec) /\ Len(ec) = e + 1 /\ (\A i \in 1 .. e : ec[i] = echoed[i]) /\ ec[e + 1] = r
      BY <1>7, <1>8, <3>5, AppendFacts
    <3>7. ASSUME NEW i \in 1 .. e + 1 PROVE ec[i] = returned[i]
      <4>1. CASE i = e + 1
        BY <3>1, <3>6, <4>1
      <4>2. CASE i # e + 1
        <5>1. i \in 1 .. e
          BY <1>9, <4>2
        <5> QED
          BY <1>8, <3>6, <5>1
      <4> QED
        BY <4>1, <4>2
    <3> QED
      BY <1>6, <1>7, <1>8, <2>1, <3>5, <3>6, <3>7 DEF ToldRow
  <2>2. CASE /\ t + 1 <= Len(answered) /\ IsAnswer(p, answered[t + 1])
             /\ Telling(Tail(q), returned, answered, e, t + 1, n)
    <3>1. PICK r : r = answered[t + 1] /\ IsAnswer(p, r)
      BY <2>2
    <3>2. /\ Cmd(p) = r.cmd /\ Data(p) = r.data /\ r.cmd \notin Echoes
          /\ Meaning(r) = [cmd |-> r.cmd, msg |-> Read(AnswerClass(r.cmd), r.data)]
      BY <3>1 DEF IsAnswer
    <3>3. a = Meaning(r)
      BY <1>5, <3>2
    <3>4. PICK te : te = Append(told, a) /\ told' = te /\ echoed' = echoed
      BY <1>6, <3>2
    <3>5. IsSeq(te) /\ Len(te) = t + 1 /\ (\A i \in 1 .. t : te[i] = told[i]) /\ te[t + 1] = a
      BY <1>7, <1>8, <3>4, AppendFacts
    <3>6. ASSUME NEW i \in 1 .. t + 1 PROVE te[i] = Meaning(answered[i])
      <4>1. CASE i = t + 1
        BY <3>1, <3>3, <3>5, <4>1
      <4>2. CASE i # t + 1
        <5>1. i \in 1 .. t
          BY <1>9, <4>2
        <5> QED
          BY <1>8, <3>5, <5>1
      <4> QED
        BY <4>1, <4>2
    <3> QED
      BY <1>6, <1>7, <1>8, <2>2, <3>4, <3>5, <3>6 DEF ToldRow
  <2>3. PICK r, an : r = returned /\ an = answered
    OBVIOUS
  <2>4. Telling(q, r, an, e, t, n) /\ q # << >> /\ p = q[1]
    BY <1>3, <1>4, <1>8, <2>3
  <2>5. \/ /\ e + 1 <= Len(r) /\ IsEcho(q[1], r[e + 1])
           /\ Telling(Tail(q), r, an, e + 1, t, n)
        \/ /\ t + 1 <= Len(an) /\ IsAnswer(q[1], an[t + 1])
           /\ Telling(Tail(q), r, an, e, t + 1, n)
    BY ONLY <2>4, TellingTake
  <2> QED
    BY ONLY <2>1, <2>2, <2>3, <2>4, <2>5
<1>11. PICK R : R = With(Q, l, Tail(q))
  OBVIOUS
<1>12. /\ R["clientUp"] = Q["clientUp"] /\ R["serverUp"] = Q["serverUp"]
       /\ R["serverDown"] = Q["serverDown"] /\ R["clientDown"] = Tail(q)
  <2>1. IsWith(R, Q, l, Tail(q))
    BY <1>3, <1>11, WithFacts
  <2> QED
    BY <1>3, <2>1, Links DEF IsWith
<1>13. Carried(inbox', buf', wire', R)
  BY <1>4, <1>6, <1>11
<1>14. /\ AskedRow(Q["clientUp"])' /\ PassedRow(Q["serverUp"], o)'
       /\ AnsweredRow(Q["serverDown"], d, n)' /\ Sessions(o, d)'
  BY <1>1, <1>6, RowsStay
<1>15. OnTheWay(R, o, d, n)'
  BY <1>10, <1>12, <1>13, <1>14 DEF OnTheWay
<1> QED
  BY <1>15 DEF IInv

LEMMA NextIInv == ASSUME IInv, [Next]_vars PROVE IInv'
<1>1. CASE \E r \in Request : Ask(r)
  BY <1>1, AskIInv
<1>2. CASE \E l \in Link : Arrive(l) \/ OnMessage(l)
  BY <1>2, ArriveIInv, OnMessageIInv
<1>3. CASE Gateway
  BY <1>3, GatewayLoginIInv, GatewayEchoIInv, GatewayForwardIInv, GatewayServerLoginIInv,
     GatewayAnswerIInv DEF Gateway
<1>4. CASE Logic
  BY <1>4, LogicConnectedIInv, LogicServerAckIInv, LogicDispatchIInv DEF Logic
<1>5. CASE ReadAnswer
  BY <1>5, ReadAnswerIInv
<1>6. CASE UNCHANGED vars
  BY <1>6, StutterIInv
<1> QED
  BY <1>1, <1>2, <1>3, <1>4, <1>5, <1>6 DEF Next

-----------------------------------------------------------------------------
(* What follows from it.                                                   *)

LEMMA PrefixIs ==
  ASSUME NEW s, NEW t, IsSeq(s), IsSeq(t), Len(s) <= Len(t), \A i \in 1 .. Len(s) : s[i] = t[i]
  PROVE  IsPrefix(s, t)
<1>1. PICK k \in Nat : k = Len(s)
  BY SeqElim
<1>2. SubSeq(t, 1, k) = s
  <2>1. IsSeq(t) /\ IsSeq(s) /\ k = Len(s) /\ k <= Len(t) /\ \A i \in 1 .. k : t[i] = s[i]
    BY <1>1
  <2> QED
    BY ONLY k \in Nat, <2>1, BeginningIs
<1>3. SubSeq(s, 1, k) = s
  <2>1. IsSeq(s) /\ k = Len(s) /\ k <= Len(s) /\ \A i \in 1 .. k : s[i] = s[i]
    BY <1>1
  <2> QED
    BY ONLY k \in Nat, <2>1, BeginningIs
<1> QED
  BY <1>1, <1>2, <1>3 DEF IsPrefix

\* The packets are whole, the requests are counted, and the session and the list of servers
\* name nobody else, whatever the clients send.
THEOREM RelayTypeCorrect == Spec => []TypeOK
<1>1. IInv => TypeOK
  <2> SUFFICES ASSUME IInv PROVE TypeOK
    OBVIOUS
  <2>1. PICK Q, o, d, n : OnTheWay(Q, o, d, n)
    BY DEF IInv
  <2>2. ASSUME NEW l \in Link, NEW i \in DOMAIN inbox[l]
        PROVE  /\ Len(inbox[l][i]) = PACKET_SIZE(DataLen(inbox[l][i]))
               /\ inbox[l][i][1] = <<"size", DataLen(inbox[l][i]), 1>>
    <3>1. Carries(inbox[l], buf[l], wire[l], Q[l])
      BY <2>1 DEF OnTheWay, Carried
    <3>2. PICK in : in = inbox[l] /\ Packets(in)
      BY <3>1, InboxIsPackets
    <3>3. IsPacket(in[i])
      BY <3>2, SeqElim DEF Packets
    <3> QED
      BY <3>2, <3>3 DEF IsPacket
  <2>3. /\ started \in BOOLEAN /\ serverIds \subseteq {THIS_SERVER_ID}
        /\ session = NoSession \/ session.user = User
    BY <2>1 DEF OnTheWay, Sessions
  <2>4. handled \in 0 .. Len(asked) /\ Len(asked) <= MaxRequests
    <3>1. IsSeq(asked) /\ Len(asked) <= MaxRequests /\ handled \in Nat /\ handled <= Len(asked)
      BY <2>1 DEF OnTheWay, AskedRow, Row
    <3>2. Len(asked) \in Nat
      BY <3>1, SeqElim
    <3> QED
      BY <3>1, <3>2
  <2> QED
    BY <2>2, <2>3, <2>4 DEF TypeOK
<1> QED
  BY <1>1, InitIInv, NextIInv, PTL DEF Spec

\* The logic server reads what the client wrote, whole, for the right user and in order,
\* wherever the two streams are cut.
THEOREM RequestsAreHeard == Spec => []HeardAsPassed
<1>1. IInv => HeardAsPassed
  <2> SUFFICES ASSUME IInv PROVE HeardAsPassed
    OBVIOUS
  <2>1. PICK Q, o, d, n : OnTheWay(Q, o, d, n)
    BY DEF IInv
  <2>2. PassedRow(Q["serverUp"], o)
    BY <2>1 DEF OnTheWay
  <2>3. /\ IsSeq(heard) /\ IsSeq(passed) /\ Len(heard) <= Len(passed)
        /\ \A i \in 1 .. Len(heard) : heard[i] = passed[i]
    BY <2>2 DEF PassedRow, Row
  <2> QED
    BY <2>3, PrefixIs DEF HeardAsPassed
<1> QED
  BY <1>1, InitIInv, NextIInv, PTL DEF Spec

\* The client reads every answer as the message the logic server wrote, and its own
\* requests where the gateway sends them back, both in their order.
THEOREM AnswersAreTold == Spec => []ToldAsAnswered
<1>1. IInv => ToldAsAnswered
  <2> SUFFICES ASSUME IInv PROVE ToldAsAnswered
    OBVIOUS
  <2>1. PICK Q, o, d, n : OnTheWay(Q, o, d, n)
    BY DEF IInv
  <2>2. PICK e, t : e = Len(echoed) /\ t = Len(told)
    OBVIOUS
  <2>3. PICK q : q = Q["clientDown"]
    OBVIOUS
  <2>4. /\ Telling(q, returned, answered, e, t, n) /\ IsSeq(echoed) /\ IsSeq(told)
        /\ \A i \in 1 .. e : echoed[i] = returned[i]
        /\ \A i \in 1 .. t : told[i] = Meaning(answered[i])
    BY <2>1, <2>2, <2>3 DEF OnTheWay, ToldRow
  <2>5. IsSeq(returned) /\ IsSeq(answered) /\ e <= Len(returned) /\ t <= Len(answered)
    <3>1. PICK r, a : r = returned /\ a = answered
      OBVIOUS
    <3>2. Telling(q, r, a, e, t, n)
      BY <2>4, <3>1
    <3>3. IsSeq(r) /\ IsSeq(a)
      BY <3>2 DEF Telling
    <3>4. e \in 0 .. Len(r) /\ t \in 0 .. Len(a)
      BY ONLY <3>2, TellingRanges
    <3> QED
      BY <3>1, <3>3, <3>4, SeqElim
  <2>6. IsPrefix(echoed, returned)
    BY <2>2, <2>4, <2>5, PrefixIs
  <2>7. PICK z \in Nat : z = Len(answered) /\ DOMAIN answered = 1 .. z
    BY <2>5, SeqElim
  <2>8. PICK m : m = [i \in DOMAIN answered |-> Meaning(answered[i])]
    OBVIOUS
  <2>9. \A i \in 1 .. z : m[i] = Meaning(answered[i])
    BY <2>7, <2>8
  <2>10. m = [i \in 1 .. z |-> m[i]]
    BY <2>7, <2>8
  <2>11. IsSeq(m) /\ Len(m) = z
    BY ONLY z \in Nat, <2>10, SeqIntro
  <2>12. t \in Nat /\ t <= z
    BY <2>2, <2>4, <2>5, <2>7, SeqElim
  <2>13. \A i \in 1 .. t : told[i] = m[i]
    BY <2>4, <2>7, <2>9, <2>12
  <2>14. IsPrefix(told, m)
    BY <2>2, <2>4, <2>11, <2>12, <2>13, PrefixIs
  <2> QED
    BY <2>6, <2>8, <2>14 DEF ToldAsAnswered
<1> QED
  BY <1>1, InitIInv, NextIInv, PTL DEF Spec

\* When the streams are still and the threads have nothing to do, every request has been
\* handled, every answer has reached the client, and no buffer holds part of a message.
THEOREM NothingStaysBehind == Spec => []NothingStuck
<1>1. IInv => NothingStuck
  <2> SUFFICES ASSUME IInv, \A l \in Link : wire[l] = << >> /\ ~EnoughData(buf[l]) /\ inbox[l] = << >>
               PROVE  /\ \A l \in Link : buf[l] = << >>
                      /\ handled = Len(asked)
                      /\ Len(heard) = Len(passed)
                      /\ Len(told) = Len(answered) /\ Len(echoed) = Len(returned)
    BY DEF NothingStuck
  <2>1. PICK Q, o, d, n : OnTheWay(Q, o, d, n)
    BY DEF IInv
  <2>2. ASSUME NEW l \in Link PROVE Q[l] = << >> /\ buf[l] = << >>
    <3>1. Carries(inbox[l], buf[l], wire[l], Q[l])
      BY <2>1 DEF OnTheWay, Carried
    <3>2. PICK in, b, w, q : in = inbox[l] /\ b = buf[l] /\ w = wire[l] /\ q = Q[l]
      OBVIOUS
    <3>3. Carries(in, b, w, q) /\ in = << >> /\ w = << >> /\ ~EnoughData(b)
      BY <3>1, <3>2
    <3>4. q = << >> /\ b = << >>
      BY ONLY <3>3, Still
    <3> QED
      BY <3>2, <3>4
  <2>3. PICK no : no = << >> /\ Len(no) = 0
    BY EmptyIsSeq
  <2>4. /\ Q["clientUp"] = no /\ Q["serverUp"] = no /\ Q["serverDown"] = no
        /\ Q["clientDown"] = no
    BY <2>2, <2>3, Links
  <2>5. ASSUME NEW l, NEW k, NEW xs, NEW h, Row(l, no, k, xs, h)
        PROVE  h = Len(xs) /\ k = 0
    <3>1. Len(xs) \in Nat
      BY <2>5, SeqElim DEF Row
    <3> QED
      BY <2>3, <2>5, <3>1 DEF Row
  <2>6. handled = Len(asked)
    BY <2>1, <2>4, <2>5 DEF OnTheWay, AskedRow
  <2>7. Len(heard) = Len(passed)
    BY <2>1, <2>4, <2>5 DEF OnTheWay, PassedRow
  <2>8. n = Len(answered)
    BY <2>1, <2>4, <2>5 DEF OnTheWay, AnsweredRow
  <2>9. Len(told) = Len(answered) /\ Len(echoed) = Len(returned)
    <3>1. PICK r, a, e, t : r = returned /\ a = answered /\ e = Len(echoed) /\ t = Len(told)
      OBVIOUS
    <3>2. Telling(<< >>, r, a, e, t, n)
      BY <2>1, <2>3, <2>4, <3>1 DEF OnTheWay, ToldRow
    <3>3. e = Len(r) /\ t = n
      BY ONLY <3>2, TellingStill
    <3> QED
      BY <2>8, <3>1, <3>3
  <2> QED
    BY <2>2, <2>6, <2>7, <2>9
<1> QED
  BY <1>1, InitIInv, NextIInv, PTL DEF Spec

\* Whatever fields are set, a message is read as it was written, and two messages in a row
\* as MergeFrom merges them.
THEOREM CodecIsFaithful == Spec => []CodecFaithful
<1>1. CodecFaithful
  <2> SUFFICES ASSUME NEW c \in Class, NEW m \in Sample(c)
               PROVE  /\ ByteSize(c, m) = Len(Serialize(c, m))
                      /\ ParseFromArray(c, Serialize(c, m)) = [ok |-> TRUE, msg |-> m, at |-> ByteSize(c, m)]
                      /\ \A d \in {c, "ReqClientReady"} : \A k \in Sample(d) :
                            LET read == ParseFromArray(c, Serialize(d, k))
                            IN  read.ok => ParseFromArray(c, Serialize(d, k) \o Serialize(c, m)).msg
                                           = MergeFrom(c, read.msg, m)
    BY DEF CodecFaithful
  <2>1. OfClass(c, m)
    BY SampleAssumption
  <2>2. ByteSize(c, m) = Len(Serialize(c, m))
    BY <2>1, SizeIsAnnounced
  <2>3. ParseFromArray(c, Serialize(c, m)) = [ok |-> TRUE, msg |-> m, at |-> ByteSize(c, m)]
    BY ONLY c \in Class, <2>1, MessageIsReadBack
  <2>4. ASSUME NEW d \in {c, "ReqClientReady"}, NEW k \in Sample(d),
               ParseFromArray(c, Serialize(d, k)).ok
        PROVE  ParseFromArray(c, Serialize(d, k) \o Serialize(c, m)).msg
               = MergeFrom(c, ParseFromArray(c, Serialize(d, k)).msg, m)
    <3>1. d \in Class
      BY RequestClasses
    <3>2. OfClass(d, k)
      BY <3>1, SampleAssumption
    <3> QED
      BY ONLY c \in Class, <2>1, <2>4, <3>1, <3>2, MessagesMerge
  <2> QED
    BY <2>2, <2>3, <2>4
<1> QED
  BY <1>1, PTL
=============================================================================
