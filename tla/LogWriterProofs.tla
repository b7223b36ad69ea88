-------------------------- MODULE LogWriterProofs ---------------------------
(***************************************************************************)
(* Proofs about LogWriter: no record is lost or written twice between a    *)
(* writer's buffer, its cache and its file, and what was logged before     *)
(* ~Logger is in the files when it returns, for every number of writers,   *)
(* records and bytes a write() takes.                                      *)
(***************************************************************************)
EXTENDS LogWriter, SequenceTheorems, TLAPS

-----------------------------------------------------------------------------
(* Sequences.                                                              *)

LEMMA ConcatAppend ==
  ASSUME NEW S, NEW s \in Seq(S), NEW t \in Seq(S), NEW e \in S
  PROVE  s \o Append(t, e) = Append(s \o t, e)
<1>1. s \o t \in Seq(S) /\ <<e>> \in Seq(S)
  BY ConcatProperties
<1>2. Append(t, e) = t \o <<e>> /\ Append(s \o t, e) = (s \o t) \o <<e>>
  BY <1>1, AppendIsConcat
<1> QED
  BY <1>1, <1>2, ConcatAssociative

\* A piece off the front of what is left.
LEMMA PieceThenRest ==
  ASSUME NEW S, NEW s \in Seq(S), NEW p \in 0 .. Len(s), NEW n \in Nat, p + n <= Len(s)
  PROVE  /\ SubSeq(s, p + 1, p + n) \in Seq(S)
         /\ SubSeq(s, p + n + 1, Len(s)) \in Seq(S)
         /\ Len(SubSeq(s, p + 1, p + n)) = n
         /\ SubSeq(s, p + 1, p + n) \o SubSeq(s, p + n + 1, Len(s)) = SubSeq(s, p + 1, Len(s))
<1>1. Len(s) \in Nat /\ \A i \in 1 .. Len(s) : s[i] \in S
  BY LenProperties, ElementOfSeq
<1>2. SubSeq(s, p + 1, p + n) \in Seq(S) /\ Len(SubSeq(s, p + 1, p + n)) = n
  BY <1>1, SubSeqProperties
<1>3. SubSeq(s, p + n + 1, Len(s)) \in Seq(S)
  BY <1>1, SubSeqProperties
<1>4. SubSeq(s, p + 1, p + n) \o SubSeq(s, p + n + 1, Len(s)) = SubSeq(s, p + 1, Len(s))
  <2>1. PICK m, k : m = p + 1 /\ k = p + n
    OBVIOUS
  <2>2. m \in 1 .. Len(s) + 1 /\ k \in m - 1 .. Len(s) /\ Len(s) \in k .. Len(s)
    BY <1>1, <2>1
  <2>3. SubSeq(s, m, k) \o SubSeq(s, k + 1, Len(s)) = SubSeq(s, m, Len(s))
    BY <2>2, ConcatAdjacentSubSeq
  <2> QED
    BY <2>1, <2>3
<1> QED
  BY <1>2, <1>3, <1>4

-----------------------------------------------------------------------------
(* The inductive invariant.                                                *)

\* The bound on the records bounds what a writer holds.
RoomLeft == \A w \in Writer : Len(cache[w]) + Len(buffer[w]) <= last

\* Only the writer that is being written has anything in its cache, so the swap leaves an
\* empty buffer.
CachesEmpty == \A w \in Writer : ~(lpc = "write" /\ w = cur) => cache[w] = <<>>

WritingAt == lpc = "write" => cur \in writers /\ pos <= Len(cache[cur])

RecordsInv == RoomLeft /\ CachesEmpty /\ WritingAt /\ NoRecordLost

\* A module without a writer logs to the process's.
WritersKnown == 0 \in writers /\ \A w \in Writer \ writers : logged[w] = <<>>

Phases ==
    /\ run => lpc \in {"top", "flush", "write"} /\ ~joined
    /\ joined => lpc \in {"flush", "write", "destroyed"}
    /\ joined /\ lpc # "destroyed" => due = Writer
    /\ lpc = "destroyed" => joined /\ cur \notin Writer

\* The writers ~Logger has passed are written as far as they have to be, and the one it
\* is at will be.
OwedWritten ==
    \A w \in Writer :
        /\ owed[w] <= Len(logged[w])
        /\ joined /\ w < cur => owed[w] <= Len(out[w])
        /\ joined /\ lpc = "write" /\ w = cur =>
               owed[w] <= Len(out[w]) + (Len(cache[w]) - pos)

EndInv == WritersKnown /\ Phases /\ OwedWritten

IInv == TypeOK /\ RecordsInv /\ EndInv

LEMMA ZeroWriter == 0 \in Writer /\ Writer \subseteq Nat
BY LogAssumption DEF Writer

LEMMA InitIInv == Init => IInv
<1> SUFFICES ASSUME Init PROVE IInv
  OBVIOUS
<1> USE DEF Init
<1>1. TypeOK
  BY LogAssumption, ZeroWriter DEF TypeOK
<1>2. NoRecordLost
  <2>1. \A w \in Writer : Unwritten(w) = <<>>
    BY SubSeqEmpty DEF Unwritten
  <2> QED
    BY <2>1 DEF NoRecordLost
<1>3. RecordsInv
  BY <1>2 DEF RecordsInv, RoomLeft, CachesEmpty, WritingAt
<1>4. EndInv
  BY ZeroWriter DEF EndInv, WritersKnown, Phases, OwedWritten
<1> QED
  BY <1>1, <1>3, <1>4 DEF IInv

-----------------------------------------------------------------------------
(* What the invariant says of one writer.                                  *)

LEMMA UnwrittenFacts ==
  ASSUME TypeOK, WritingAt, NEW w \in Writer
  PROVE  /\ Unwritten(w) \in Seq(Record)
         /\ lpc = "write" /\ w = cur => Len(Unwritten(w)) = Len(cache[w]) - pos
         /\ ~(lpc = "write" /\ w = cur) => Unwritten(w) = cache[w]
<1>1. cache[w] \in Seq(Record) /\ Len(cache[w]) \in Nat /\ pos \in Nat
  BY LenProperties DEF TypeOK
<1>2. ASSUME lpc = "write" /\ w = cur
      PROVE  Unwritten(w) \in Seq(Record) /\ Len(Unwritten(w)) = Len(cache[w]) - pos
  <2>1. pos \in 0 .. Len(cache[w]) /\ Len(cache[w]) - pos \in Nat
    BY <1>1, <1>2 DEF WritingAt
  <2>2. /\ SubSeq(cache[w], pos + 1, pos + (Len(cache[w]) - pos)) \in Seq(Record)
        /\ Len(SubSeq(cache[w], pos + 1, pos + (Len(cache[w]) - pos))) = Len(cache[w]) - pos
    BY <1>1, <2>1, PieceThenRest
  <2>3. pos + (Len(cache[w]) - pos) = Len(cache[w])
    BY <1>1
  <2> QED
    BY <1>2, <2>2, <2>3 DEF Unwritten
<1>3. ASSUME ~(lpc = "write" /\ w = cur)
      PROVE  Unwritten(w) = cache[w]
  <2>1. Unwritten(w) = SubSeq(cache[w], 0 + 1, Len(cache[w]))
    BY <1>3 DEF Unwritten
  <2>2. SubSeq(cache[w], 1, Len(cache[w])) = cache[w]
    BY <1>1, SubSeqFull
  <2> QED
    BY <2>1, <2>2
<1> QED
  BY <1>1, <1>2, <1>3

LEMMA WriterFacts ==
  ASSUME IInv, NEW w \in Writer
  PROVE  /\ buffer[w] \in Seq(Record) /\ cache[w] \in Seq(Record) /\ out[w] \in Seq(Record)
         /\ logged[w] \in Seq(Record) /\ Unwritten(w) \in Seq(Record)
         /\ Len(buffer[w]) \in Nat /\ Len(cache[w]) \in Nat /\ Len(out[w]) \in Nat
         /\ Len(logged[w]) \in Nat /\ Len(Unwritten(w)) \in Nat /\ owed[w] \in Nat
         /\ (out[w] \o Unwritten(w)) \o buffer[w] = logged[w]
         /\ Len(out[w]) + Len(Unwritten(w)) + Len(buffer[w]) = Len(logged[w])
<1>1. /\ buffer[w] \in Seq(Record) /\ cache[w] \in Seq(Record) /\ out[w] \in Seq(Record)
      /\ logged[w] \in Seq(Record) /\ owed[w] \in Nat
  BY DEF IInv, TypeOK
<1>2. Unwritten(w) \in Seq(Record)
  BY UnwrittenFacts DEF IInv, RecordsInv
<1>3. (out[w] \o Unwritten(w)) \o buffer[w] = logged[w]
  BY DEF IInv, RecordsInv, NoRecordLost
<1>4. /\ out[w] \o Unwritten(w) \in Seq(Record)
      /\ Len(out[w] \o Unwritten(w)) = Len(out[w]) + Len(Unwritten(w))
  BY <1>1, <1>2, ConcatProperties
<1>5. Len(logged[w]) = Len(out[w] \o Unwritten(w)) + Len(buffer[w])
  <2>1. Len((out[w] \o Unwritten(w)) \o buffer[w]) = Len(out[w] \o Unwritten(w)) + Len(buffer[w])
    BY <1>1, <1>4, ConcatProperties
  <2> QED
    BY <1>3, <2>1
<1>6. /\ Len(buffer[w]) \in Nat /\ Len(cache[w]) \in Nat /\ Len(out[w]) \in Nat
      /\ Len(logged[w]) \in Nat /\ Len(Unwritten(w)) \in Nat
  BY <1>1, <1>2, LenProperties
<1> QED
  BY <1>1, <1>2, <1>3, <1>4, <1>5, <1>6

-----------------------------------------------------------------------------
(* What the steps do to the records.                                       *)

\* Everything but logging, swapping and writing.
LEMMA RecordsStay ==
  ASSUME IInv, UNCHANGED <<buffer, cache, out, logged, last>>, writers \subseteq writers',
         UNCHANGED <<lpc, cur, pos>> \/ (lpc # "write" /\ lpc' # "write")
  PROVE  RecordsInv'
<1> USE DEF IInv, RecordsInv
<1>1. RoomLeft' /\ CachesEmpty' /\ WritingAt'
  BY DEF RoomLeft, CachesEmpty, WritingAt
<1>2. \A w \in Writer : Unwritten(w)' = Unwritten(w)
  BY DEF Unwritten
<1>3. NoRecordLost'
  BY <1>2 DEF NoRecordLost
<1> QED
  BY <1>1, <1>3

LEMMA LoggingIInv ==
  ASSUME IInv, NEW m \in Writer, Logging(m)
  PROVE  IInv'
<1> DEFINE w == WriterOf(m)
<1>1. /\ w \in Writer /\ w \in writers
      /\ last \in Nat /\ last < MaxRecords /\ last' = last + 1 /\ last' \in Record
      /\ buffer' = [buffer EXCEPT ![w] = Append(@, last')]
      /\ logged' = [logged EXCEPT ![w] = Append(@, last')]
      /\ UNCHANGED <<writers, cache, pos, out, run, joined, lpc, cur, due, owed>>
  BY LogAssumption, ZeroWriter
  DEF Logging, WriterOf, Record, IInv, TypeOK, EndInv, WritersKnown
<1> HIDE DEF w
<1>2. /\ buffer \in [Writer -> Seq(Record)] /\ logged \in [Writer -> Seq(Record)]
  BY DEF IInv, TypeOK
<1>3. /\ Append(buffer[w], last') \in Seq(Record)
      /\ Len(Append(buffer[w], last')) = Len(buffer[w]) + 1
      /\ Append(logged[w], last') \in Seq(Record)
      /\ Len(Append(logged[w], last')) = Len(logged[w]) + 1
  BY <1>1, <1>2, AppendProperties
<1>4. /\ buffer' \in [Writer -> Seq(Record)] /\ logged' \in [Writer -> Seq(Record)]
      /\ buffer'[w] = Append(buffer[w], last') /\ logged'[w] = Append(logged[w], last')
      /\ \A x \in Writer : x # w => buffer'[x] = buffer[x] /\ logged'[x] = logged[x]
  BY <1>1, <1>2, <1>3
<1>5. TypeOK'
  BY <1>1, <1>4, LogAssumption DEF IInv, TypeOK
<1>6. RoomLeft'
  <2> SUFFICES ASSUME NEW x \in Writer PROVE Len(cache[x]) + Len(buffer'[x]) <= last + 1
    BY <1>1 DEF RoomLeft
  <2>1. Len(cache[x]) + Len(buffer[x]) <= last /\ Len(cache[x]) \in Nat /\ Len(buffer[x]) \in Nat
    BY WriterFacts DEF IInv, RecordsInv, RoomLeft
  <2>2. Len(buffer'[x]) = Len(buffer[x]) \/ Len(buffer'[x]) = Len(buffer[x]) + 1
    BY <1>3, <1>4
  <2>3. PICK c \in Nat, b \in Nat, a \in Nat :
           c = Len(cache[x]) /\ b = Len(buffer[x]) /\ a = Len(buffer'[x])
    BY <2>1, <2>2
  <2>4. c + b <= last /\ (a = b \/ a = b + 1) /\ last \in Nat
    BY <1>1, <2>1, <2>2, <2>3
  <2>5. c + a <= last + 1
    BY <2>4
  <2> QED
    BY <2>3, <2>5
<1>7. CachesEmpty' /\ WritingAt'
  BY <1>1 DEF IInv, RecordsInv, CachesEmpty, WritingAt
<1>8. NoRecordLost'
  <2> SUFFICES ASSUME NEW x \in Writer
               PROVE  (out[x] \o Unwritten(x)) \o buffer'[x] = logged'[x]
    <3>1. \A x \in Writer : Unwritten(x)' = Unwritten(x)
      BY <1>1 DEF Unwritten
    <3> QED
      BY <1>1, <3>1 DEF NoRecordLost
  <2>1. /\ out[x] \in Seq(Record) /\ Unwritten(x) \in Seq(Record) /\ buffer[x] \in Seq(Record)
        /\ (out[x] \o Unwritten(x)) \o buffer[x] = logged[x]
    BY WriterFacts
  <2>2. PICK s \in Seq(Record) : s = out[x] \o Unwritten(x)
    BY <2>1, ConcatProperties
  <2>3. s \o Append(buffer[x], last') = Append(s \o buffer[x], last')
    <3>1. PICK t \in Seq(Record), e \in Record : t = buffer[x] /\ e = last'
      BY <1>1, <2>1
    <3>2. s \o Append(t, e) = Append(s \o t, e)
      BY ConcatAppend
    <3> QED
      BY <3>1, <3>2
  <2> QED
    BY <1>4, <2>1, <2>2, <2>3
<1>9. EndInv'
  <2>1. WritersKnown' /\ Phases'
    BY <1>1, <1>4 DEF IInv, EndInv, WritersKnown, Phases
  <2>2. OwedWritten'
    <3>1. \A x \in Writer : Len(logged[x]) \in Nat /\ owed[x] \in Nat /\ owed[x] <= Len(logged[x])
      BY WriterFacts DEF IInv, EndInv, OwedWritten
    <3>2. \A x \in Writer : Len(logged[x]) <= Len(logged'[x]) /\ Len(logged'[x]) \in Nat
      BY <1>1, <1>3, <1>4, <3>1
    <3>3. \A x \in Writer : owed[x] <= Len(logged'[x])
      BY <3>1, <3>2
    <3> QED
      BY <1>1, <3>3 DEF IInv, EndInv, OwedWritten
  <2> QED
    BY <2>1, <2>2 DEF EndInv
<1> QED
  BY <1>5, <1>6, <1>7, <1>8, <1>9 DEF IInv, RecordsInv

\* The full buffer becomes the cache, and the empty cache the buffer.
LEMMA SwitchBufferIInv ==
  ASSUME IInv, SwitchBuffer
  PROVE  IInv'
<1>1. /\ lpc = "flush" /\ cur \in writers /\ cur \in Writer
      /\ cache' = [cache EXCEPT ![cur] = buffer[cur]]
      /\ buffer' = [buffer EXCEPT ![cur] = cache[cur]]
      /\ pos' = 0 /\ lpc' = "write"
      /\ UNCHANGED <<writers, out, run, joined, cur, due, logVars, owed>>
  BY DEF SwitchBuffer, IInv, TypeOK
<1>2. buffer \in [Writer -> Seq(Record)] /\ cache \in [Writer -> Seq(Record)]
  BY DEF IInv, TypeOK
<1>3. cache[cur] = <<>>
  BY <1>1 DEF IInv, RecordsInv, CachesEmpty
<1>4. /\ cache'[cur] = buffer[cur] /\ buffer'[cur] = <<>>
      /\ \A x \in Writer : x # cur => cache'[x] = cache[x] /\ buffer'[x] = buffer[x]
      /\ buffer' \in [Writer -> Seq(Record)] /\ cache' \in [Writer -> Seq(Record)]
  BY <1>1, <1>2, <1>3
<1>5. TypeOK'
  BY <1>1, <1>4, LogAssumption DEF IInv, TypeOK, logVars
<1>6. RoomLeft'
  <2> SUFFICES ASSUME NEW x \in Writer PROVE Len(cache'[x]) + Len(buffer'[x]) <= last
    BY <1>1 DEF RoomLeft, logVars
  <2>1. Len(cache[x]) + Len(buffer[x]) <= last /\ Len(cache[x]) \in Nat /\ Len(buffer[x]) \in Nat
    BY WriterFacts DEF IInv, RecordsInv, RoomLeft
  <2>0. last \in Nat
    BY LogAssumption DEF IInv, TypeOK
  <2>2. CASE x = cur
    <3>1. Len(buffer'[x]) = 0 /\ cache'[x] = buffer[x]
      BY <1>4, <2>2, EmptySeq
    <3>2. PICK c \in Nat, b \in Nat : c = Len(cache[x]) /\ b = Len(buffer[x])
      BY <2>1
    <3>3. c + b <= last
      BY <2>0, <2>1, <3>2
    <3>4. b + 0 <= last
      BY <2>0, <3>3
    <3> QED
      BY <3>1, <3>2, <3>4
  <2>3. CASE x # cur
    BY <1>4, <2>1, <2>3
  <2> QED
    BY <2>2, <2>3
<1>7. CachesEmpty' /\ WritingAt'
  <2>1. Len(cache'[cur]) \in Nat
    BY <1>1, <1>4, WriterFacts
  <2> QED
    BY <1>1, <1>4, <2>1 DEF IInv, RecordsInv, CachesEmpty, WritingAt
<1>8. NoRecordLost'
  <2> SUFFICES ASSUME NEW x \in Writer
               PROVE  (out[x] \o Unwritten(x)') \o buffer'[x] = logged[x]
    BY <1>1 DEF NoRecordLost, logVars
  <2>1. /\ out[x] \in Seq(Record) /\ Unwritten(x) = cache[x] /\ buffer[x] \in Seq(Record)
        /\ (out[x] \o cache[x]) \o buffer[x] = logged[x]
    BY <1>1, WriterFacts, UnwrittenFacts DEF IInv, RecordsInv
  <2>2. CASE x = cur
    <3>1. Unwritten(x)' = SubSeq(buffer[x], 0 + 1, Len(buffer[x]))
      BY <1>1, <1>4, <2>2 DEF Unwritten
    <3>2. SubSeq(buffer[x], 1, Len(buffer[x])) = buffer[x]
      BY <2>1, SubSeqFull
    <3>3. out[x] \o <<>> = out[x]
      BY <2>1, ConcatEmptySeq
    <3>4. (out[x] \o buffer[x]) \o <<>> = out[x] \o buffer[x]
      BY <2>1, ConcatProperties, ConcatEmptySeq
    <3>5. out[x] \o buffer[x] = logged[x]
      BY <1>3, <2>1, <2>2, <3>3
    <3> QED
      <4>1. Unwritten(x)' = buffer[x]
        BY <3>1, <3>2
      <4>2. buffer'[x] = <<>>
        BY <1>4, <2>2
      <4> QED
        BY <3>4, <3>5, <4>1, <4>2
  <2>3. CASE x # cur
    <3>1. Unwritten(x)' = Unwritten(x)
      BY <1>1, <1>4, <2>3 DEF Unwritten
    <3> QED
      BY <1>4, <2>1, <2>3, <3>1
  <2> QED
    BY <2>2, <2>3
<1>9. WritersKnown' /\ Phases'
  BY <1>1 DEF IInv, EndInv, WritersKnown, Phases, logVars
<1>10. OwedWritten'
  <2>1. \A x \in Writer : x < cur /\ joined => owed[x] <= Len(out[x])
    BY DEF IInv, EndInv, OwedWritten
  <2>2. \A x \in Writer : owed[x] <= Len(logged[x])
    BY DEF IInv, EndInv, OwedWritten
  <2>3. Unwritten(cur) = <<>> /\ Len(Unwritten(cur)) = 0
    BY <1>1, <1>3, UnwrittenFacts, EmptySeq DEF IInv, RecordsInv
  <2>4. Len(out[cur]) + Len(buffer[cur]) = Len(logged[cur])
    <3>1. /\ Len(out[cur]) + Len(Unwritten(cur)) + Len(buffer[cur]) = Len(logged[cur])
          /\ Len(out[cur]) \in Nat /\ Len(buffer[cur]) \in Nat
      BY <1>1, WriterFacts
    <3>2. PICK a \in Nat, b \in Nat : a = Len(out[cur]) /\ b = Len(buffer[cur])
      BY <3>1
    <3>3. a + 0 + b = Len(logged[cur])
      BY <2>3, <3>1, <3>2
    <3>4. a + 0 + b = a + b
      OBVIOUS
    <3> QED
      BY <3>2, <3>3, <3>4
  <2>5. Len(buffer[cur]) - 0 = Len(buffer[cur])
    BY <1>1, WriterFacts
  <2>6. owed[cur] <= Len(out[cur]) + (Len(cache'[cur]) - pos')
    BY <1>1, <1>4, <2>2, <2>4, <2>5
  <2> QED
    BY <1>1, <2>1, <2>2, <2>6 DEF OwedWritten, logVars
<1> QED
  BY <1>5, <1>6, <1>7, <1>8, <1>9, <1>10 DEF IInv, RecordsInv, EndInv

\* A piece goes from the cache to the file.
LEMMA WritePieceIInv ==
  ASSUME IInv, WritePiece
  PROVE  IInv'
<1>1. PICK n \in Pieces(Len(cache[cur]) - pos) :
        /\ out' = [out EXCEPT ![cur] = @ \o SubSeq(cache[cur], pos + 1, pos + n)]
        /\ pos' = pos + n
  BY DEF WritePiece
<1>2. /\ lpc = "write" /\ pos < Len(cache[cur])
      /\ UNCHANGED <<writers, buffer, cache, run, joined, lpc, cur, due, logVars, owed>>
      /\ cur \in Writer /\ pos \in Nat /\ Len(cache[cur]) \in Nat /\ cache[cur] \in Seq(Record)
      /\ out \in [Writer -> Seq(Record)] /\ out[cur] \in Seq(Record) /\ Len(out[cur]) \in Nat
      /\ buffer[cur] \in Seq(Record)
  BY WriterFacts DEF WritePiece, IInv, TypeOK, RecordsInv, WritingAt
<1>3. n \in Nat /\ pos + n <= Len(cache[cur])
  BY <1>2, LogAssumption DEF Pieces
<1> DEFINE piece == SubSeq(cache[cur], pos + 1, pos + n)
           rest  == SubSeq(cache[cur], pos + n + 1, Len(cache[cur]))
<1>4. /\ piece \in Seq(Record) /\ rest \in Seq(Record) /\ Len(piece) = n
      /\ piece \o rest = SubSeq(cache[cur], pos + 1, Len(cache[cur]))
  <2>1. PICK s \in Seq(Record), p \in Nat : s = cache[cur] /\ p = pos
    BY <1>2
  <2>2. p \in 0 .. Len(s) /\ p + n <= Len(s)
    BY <1>2, <1>3, <2>1
  <2>3. /\ SubSeq(s, p + 1, p + n) \in Seq(Record)
        /\ SubSeq(s, p + n + 1, Len(s)) \in Seq(Record)
        /\ Len(SubSeq(s, p + 1, p + n)) = n
        /\ SubSeq(s, p + 1, p + n) \o SubSeq(s, p + n + 1, Len(s)) = SubSeq(s, p + 1, Len(s))
    BY <1>3, <2>2, PieceThenRest
  <2> QED
    BY <2>1, <2>3
<1>5. /\ Unwritten(cur) = piece \o rest
      /\ \A x \in Writer : x = cur => Unwritten(x)' = rest
      /\ \A x \in Writer : x # cur => Unwritten(x)' = Unwritten(x)
  BY <1>1, <1>2, <1>4 DEF Unwritten
<1>6. /\ out'[cur] = out[cur] \o piece /\ out'[cur] \in Seq(Record)
      /\ Len(out'[cur]) = Len(out[cur]) + n
      /\ \A x \in Writer : x # cur => out'[x] = out[x]
      /\ out' \in [Writer -> Seq(Record)]
  <2>1. out[cur] \o piece \in Seq(Record) /\ Len(out[cur] \o piece) = Len(out[cur]) + n
    BY <1>2, <1>4, ConcatProperties
  <2> HIDE DEF piece
  <2> QED
    BY <1>1, <1>2, <2>1 DEF piece
<1> HIDE DEF piece, rest
<1>7. TypeOK'
  <2>1. Len(cache[cur]) <= MaxRecords
    <3>1. Len(cache[cur]) + Len(buffer[cur]) <= last /\ Len(buffer[cur]) \in Nat
      BY <1>2, WriterFacts DEF IInv, RecordsInv, RoomLeft
    <3>2. last \in Nat /\ last <= MaxRecords
      BY LogAssumption DEF IInv, TypeOK
    <3>3. PICK c \in Nat, b \in Nat : c = Len(cache[cur]) /\ b = Len(buffer[cur])
      BY <1>2, <3>1
    <3>4. c + b <= last
      BY <3>1, <3>2, <3>3
    <3>5. c <= last
      BY <3>2, <3>4
    <3> QED
      BY <3>2, <3>3, <3>5, LogAssumption
  <2>2. pos' \in 0 .. MaxRecords
    BY <1>1, <1>2, <1>3, <2>1, LogAssumption
  <2> QED
    BY <1>2, <1>6, <2>2 DEF IInv, TypeOK, logVars
<1>8. RoomLeft' /\ CachesEmpty' /\ WritingAt'
  BY <1>1, <1>2, <1>3 DEF IInv, RecordsInv, RoomLeft, CachesEmpty, WritingAt, logVars
<1>9. NoRecordLost'
  <2> SUFFICES ASSUME NEW x \in Writer
               PROVE  (out'[x] \o Unwritten(x)') \o buffer[x] = logged[x]
    BY <1>2 DEF NoRecordLost, logVars
  <2>1. (out[x] \o Unwritten(x)) \o buffer[x] = logged[x]
    BY WriterFacts
  <2>2. CASE x = cur
    <3>1. out[cur] \o (piece \o rest) = (out[cur] \o piece) \o rest
      <4>1. PICK s \in Seq(Record), t \in Seq(Record), r \in Seq(Record) :
               s = out[cur] /\ t = piece /\ r = rest
        BY <1>2, <1>4
      <4>2. (s \o t) \o r = s \o (t \o r)
        BY ConcatAssociative
      <4> QED
        BY <4>1, <4>2
    <3>2. ((out[cur] \o piece) \o rest) \o buffer[cur] = logged[cur]
      BY <1>5, <2>1, <2>2, <3>1
    <3> QED
      BY <1>5, <1>6, <2>2, <3>2
  <2>3. CASE x # cur
    BY <1>5, <1>6, <2>1, <2>3
  <2> QED
    BY <2>2, <2>3
<1>10. WritersKnown' /\ Phases'
  BY <1>2 DEF IInv, EndInv, WritersKnown, Phases, logVars
<1>11. OwedWritten'
  <2> SUFFICES ASSUME NEW x \in Writer
               PROVE  /\ owed[x] <= Len(logged[x])
                      /\ joined /\ x < cur => owed[x] <= Len(out'[x])
                      /\ joined /\ lpc = "write" /\ x = cur =>
                             owed[x] <= Len(out'[x]) + (Len(cache[x]) - pos')
    BY <1>2 DEF OwedWritten, logVars
  <2>1. /\ owed[x] <= Len(logged[x])
        /\ joined /\ x < cur => owed[x] <= Len(out[x])
        /\ joined /\ lpc = "write" /\ x = cur =>
               owed[x] <= Len(out[x]) + (Len(cache[x]) - pos)
    BY DEF IInv, EndInv, OwedWritten
  <2>2. CASE x = cur
    <3>1. Len(out[cur]) + (Len(cache[cur]) - pos) = Len(out'[cur]) + (Len(cache[cur]) - pos')
      <4>1. PICK o, c, p, m \in Nat :
              o = Len(out[cur]) /\ c = Len(cache[cur]) /\ p = pos /\ m = n
        BY <1>2, <1>3
      <4>2. Len(out'[cur]) = o + m /\ pos' = p + m
        BY <1>1, <1>6, <4>1
      <4>3. o + (c - p) = (o + m) + (c - (p + m))
        OBVIOUS
      <4> QED
        BY <4>1, <4>2, <4>3, Zenon
    <3>2. ~(x < cur)
      BY <2>2, ZeroWriter, <1>2
    <3> QED
      BY <2>1, <2>2, <3>1, <3>2
  <2>3. CASE x # cur
    BY <1>6, <2>1, <2>3
  <2> QED
    BY <2>2, <2>3
<1> QED
  BY <1>7, <1>8, <1>9, <1>10, <1>11 DEF IInv, RecordsInv, EndInv

\* The cache has been written, and is emptied.
LEMMA WriteDoneIInv ==
  ASSUME IInv, WriteDone
  PROVE  IInv'
<1>1. /\ lpc = "write" /\ pos = Len(cache[cur])
      /\ cache' = [cache EXCEPT ![cur] = <<>>]
      /\ pos' = 0 /\ cur' = cur + 1 /\ lpc' = "flush"
      /\ UNCHANGED <<writers, buffer, out, run, joined, due, logVars, owed>>
      /\ cur \in Writer /\ cache \in [Writer -> Seq(Record)]
  BY DEF WriteDone, IInv, TypeOK, RecordsInv, WritingAt
<1>2. /\ cache'[cur] = <<>> /\ cache' \in [Writer -> Seq(Record)]
      /\ \A x \in Writer : x # cur => cache'[x] = cache[x]
  BY <1>1
<1>3. \A x \in Writer : cache'[x] = <<>>
  BY <1>1, <1>2 DEF IInv, RecordsInv, CachesEmpty
<1>4. TypeOK'
  <2>1. cur' \in 0 .. Modules + 1 /\ pos' \in 0 .. MaxRecords
    BY <1>1, LogAssumption DEF Writer
  <2> QED
    BY <1>1, <1>2, <2>1 DEF IInv, TypeOK, logVars
<1>5. RoomLeft'
  <2> SUFFICES ASSUME NEW x \in Writer PROVE Len(<<>>) + Len(buffer[x]) <= last
    BY <1>1, <1>3 DEF RoomLeft, logVars
  <2>1. Len(cache[x]) + Len(buffer[x]) <= last /\ Len(cache[x]) \in Nat /\ Len(buffer[x]) \in Nat
    BY WriterFacts DEF IInv, RecordsInv, RoomLeft
  <2>2. last \in Nat /\ Len(<<>>) = 0
    BY LogAssumption, EmptySeq DEF IInv, TypeOK
  <2>3. PICK c \in Nat, b \in Nat : c = Len(cache[x]) /\ b = Len(buffer[x])
    BY <2>1
  <2>4. c + b <= last
    BY <2>1, <2>2, <2>3
  <2>5. 0 + b <= last
    BY <2>2, <2>4
  <2> QED
    BY <2>2, <2>3, <2>5
<1>6. CachesEmpty' /\ WritingAt'
  BY <1>1, <1>3 DEF CachesEmpty, WritingAt
<1>7. \A x \in Writer : Unwritten(x) = <<>> /\ Unwritten(x)' = <<>>
  <2> SUFFICES ASSUME NEW x \in Writer PROVE Unwritten(x) = <<>> /\ Unwritten(x)' = <<>>
    OBVIOUS
  <2>1. Unwritten(x)' = SubSeq(<<>>, 0 + 1, Len(<<>>))
    BY <1>1, <1>3 DEF Unwritten
  <2>2. SubSeq(<<>>, 1, Len(<<>>)) = <<>>
    BY EmptySeq, SubSeqEmpty
  <2>3. Unwritten(x) = <<>>
    <3>1. CASE x = cur
      <4>1. Unwritten(x) = SubSeq(cache[cur], pos + 1, pos) /\ pos \in Nat
        BY <1>1, <3>1 DEF Unwritten, IInv, TypeOK
      <4> QED
        BY <4>1, SubSeqEmpty
    <3>2. CASE x # cur
      BY <1>1, <1>2, <1>3, <3>2, UnwrittenFacts DEF IInv, RecordsInv
    <3> QED
      BY <3>1, <3>2
  <2> QED
    BY <2>1, <2>2, <2>3
<1>8. NoRecordLost'
  <2>1. \A x \in Writer : (out[x] \o Unwritten(x)) \o buffer[x] = logged[x]
    BY WriterFacts
  <2> QED
    BY <1>1, <1>7, <2>1 DEF NoRecordLost, logVars
<1>9. WritersKnown' /\ Phases'
  BY <1>1 DEF IInv, EndInv, WritersKnown, Phases, logVars
<1>10. OwedWritten'
  <2> SUFFICES ASSUME NEW x \in Writer
               PROVE  /\ owed[x] <= Len(logged[x])
                      /\ joined /\ x < cur + 1 => owed[x] <= Len(out[x])
    BY <1>1 DEF OwedWritten, logVars
  <2>1. /\ owed[x] <= Len(logged[x])
        /\ joined /\ x < cur => owed[x] <= Len(out[x])
        /\ joined /\ x = cur => owed[x] <= Len(out[x]) + (Len(cache[x]) - pos)
    BY <1>1 DEF IInv, EndInv, OwedWritten
  <2>2. x \in Nat /\ cur \in Nat
    BY <1>1, ZeroWriter
  <2>3. x = cur => Len(out[x]) + (Len(cache[x]) - pos) = Len(out[x])
    BY <1>1, WriterFacts
  <2> QED
    BY <2>1, <2>2, <2>3
<1> QED
  BY <1>4, <1>5, <1>6, <1>8, <1>9, <1>10 DEF IInv, RecordsInv, EndInv

-----------------------------------------------------------------------------
(* The steps that leave the records alone.                                 *)

LEMMA QuietIInv ==
  ASSUME IInv,
         \/ \E m \in Writer : AddLogModel(m)
         \/ Start \/ Stop \/ Join \/ ThreadEnd \/ SkipBuffer \/ RoundEnd
         \/ \E late \in SUBSET Writer : RoundBegin(late)
         \/ UNCHANGED vars
  PROVE  IInv'
<1>1. TypeOK /\ RecordsInv /\ WritersKnown /\ Phases /\ OwedWritten
  BY DEF IInv, EndInv
<1>2. \A w \in Writer : /\ owed[w] <= Len(logged[w])
                        /\ joined /\ w < cur => owed[w] <= Len(out[w])
  BY <1>1 DEF OwedWritten
<1>3. ASSUME NEW m \in Writer, AddLogModel(m)
      PROVE  IInv'
  <2> USE <1>3 DEF AddLogModel, logVars
  <2>1. RecordsInv'
    BY RecordsStay
  <2>2. TypeOK' /\ WritersKnown' /\ Phases' /\ OwedWritten'
    BY <1>1 DEF TypeOK, WritersKnown, Phases, OwedWritten
  <2> QED
    BY <2>1, <2>2 DEF IInv, EndInv
<1>4. CASE Start
  <2> USE <1>4 DEF Start, logVars
  <2>1. RecordsInv'
    BY RecordsStay
  <2>2. TypeOK' /\ WritersKnown' /\ Phases' /\ OwedWritten'
    BY <1>1 DEF TypeOK, WritersKnown, Phases, OwedWritten
  <2> QED
    BY <2>1, <2>2 DEF IInv, EndInv
<1>5. CASE Stop
  <2> USE <1>5 DEF Stop, logVars
  <2>1. RecordsInv'
    BY RecordsStay
  <2>2. \A w \in Writer : Len(logged[w]) \in Nat
    BY WriterFacts
  <2>3. owed' \in [Writer -> Nat] /\ \A w \in Writer : owed'[w] = Len(logged[w])
    BY <2>2
  <2>4. TypeOK' /\ WritersKnown' /\ Phases'
    BY <1>1, <2>3 DEF TypeOK, WritersKnown, Phases
  <2>5. ~joined
    BY <1>1 DEF Phases
  <2>6. OwedWritten'
    BY <2>2, <2>3, <2>5 DEF OwedWritten
  <2> QED
    BY <2>1, <2>4, <2>6 DEF IInv, EndInv
<1>6. CASE Join
  <2> USE <1>6 DEF Join, logVars
  <2>1. RecordsInv'
    BY RecordsStay
  <2>2. TypeOK' /\ WritersKnown' /\ Phases'
    BY <1>1, LogAssumption DEF TypeOK, WritersKnown, Phases
  <2>3. OwedWritten'
    BY <1>2, ZeroWriter DEF OwedWritten
  <2> QED
    BY <2>1, <2>2, <2>3 DEF IInv, EndInv
<1>7. CASE ThreadEnd
  <2> USE <1>7 DEF ThreadEnd, logVars
  <2>1. RecordsInv'
    BY RecordsStay
  <2>2. TypeOK' /\ WritersKnown' /\ Phases' /\ OwedWritten'
    BY <1>1 DEF TypeOK, WritersKnown, Phases, OwedWritten
  <2> QED
    BY <2>1, <2>2 DEF IInv, EndInv
<1>8. CASE SkipBuffer
  <2> USE <1>8 DEF SkipBuffer, logVars
  <2>1. RecordsInv'
    BY RecordsStay
  <2>0. cur' \in 0 .. Modules + 1
    BY LogAssumption DEF Writer
  <2>2. TypeOK' /\ WritersKnown' /\ Phases'
    BY <1>1, <2>0 DEF TypeOK, WritersKnown, Phases
  <2>3. ASSUME joined
        PROVE  owed[cur] <= Len(out[cur])
    <3>1. due = Writer /\ cur \notin writers
      BY <1>1, <2>3 DEF Phases, Due
    <3>2. logged[cur] = <<>>
      BY <1>1, <3>1 DEF WritersKnown
    <3>3. Len(logged[cur]) = 0 /\ owed[cur] <= Len(logged[cur])
      BY <1>2, <3>2, EmptySeq
    <3>4. owed[cur] \in Nat /\ Len(out[cur]) \in Nat
      BY WriterFacts
    <3> QED
      BY <3>3, <3>4
  <2>4. OwedWritten'
    <3>1. \A w \in Writer : w < cur' => w < cur \/ w = cur
      BY ZeroWriter
    <3> QED
      BY <1>2, <2>3, <3>1 DEF OwedWritten
  <2> QED
    BY <2>1, <2>2, <2>4 DEF IInv, EndInv
<1>9. CASE RoundEnd
  <2> USE <1>9 DEF RoundEnd, logVars
  <2>1. RecordsInv'
    BY RecordsStay
  <2>2. TypeOK' /\ WritersKnown' /\ Phases' /\ OwedWritten'
    BY <1>1 DEF TypeOK, WritersKnown, Phases, OwedWritten
  <2> QED
    BY <2>1, <2>2 DEF IInv, EndInv
<1>10. ASSUME NEW late \in SUBSET Writer, RoundBegin(late)
       PROVE  IInv'
  <2> USE <1>10 DEF RoundBegin, logVars
  <2>1. RecordsInv'
    BY RecordsStay
  <2>2. TypeOK' /\ WritersKnown' /\ Phases'
    BY <1>1, LogAssumption DEF TypeOK, WritersKnown, Phases
  <2>3. OwedWritten'
    BY <1>2, ZeroWriter DEF OwedWritten
  <2> QED
    BY <2>1, <2>2, <2>3 DEF IInv, EndInv
<1>11. CASE UNCHANGED vars
  <2> USE <1>11 DEF vars, logVars
  <2>1. RecordsInv'
    BY RecordsStay
  <2>2. TypeOK' /\ WritersKnown' /\ Phases' /\ OwedWritten'
    BY <1>1 DEF TypeOK, WritersKnown, Phases, OwedWritten
  <2> QED
    BY <2>1, <2>2 DEF IInv, EndInv
<1> QED
  BY <1>3, <1>4, <1>5, <1>6, <1>7, <1>8, <1>9, <1>10, <1>11

LEMMA NextIInv == IInv /\ [Next]_vars => IInv'
<1> SUFFICES ASSUME IInv, [Next]_vars PROVE IInv'
  OBVIOUS
<1> QED
  BY LoggingIInv, SwitchBufferIInv, WritePieceIInv, WriteDoneIInv, QuietIInv DEF Next, Flush

-----------------------------------------------------------------------------
(* The theorems.                                                           *)

\* The logger's variables keep their types, pos within the cache it counts in.
THEOREM LoggerTypeCorrect == Spec => []TypeOK
<1>1. IInv => TypeOK
  BY DEF IInv
<1> QED
  BY <1>1, InitIInv, NextIInv, PTL DEF Spec

\* File, rest of the cache and buffer of a writer make up what was logged to it, in order
\* and each record once, however the logging threads meet the swaps and the writes.
THEOREM RecordsAreKept == Spec => []NoRecordLost
<1>1. IInv => NoRecordLost
  BY DEF IInv, RecordsInv
<1> QED
  BY <1>1, InitIInv, NextIInv, PTL DEF Spec

\* ~Logger returns with the files holding all that was logged before it began.
THEOREM EndWritesAll == Spec => []WrittenAtEnd
<1>1. IInv => WrittenAtEnd
  <2> SUFFICES ASSUME IInv, lpc = "destroyed", NEW w \in Writer
               PROVE  Len(out[w]) >= owed[w]
    BY DEF WrittenAtEnd
  <2>1. joined /\ cur \in 0 .. Modules + 1 /\ cur \notin Writer
    BY DEF IInv, TypeOK, EndInv, Phases
  <2>2. w < cur
    BY <2>1, LogAssumption DEF Writer
  <2>3. owed[w] <= Len(out[w])
    BY <2>1, <2>2 DEF IInv, EndInv, OwedWritten
  <2> QED
    BY <2>3, WriterFacts
<1> QED
  BY <1>1, InitIInv, NextIInv, PTL DEF Spec
=============================================================================
