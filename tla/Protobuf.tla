------------------------------ MODULE Protobuf ------------------------------
(***************************************************************************)
(* What the generated message classes do (src/projects/proto).  The        *)
(* generator wrote the methods of every class to the same patterns from a  *)
(* table of its fields (Messages); here they are operators over the table. *)
(*                                                                         *)
(* A message is a function from the names of the fields that are set to    *)
(* their values.  A repeated field is a sequence, set when it is not       *)
(* empty; "unknown" holds the bytes of fields the class does not know.  A  *)
(* byte string is a sequence of cells: a tag, a varint, a length and the   *)
(* text of a string take one cell each, however they are spelled.          *)
(*                                                                         *)
(* A method that calls itself for the messages in a message takes what is  *)
(* to be done for them as an argument: no class holds messages more than   *)
(* two deep, and the method is there for none, one and two levels.         *)
(***************************************************************************)
EXTENDS Messages, SequencesExt

Number(c) == DOMAIN Schema[c]
IsMessage(type) == type \in Class

\* int32 and int64 are varints; strings and messages carry their length.
WireType(type) == IF type = "int" THEN "varint" ELSE "delimited"

-----------------------------------------------------------------------------
(* Messages.                                                               *)

Clear == [f \in {} |-> 0]

IsSet(m, f) == f \in DOMAIN m
Set(m, f, v) == [g \in DOMAIN m \cup {f} |-> IF g = f THEN v ELSE m[g]]
List(m, f) == IF IsSet(m, f) THEN m[f] ELSE << >>

\* The accessors of an optional number and of an optional message.
GetInt(m, f) == IF IsSet(m, f) THEN m[f] ELSE 0
GetMessage(m, f) == IF IsSet(m, f) THEN m[f] ELSE Clear

\* MergeFrom: fields set in b win, messages in messages are merged, lists are appended to.
MergeWith(c, a, b, Inner(_, _, _)) ==
    LET rows(f) == {row \in {Schema[c][n] : n \in Number(c)} : row.name = f /\ ~row.repeated}
        type(f) == (CHOOSE row \in rows(f) : TRUE).type
    IN  [f \in DOMAIN a \cup DOMAIN b |->
            IF rows(f) = {} THEN List(a, f) \o List(b, f)
            ELSE IF ~IsSet(b, f) THEN a[f]
            ELSE IF IsMessage(type(f)) THEN Inner(type(f), GetMessage(a, f), b[f]) ELSE b[f]]

MergeFrom0(c, a, b) == MergeWith(c, a, b, LAMBDA t, x, y : y)
MergeFrom1(c, a, b) == MergeWith(c, a, b, MergeFrom0)
MergeFrom(c, a, b) == MergeWith(c, a, b, MergeFrom1)

-----------------------------------------------------------------------------
(* Writing.                                                                *)

TextSize(v) == IF v = "" THEN 0 ELSE 1

Values(row, m) ==
    IF row.repeated THEN List(m, row.name)
    ELSE IF IsSet(m, row.name) THEN <<m[row.name]>> ELSE << >>

\* The values of a field with what is to be known of the field.
Numbered(n, type, vs) == [i \in DOMAIN vs |-> [number |-> n, type |-> type, value |-> vs[i]]]

\* What is to be written, by number; the elements of a list one after the other.
Fields(c, m) ==
    FlattenSeq([n \in Number(c) |-> Numbered(n, Schema[c][n].type, Values(Schema[c][n], m))])

Total(sizes) ==
    LET sum[n \in 0 .. Len(sizes)] == IF n = 0 THEN 0 ELSE sum[n - 1] + sizes[n]
    IN  sum[Len(sizes)]

\* What a field takes, size being that of the message it holds.
FieldLength(f, size) ==
    CASE f.type = "int"    -> 2
      [] f.type = "string" -> 2 + TextSize(f.value)
      [] OTHER             -> 2 + size

\* What each field takes.
Lengths(fs, Inner(_, _)) ==
    [i \in DOMAIN fs |-> FieldLength(fs[i], Inner(fs[i].type, fs[i].value))]

\* ByteSize, which leaves the size of every message inside in its cache.
SizeWith(c, m, Inner(_, _)) ==
    Total(Lengths(Fields(c, m), Inner)) + Len(List(m, "unknown"))

ByteSize0(c, m) == SizeWith(c, m, LAMBDA t, v : 0)
ByteSize1(c, m) == SizeWith(c, m, ByteSize0)
ByteSize(c, m) == SizeWith(c, m, ByteSize1)

\* The cells of a field, size and cells being those of the message it holds.
FieldCells(f, size, cells) ==
    <<<<"tag", f.number, WireType(f.type)>>>> \o
    CASE f.type = "int"    -> <<<<"int", f.value>>>>
      [] f.type = "string" -> <<<<"len", TextSize(f.value)>>>> \o
                              (IF f.value = "" THEN << >> ELSE <<<<"text", f.value>>>>)
      [] OTHER             -> <<<<"len", size>>>> \o cells

\* The cells of each field.
AllCells(fs, InnerSize(_, _), Inner(_, _)) ==
    [i \in DOMAIN fs |-> FieldCells(fs[i], InnerSize(fs[i].type, fs[i].value),
                                    Inner(fs[i].type, fs[i].value))]

\* SerializeWithCachedSizes: the fields, a message after the size in its cache, then what
\* the class does not know.
WriteWith(c, m, InnerSize(_, _), Inner(_, _)) ==
    FlattenSeq(AllCells(Fields(c, m), InnerSize, Inner)) \o List(m, "unknown")

Serialize0(c, m) == WriteWith(c, m, LAMBDA t, v : 0, LAMBDA t, v : << >>)
Serialize1(c, m) == WriteWith(c, m, ByteSize0, Serialize0)
Serialize(c, m) == WriteWith(c, m, ByteSize1, Serialize1)

-----------------------------------------------------------------------------
(* Reading.                                                                *)

\* The number of cells of the field that begins at s[i], more than s has if it is cut short.
FieldSize(s, i) ==
    IF i >= Len(s) \/ s[i][1] # "tag" THEN Len(s) + 1
    ELSE IF s[i][3] = "varint" THEN 2
    ELSE IF s[i + 1][1] = "len" THEN 2 + s[i + 1][2] ELSE Len(s) + 1

\* Variant with a fault: a list keeps what came last.
StoreLast(m, row, v) == Set(m, row.name, IF row.repeated THEN <<v>> ELSE v)

Store(m, row, v) == Set(m, row.name, IF row.repeated THEN Append(List(m, row.name), v) ELSE v)

\* A turn of the loop over the field of this row from s[i] to s[end].  A field of another
\* number or another wire type than the table's is kept as unknown; a message that does not
\* read leaves what it could: sub is what comes of it.
TurnTo(c, s, r, sub, i, end, row) ==
    IF end > Len(s) THEN [r EXCEPT !.ok = FALSE]
    ELSE IF s[i][2] \notin Number(c) \/ WireType(row.type) # s[i][3]
    THEN [r EXCEPT !.at = end, !.msg = Set(@, "unknown", List(@, "unknown") \o SubSeq(s, i, end))]
    ELSE CASE row.type = "int"    -> [r EXCEPT !.at = end, !.msg = Store(@, row, s[i + 1][2])]
           [] row.type = "string" ->
                  [r EXCEPT !.at = end, !.msg = Store(@, row, IF end = i + 1 THEN "" ELSE s[i + 2][2])]
           [] OTHER -> [ok |-> sub.ok, msg |-> Store(r.msg, row, sub.msg), at |-> end]

\* One turn of the loop of MergePartialFromCodedStream: the field behind the cells read so
\* far, if there is one and it does read.
Turn(c, s, r, sub) ==
    IF ~r.ok \/ r.at = Len(s) THEN r
    ELSE TurnTo(c, s, r, sub, r.at + 1, r.at + FieldSize(s, r.at + 1), Schema[c][s[r.at + 1][2]])

\* These cells of a field that is a message, and what of m they are read into: an optional
\* one into what there is of it.
InRow(row, m, cells) ==
    [type  |-> row.type,
     into  |-> IF row.repeated THEN Clear ELSE GetMessage(m, row.name),
     cells |-> cells]

\* The message in the field behind the cells read so far.
Behind(c, s, r) ==
    InRow(Schema[c][s[r.at + 1][2]], r.msg, SubSeq(s, r.at + 3, r.at + FieldSize(s, r.at + 1)))

\* The cells s read into m: in as many turns as there are cells at the most.
ReadWith(c, m, s, Inner(_, _, _)) ==
    LET sub(b) == Inner(b.type, b.into, b.cells)
        read[k \in 0 .. Len(s)] ==
            IF k = 0 THEN [ok |-> TRUE, msg |-> m, at |-> 0]
            ELSE Turn(c, s, read[k - 1], sub(Behind(c, s, read[k - 1])))
    IN  read[Len(s)]

MergeFromCells0(c, m, s) == ReadWith(c, m, s, LAMBDA t, x, y : [ok |-> FALSE, msg |-> x, at |-> 0])
MergeFromCells1(c, m, s) == ReadWith(c, m, s, MergeFromCells0)
MergeFromCells(c, m, s) == ReadWith(c, m, s, MergeFromCells1)

\* ParseFromArray into a new object.  No class has a required field, so that what was
\* read is always complete; no caller looks at ok.
ParseFromArray(c, s) == MergeFromCells(c, Clear, s)

-----------------------------------------------------------------------------
(* The messages the program makes: of each class those that have nothing   *)
(* unknown and every field that is set of its type.                        *)

OfClassWith(c, m, Inner(_, _)) ==
    /\ m = [f \in DOMAIN m |-> m[f]]
    /\ \A f \in DOMAIN m : \E n \in Number(c) : Schema[c][n].name = f
    /\ \A n \in Number(c) :
          LET row == Schema[c][n]
              vs == Values(row, m)
          IN  /\ Len(vs) \in Nat /\ vs = [i \in 1 .. Len(vs) |-> vs[i]]
              /\ IsSet(m, row.name) => vs # << >>
              /\ \A i \in DOMAIN vs :
                    CASE row.type = "int"    -> vs[i] \in Int
                      [] row.type = "string" -> vs[i] \in STRING
                      [] OTHER               -> Inner(row.type, vs[i])

OfClass0(c, m) == OfClassWith(c, m, LAMBDA t, v : FALSE)
OfClass1(c, m) == OfClassWith(c, m, OfClass0)
OfClass(c, m) == OfClassWith(c, m, OfClass1)
=============================================================================
