---------------------------- MODULE PacketFields ----------------------------
(***************************************************************************)
(* PacketBuilder and PacketReader (reborn_protocol/codec.py): a host       *)
(* writes typed fields one after the other, and another host takes the     *)
(* packet apart, either field by field or in a loop while has_data(); the  *)
(* packet may have been cut short on the way.                              *)
(***************************************************************************)
EXTENDS GType

CONSTANTS Field,       \* the fields hosts write: [kind, value]
          LoopKind,    \* kinds a has_data() loop reads, or "skip"
          MaxFields,   \* bound: fields in a packet
          MaxLoopData  \* bound: bytes of a packet read in a loop

\* The G-type integers, and the position encoding built on GSHORT.
Numeric == {"gchar", "gshort", "gint3", "gint4", "gint5", "position2"}
Kind    == Numeric \cup {"byte", "string", "gstring", "gstring_short"}

\* What the write_ methods are called with.
Typed(f) == /\ f.kind = "gint5" => f.value \in GInt5Int
            /\ f.kind \in (Numeric \ {"gint5"}) \cup {"byte"} => f.value \in Int
            /\ f.kind \in {"string", "gstring", "gstring_short"} =>
                  f.value \in Seq(Byte)

ASSUME FieldsAssumption == /\ \A f \in Field : f.kind \in Kind /\ Typed(f)
                           /\ LoopKind \subseteq (Kind \ {"string"}) \cup {"skip"}
                           /\ MaxFields \in Nat /\ MaxLoopData \in Nat

VARIABLES fields,  \* what was written, in order
          data,    \* PacketBuilder._data, then PacketReader.data
          pos,     \* PacketReader.pos
          got,     \* the values read so far
          mode     \* "build", then "schema" or the kind a loop reads

vars == <<fields, data, pos, got, mode>>

-----------------------------------------------------------------------------
\* int(tiles * 16), for tiles given in half pixels.
Pixels(halves) == IF halves < 0 THEN - ((- halves) \div 2) ELSE halves \div 2

\* write_position2: the sign goes into the lowest bit.
Position2(halves) == LET p == Pixels(halves)
                     IN  GShort(IF p < 0 THEN 2 * (- p) + 1 ELSE 2 * p)

\* encoded[:max]
Cut(s, max) == SubSeq(s, 1, Clamp(Len(s), max))

\* Fault: what the length cannot count is written all the same.
GStringUncut(s) == GChar(Len(s)) \o s

\* write_gstring and write_gstring_short cut what the length cannot count.
GString(s)      == LET e == Cut(s, 223) IN GChar(Len(e)) \o e
GStringShort(s) == LET e == Cut(s, GShortMax) IN GShort(Len(e)) \o e

\* The write_ method of each kind.
Written(f) ==
    CASE f.kind = "byte"          -> <<f.value % 256>>
      [] f.kind = "gchar"         -> GChar(f.value)
      [] f.kind = "gshort"        -> GShort(f.value)
      [] f.kind = "gint3"         -> GInt3(f.value)
      [] f.kind = "gint4"         -> GInt4(f.value)
      [] f.kind = "gint5"         -> GInt5(f.value)
      [] f.kind = "position2"     -> Position2(f.value)
      [] f.kind = "string"        -> f.value
      [] f.kind = "gstring"       -> GString(f.value)
      [] f.kind = "gstring_short" -> GStringShort(f.value)

-----------------------------------------------------------------------------
\* The result of a read_ method: the value, and the new position.
Result(value, p) == [value |-> value, pos |-> p]

\* read_byte: past the end, zero and no move.
ReadByte(p) == IF p >= Len(data) THEN Result(0, p)
                                 ELSE Result(data[p + 1], p + 1)

Lanes(n, p) == SubSeq(data, p + 1, p + n)

\* Fault: a number that is cut short leaves the position where it is.
TakeStuck(n, p, value, zero) ==
    IF p + n > Len(data) THEN Result(zero, p)
    ELSE Result(value, p + n)

\* The early return of the multi-byte reads: a number that is cut short is
\* zero, and ends the packet ("avoid infinite loop in has_data() readers").
Take(n, p, value, zero) ==
    IF p + n > Len(data) THEN Result(zero, Len(data))
    ELSE Result(value, p + n)

\* read_string clips the length to the data.
ReadString(length, p) ==
    LET end == Clamp(p + NonNegative(length), Len(data))
    IN  Result(SubSeq(data, p + 1, end), end)

\* read_position2, in half pixels; unlike the other reads it keeps a negative
\* sum.
OfPosition2(b) == LET raw    == 128 * (b[1] - 32) + (b[2] - 32)
                      pixels == raw \div 2
                  IN  2 * (IF raw % 2 = 1 THEN - pixels ELSE pixels)

\* read_gchar is read_byte less the offset.
ReadGChar(p) == LET r == ReadByte(p) IN Result(NonNegative(r.value - 32), r.pos)

\* The read_ method of each kind; n is the length a raw string is read with.
Read(kind, n, p) ==
    CASE kind = "byte"      -> ReadByte(p)
      [] kind = "gchar"     -> ReadGChar(p)
      [] kind = "gshort"    -> Take(2, p, OfGShort(Lanes(2, p)), 0)
      [] kind = "gint3"     -> Take(3, p, OfGInt3(Lanes(3, p)), 0)
      [] kind = "gint4"     -> Take(4, p, OfGInt4(Lanes(4, p)), 0)
      [] kind = "gint5"     -> Take(5, p, OfGInt5(Lanes(5, p)), [high |-> 0, low |-> 0])
      [] kind = "position2" -> Take(2, p, OfPosition2(Lanes(2, p)), 0)
      [] kind = "string"    -> ReadString(n, p)
      [] kind = "gstring"   -> LET r == ReadGChar(p)
                               IN  ReadString(r.value, r.pos)
      [] kind = "gstring_short" -> LET r == Take(2, p, OfGShort(Lanes(2, p)), 0)
                                   IN  ReadString(r.value, r.pos)

-----------------------------------------------------------------------------
Init == fields = <<>> /\ data = <<>> /\ pos = 0 /\ got = <<>> /\ mode = "build"

\* One write_ call.
Write(f) == /\ mode = "build" /\ Len(fields) < MaxFields
            /\ fields' = Append(fields, f)
            /\ data' = data \o Written(f)
            /\ UNCHANGED <<pos, got, mode>>

\* build(), and a PacketReader on what arrives of it: the host knows which
\* fields to expect, or only that there are more.
Arrive == /\ mode = "build"
          /\ \E n \in 0 .. Len(data) : data' = SubSeq(data, 1, n)
          /\ \/ mode' = "schema" /\ UNCHANGED fields
             \/ Len(data') <= MaxLoopData /\ mode' \in LoopKind /\ fields' = <<>>
          /\ UNCHANGED <<pos, got>>

\* The host reads the field that was written next, data or not.
ReadField ==
    /\ mode = "schema" /\ Len(got) < Len(fields)
    /\ LET f == fields[Len(got) + 1]
           r == Read(f.kind, IF f.kind = "string" THEN Len(f.value) ELSE 0, pos)
       IN  got' = Append(got, r.value) /\ pos' = r.pos
    /\ UNCHANGED <<fields, data, mode>>

\* skip(count), as far as there is data.
Skip(count, p) == IF p + count > Len(data) THEN Len(data) ELSE p + count

\* while reader.has_data(): the host reads, or skips a byte.
ReadLoop == /\ mode \in LoopKind /\ pos < Len(data)
            /\ pos' = IF mode = "skip" THEN Skip(1, pos)
                                       ELSE Read(mode, 0, pos).pos
            /\ UNCHANGED <<fields, data, got, mode>>

Next == \/ \E f \in Field : Write(f)
        \/ Arrive \/ ReadField \/ ReadLoop

\* A host that reads a packet reads on.
Spec == Init /\ [][Next]_vars /\ WF_vars(ReadLoop)

-----------------------------------------------------------------------------
\* The value of a field after the documented clamping and cutting.
Kept(f) ==
    CASE f.kind = "byte"          -> f.value % 256
      [] f.kind = "gchar"         -> Clamp(f.value, 223)
      [] f.kind = "gshort"        -> Clamp(f.value, GShortMax)
      [] f.kind = "gint3"         -> Clamp(f.value, GInt3Max)
      [] f.kind = "gint4"         -> Clamp(f.value, GInt4Max)
      [] f.kind = "position2"     -> 2 * Pixels(f.value)
      [] f.kind = "gstring"       -> Cut(f.value, 223)
      [] f.kind = "gstring_short" -> Cut(f.value, GShortMax)
      [] f.kind = "gint5"         -> Clamp5(f.value)
      [] f.kind = "string"        -> f.value

\* Ends(fs)[i]: where the first i of the fields fs end in the packet as it
\* was built.
Ends(fs) == LET end[i \in 0 .. Len(fs)] ==
                    IF i = 0 THEN 0 ELSE end[i - 1] + Len(Written(fs[i]))
            IN  end

EndOf(i) == Ends(fields)[i]

\* The packet is what was written of every field, one behind the other, as far
\* as it arrived: strengthens ReadsBack and CursorAligned.
Laid == /\ Len(data) <= EndOf(Len(fields)) \/ mode \in LoopKind
        /\ mode = "build" => Len(data) = EndOf(Len(fields)) /\ got = <<>>
        /\ Len(got) <= Len(fields)
        /\ \A i \in 1 .. Len(fields) : \A j \in 1 .. Len(Written(fields[i])) :
              EndOf(i - 1) + j <= Len(data) =>
                  data[EndOf(i - 1) + j] = Written(fields[i])[j]

\* A field that arrived whole reads back as it was written, whatever fields
\* are around it and wherever the packet was cut.
ReadsBack == \A i \in 1 .. Len(got) :
                EndOf(i) <= Len(data) => got[i] = Kept(fields[i])

\* The reader stays on the boundaries of the fields, and at the end of a
\* packet once it has run out: one wrong width shifts every later field.
CursorAligned == mode = "schema" =>
                    pos = Clamp(EndOf(Len(got)), Len(data))

\* No G-type byte is below the offset, so none is the newline that separates
\* the packets of a bundle ("must clamp to 223, not wrap mod 256 into '\n'").
NoControlByte == \A i \in 1 .. Len(fields) :
                    fields[i].kind \in Numeric =>
                        \A j \in 1 .. Len(Written(fields[i])) :
                            Written(fields[i])[j] >= 32

\* The comment's fix of the rewound reader: no read, on any bytes, moves
\* backwards or past the end.
ForwardOnly == [][mode # "build" => pos <= pos' /\ pos' <= Len(data)]_vars

\* A has_data() loop comes to its end, whatever it reads ("avoid infinite
\* loop in has_data() readers").
LoopEnds == mode \in LoopKind ~> pos = Len(data)
=============================================================================
