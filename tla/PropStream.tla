----------------------------- MODULE PropStream -----------------------------
(***************************************************************************)
(* Property streams (reborn_protocol/props.py): a run of [gchar id]        *)
(* [payload] pairs, written with encode_value and walked by                *)
(* parse_prop_stream.  Nothing delimits a payload but the descriptor of    *)
(* its id, so one wrong width misaligns every property after it.           *)
(*                                                                         *)
(* A value is a sequence: of the number, of the numbers or of the bytes.   *)
(* Coordinates are given in half tiles or in pixels, as on the wire.       *)
(***************************************************************************)
EXTENDS GType

CONSTANTS Tables,     \* the property tables in use: [id -> descriptor]
          Prop,       \* table -> what hosts write: [id, value]
          Junk,       \* bytes of another peer that may follow a stream
          Policies,   \* the StreamPolicy of each reader
          MaxProps,   \* bound: properties in a stream
          None        \* the Python value None

VARIABLES table,      \* the table both sides use
          colors,     \* the width the writer gives COLORS
          policy,     \* the reader's StreamPolicy
          props,      \* what was written
          data, pos,  \* the stream, and how far the walk has got
          last,       \* last_prop_id
          out,        \* for each property walked its handler's call,
                      \* [id, value], or None
          clean,      \* the second result
          ends,       \* history: where each of props ended when written
          phase       \* "write", "walk", "done"

vars == <<table, colors, policy, props, data, pos, last, out, clean, ends,
          phase>>

-----------------------------------------------------------------------------
(* Descriptors and tables.                                                 *)

GBYTE(width) == [wire |-> "GBYTE", width |-> width, bias |-> 0]
RAW(width)   == [wire |-> "RAW", width |-> width, bias |-> 0]
POWER(bias)  == [wire |-> "SWORDPOWER", width |-> 0, bias |-> bias]
Plain(wire)  == [wire |-> wire, width |-> 0, bias |-> 0]

PLAYER_PROPS == [id \in 0 .. 83 |->
    CASE id \in {0, 10, 12, 20, 21, 34, 35, 52, 75, 82}
            \cup 37 .. 41 \cup 46 .. 49 \cup 54 .. 74 -> Plain("STRING")
      [] id \in {14, 25} -> GBYTE(2)
      [] id \in {3, 24, 27, 28, 29, 31, 76} -> GBYTE(3)
      [] id \in {30, 77, 83} -> GBYTE(5)
      [] id = 8 -> POWER(30)        [] id = 9 -> POWER(10)
      [] id = 11 -> Plain("HEADGIF")
      [] id = 13 -> Plain("COLORS") [] id = 23 -> Plain("EFFECTCOLORS")
      [] id \in {15, 16} -> Plain("TILE") [] id = 45 -> Plain("TILEZ")
      [] id \in 78 .. 80 -> Plain("PIXEL")
      [] id = 36 -> Plain("ELORATING") [] id = 42 -> Plain("ATTACHNPC")
      [] id = 51 -> Plain("VOID")
      [] OTHER -> GBYTE(1)]

NPC_PROPS == [id \in 0 .. 77 |->
    CASE id \in {0, 12, 15, 20, 21, 35, 49, 50, 51, 52}
            \cup 36 .. 40 \cup 44 .. 47 \cup 53 .. 73 -> Plain("STRING")
      [] id \in {1, 74} -> Plain("LONGSTRING")
      [] id \in {5, 17} -> GBYTE(3)
      [] id = 10 -> POWER(30)       [] id = 11 -> POWER(10)
      [] id = 16 -> RAW(2)          [] id = 19 -> Plain("COLORS")
      [] id = 22 -> Plain("HEADGIF") [] id = 34 -> Plain("IMAGEPART")
      [] id \in {2, 3} -> Plain("TILE") [] id = 43 -> Plain("TILEZ")
      [] id \in 75 .. 77 -> Plain("PIXEL") [] id = 48 -> Plain("VOID")
      [] OTHER -> GBYTE(1)]

BADDY_PROPS == [id \in 0 .. 10 |->
    CASE id \in {1, 2} -> Plain("HALFTILE")
      [] id = 4 -> Plain("POWERIMAGE")
      [] id \in 8 .. 10 -> Plain("STRING")
      [] OTHER -> GBYTE(1)]

TableOf(t) == CASE t = "player" -> PLAYER_PROPS
                [] t = "npc"    -> NPC_PROPS
                [] t = "baddy"  -> BADDY_PROPS

Table == TableOf(table)

\* What a descriptor can carry: text that its length byte can count, colors of
\* which the first tells a list from none, a power that says whether an image
\* follows, pixels that keep their sign.
Numbers(n)     == [1 .. n -> Int]
IsText(s, max) == s \in Seq(Byte) /\ Len(s) <= max

Legal(d, v) ==
    CASE d.wire = "VOID"       -> TRUE
      [] d.wire = "GBYTE"      -> IF d.width = 5
                                  THEN /\ v \in Numbers(2)
                                       /\ [high |-> v[1], low |-> v[2]]
                                             \in GInt5Value
                                  ELSE v \in Numbers(1)
      [] d.wire = "RAW"        -> v \in Seq(Byte)
      [] d.wire = "STRING"     -> IsText(v, 223)
      [] d.wire = "LONGSTRING" -> IsText(v, GShortMax)
      [] d.wire \in {"TILE", "HALFTILE", "TILEZ"} -> v \in Numbers(1)
      [] d.wire = "PIXEL"      -> /\ v \in Numbers(1)
                                  /\ -14383 <= v[1] /\ v[1] <= 14383
      [] d.wire = "COLORS"     -> v \in Seq(Int)
      [] d.wire = "EFFECTCOLORS" -> v \in Seq(Int) /\ (v # <<>> => v[1] >= 0)
      [] d.wire = "SWORDPOWER" ->
            \/ v \in Numbers(1) /\ v[1] < d.bias
            \/ v \in Nat \X Seq(Byte) /\ IsText(v[2], 223)
      [] d.wire = "POWERIMAGE" -> v \in Int \X Seq(Byte) /\ IsText(v[2], 223)
      [] d.wire = "HEADGIF"    ->
            \/ v \in {"preset"} \X Int
            \/ v \in {"name"} \X Seq(Byte) /\ IsText(v[2], 123)
      [] d.wire \in {"ELORATING", "ATTACHNPC"} -> v \in Numbers(2)
      [] d.wire = "IMAGEPART"  -> v \in Numbers(4)

\* The values that come out of a stream.
Value == Seq(Int) \cup (Int \X ({None} \cup Seq(Int)))
         \cup ({"preset"} \X Int) \cup ({"name"} \X Seq(Int))

ASSUME PropsAssumption ==
    /\ Tables \subseteq {"player", "npc", "baddy"}
    /\ MaxProps \in Nat
    /\ \A p \in Policies : /\ p.colors_len \in {5, 8}
                           /\ p.max_prop_id \in Int
                           /\ p.check_alignment \in BOOLEAN
                           /\ p.require_ascending \in BOOLEAN
                           /\ p.require_full_consume \in BOOLEAN
    /\ Junk \subseteq Seq(Byte)
    /\ None \notin Value
    /\ \A t \in Tables : \A p \in Prop[t] :
          /\ p.id \in 0 .. 223
          /\ p.id \in DOMAIN TableOf(t) => Legal(TableOf(t)[p.id], p.value)

-----------------------------------------------------------------------------
(* encode_value                                                            *)

\* 1 << 7 * (n - 1), the weight of the first of n lanes.
Weight == <<1, 128, 16384, 2097152>>

\* Fault: lanes above 223 wrap around.
LanesUncapped[n \in 1 .. 4] ==
    [t \in Nat |->
        IF n = 1 THEN <<Char(t)>>
        ELSE <<Char(t \div Weight[n])>> \o LanesUncapped[n - 1][t % Weight[n]]]

\* The loop of _gbyte for up to four lanes.
LanesOf[n \in 1 .. 4] ==
    [t \in Nat |->
        IF n = 1 THEN <<Char(Lane(t))>>
        ELSE LET d == Lane(t \div Weight[n])
             IN  <<Char(d)>> \o LanesOf[n - 1][t - d * Weight[n]]]

WrittenUncapped(v, n) == LanesUncapped[n][NonNegative(v)]

\* _gbyte; of five lanes the value is a pair, as in GType.
GByte(v, n) == LanesOf[n][NonNegative(v)]

\* _gstring: the length is clamped, the characters are not cut.
PropString(s, n) == GByte(Len(s), n) \o s

\* _pixel
Pixel(pixels) == GByte(IF pixels < 0 THEN 2 * (- pixels) + 1 ELSE 2 * pixels, 2)

\* Fault: a short list is not filled up.
CutOnly(s, n) == SubSeq(s, 1, Clamp(Len(s), n))

\* colors[:n], filled up with zeros.
Filled(s, n) == [i \in 1 .. n |-> IF i <= Len(s) THEN s[i] ELSE 0]
Chars(s)     == [i \in 1 .. Len(s) |-> GByte(s[i], 1)[1]]

\* halftile & 0xFF, with 223 made 224, through _gchar_unsafe.
Tile(halves) == LET h == halves % 256
                IN  <<Char(IF h = 223 THEN 224 ELSE h)>>

\* str(image): a missing image is written as the four letters None.
ImageText(image) == IF image = None THEN <<78, 111, 110, 101>> ELSE image

\* _power_image and the POWERIMAGE form.
PowerImage(v, bias) ==
    IF Len(v) = 1 THEN GByte(v[1], 1)
    ELSE GByte(bias + v[1], 1) \o PropString(ImageText(v[2]), 1)

\* A preset is a number, a custom name carries its length in the same byte.
HeadGif(v) == IF v[1] = "preset" THEN GByte(IF v[2] > 99 THEN 99 ELSE v[2], 1)
              ELSE GByte(100 + Len(v[2]), 1) \o v[2]

\* encode_value
Encode(d, v, colorsLen) ==
    CASE d.wire = "VOID"       -> <<>>
      [] d.wire = "GBYTE"      -> IF d.width = 5
                                  THEN GInt5Lanes([high |-> v[1], low |-> v[2]])
                                  ELSE GByte(v[1], d.width)
      [] d.wire = "RAW"        -> [i \in 1 .. d.width |->
                                     IF i <= Len(v) THEN v[i] ELSE 32]
      [] d.wire = "STRING"     -> PropString(v, 1)
      [] d.wire = "LONGSTRING" -> PropString(v, 2)
      [] d.wire = "TILE"       -> Tile(v[1])
      [] d.wire = "HALFTILE"   -> GByte(v[1], 1)
      [] d.wire = "TILEZ"      -> GByte(Clamp(v[1] + 50, 220), 1)
      [] d.wire = "PIXEL"      -> Pixel(v[1])
      [] d.wire = "COLORS"     -> Chars(Filled(v, colorsLen))
      [] d.wire = "EFFECTCOLORS" -> IF v = <<>> \/ v[1] = 0 THEN GByte(0, 1)
                                    ELSE Chars(Filled(v, 5))
      [] d.wire \in {"SWORDPOWER", "POWERIMAGE"} -> PowerImage(v, d.bias)
      [] d.wire = "HEADGIF"    -> HeadGif(v)
      [] d.wire = "ELORATING"  -> GByte(512 * (v[1] % 4096) + (v[2] % 512), 3)
      [] d.wire = "ATTACHNPC"  -> GByte(v[1], 1) \o GByte(v[2], 3)
      [] d.wire = "IMAGEPART"  -> GByte(v[1], 2) \o GByte(v[2], 2)
                                  \o GByte(v[3], 1) \o GByte(v[4], 1)

-----------------------------------------------------------------------------
(* decode_value                                                            *)

Result(value, p) == [value |-> value, pos |-> p]
Bytes(p, q)      == SubSeq(data, p + 1, q)     \* data[p:q]
Size             == Len(data)

\* Fault: lanes are masked to seven bits and joined with |.
JoinedLanes(b) ==
    LET v[n \in 0 .. Len(b)] ==
            IF n = 0 THEN 0 ELSE 128 * v[n - 1] + ((b[n] - 32) % 128)
    IN  v[Len(b)]

\* value += (data[pos + i] - 32) << ...
SumOfLanes(b) ==
    LET v[n \in 0 .. Len(b)] ==
            IF n = 0 THEN 0 ELSE 128 * v[n - 1] + (b[n] - 32)
    IN  v[Len(b)]

\* Fault: junk below the offset gives a negative number.
ReadGByteSigned(p, n) ==
    IF p + n > Size THEN Result(None, Size)
    ELSE LET b == Bytes(p, p + n)
         IN  Result(IF n = 5 THEN <<OfGInt5(b).high, OfGInt5(b).low>>
                             ELSE <<SumOfLanes(b)>>, p + n)

\* _read_gbyte
ReadGByte(p, n) ==
    IF p + n > Size THEN Result(None, Size)
    ELSE LET b == Bytes(p, p + n)
         IN  Result(IF n = 5 THEN <<OfGInt5(b).high, OfGInt5(b).low>>
                             ELSE <<NonNegative(SumOfLanes(b))>>, p + n)

\* Fault: the string is clipped to the data, as PacketReader does.
ReadStringClipped(p) ==
    LET r == ReadGByte(p, 1)
    IN  IF r.value = None THEN r
        ELSE LET end == Clamp(r.pos + r.value[1], Size)
             IN  Result(IF r.value[1] = 0 THEN None ELSE Bytes(r.pos, end), end)

\* _read_string: None when empty, and also when cut short, but then with the
\* position the length asked for.
ReadString(p) ==
    LET r == ReadGByte(p, 1)
    IN  IF r.value = None \/ r.value = <<0>> THEN Result(None, r.pos)
        ELSE LET end == r.pos + r.value[1]
             IN  Result(IF end > Size THEN None ELSE Bytes(r.pos, end), end)

Or(value, default) == IF value = None THEN default ELSE value
Ord(p) == data[p + 1] - 32                      \* data[p] - 32
Charred(p, q) == [i \in 1 .. q - p |-> NonNegative(Ord(p + i - 1))]

\* The forms that begin with one byte they cannot do without; p is in range.
DecodeByte(d, p, colorsLen) ==
    LET raw == Ord(p)
    IN  CASE d.wire = "TILE" ->
               Result(<<IF raw >= 216 THEN raw - 256 ELSE raw>>, p + 1)
          [] d.wire = "HALFTILE" -> Result(<<raw>>, p + 1)
          [] d.wire = "TILEZ"    -> Result(<<raw - 50>>, p + 1)
          [] d.wire = "EFFECTCOLORS" ->
               IF raw = 0 THEN Result(<<0>>, p + 1)
               ELSE Result(Charred(p, Clamp(p + 5, Size)), p + 5)
          [] d.wire = "SWORDPOWER" ->
               IF raw < d.bias THEN Result(<<NonNegative(raw), None>>, p + 1)
               ELSE LET r == ReadString(p + 1)
                    IN  Result(<<raw - d.bias, Or(r.value, <<>>)>>, r.pos)
          [] d.wire = "POWERIMAGE" ->
               LET r == ReadString(p + 1)
               IN  Result(<<NonNegative(raw), r.value>>, r.pos)
          [] d.wire = "HEADGIF" ->
               IF raw < 100 THEN Result(<<"preset", raw>>, p + 1)
               ELSE LET end == p + 1 + (raw - 100)
                    IN  Result(IF end > Size THEN None
                               ELSE <<"name", Bytes(p + 1, end)>>, end)
          [] d.wire = "ATTACHNPC" ->
               LET r == ReadGByte(p + 1, 3)
               IN  Result(IF r.value = None THEN None
                          ELSE <<raw, r.value[1]>>, r.pos)

\* decode_value
Decode(d, p, colorsLen) ==
    CASE d.wire = "VOID"   -> Result(None, p)
      [] d.wire = "GBYTE"  -> ReadGByte(p, d.width)
      [] d.wire = "RAW"    -> IF p + d.width > Size THEN Result(None, Size)
                              ELSE Result(Bytes(p, p + d.width), p + d.width)
      [] d.wire = "STRING" -> ReadString(p)
      [] d.wire = "LONGSTRING" ->
            LET r == ReadGByte(p, 2)
            IN  IF r.value = None THEN r
                ELSE LET end == r.pos + r.value[1]
                     IN  Result(Bytes(r.pos, Clamp(end, Size)), end)
      [] d.wire = "COLORS" ->
            Result(Charred(p, Clamp(p + colorsLen, Size)), p + colorsLen)
      [] d.wire = "PIXEL"  ->
            LET r == ReadGByte(p, 2)
            IN  IF r.value = None THEN r
                ELSE LET n == r.value[1] \div 2
                     IN  Result(<<IF r.value[1] % 2 = 1 THEN - n ELSE n>>, r.pos)
      [] d.wire = "ELORATING" ->
            LET r == ReadGByte(p, 3)
            IN  IF r.value = None THEN r
                ELSE Result(<<(r.value[1] \div 512) % 4096,
                              r.value[1] % 512>>, r.pos)
      [] d.wire = "IMAGEPART" ->
            IF p + 6 > Size THEN Result(None, Size)
            ELSE Result(<<ReadGByte(p, 2).value[1], ReadGByte(p + 2, 2).value[1],
                          Ord(p + 4), Ord(p + 5)>>, p + 6)
      [] OTHER ->
            IF p < Size THEN DecodeByte(d, p, colorsLen)
            ELSE Result(IF d.wire = "SWORDPOWER" THEN <<0, None>> ELSE None, p)

\* Fault: every form that is measured takes two bytes at least.
PayloadOfTwo(d, p, colorsLen) ==
    LET derived == Decode(d, p, colorsLen).pos - p
    IN  IF d.wire = "VOID" \/ derived >= 2 THEN derived ELSE 2

\* payload_len: the declared width of the fixed forms, and at least the byte
\* or two the others begin with.
PayloadLen(d, p, colorsLen) ==
    CASE d.wire \in {"GBYTE", "RAW"} -> d.width
      [] d.wire = "COLORS" -> colorsLen
      [] d.wire = "VOID"   -> 0
      [] d.wire \in {"TILE", "HALFTILE", "TILEZ"} -> 1
      [] d.wire = "PIXEL"  -> 2     [] d.wire = "ELORATING" -> 3
      [] d.wire = "ATTACHNPC" -> 4  [] d.wire = "IMAGEPART" -> 6
      [] OTHER -> LET least   == IF d.wire = "LONGSTRING" THEN 2 ELSE 1
                      derived == Decode(d, p, colorsLen).pos - p
                  IN  IF derived < least THEN least ELSE derived
-----------------------------------------------------------------------------
Init == /\ table \in Tables /\ colors \in {5, 8} /\ policy \in Policies
        /\ props = <<>> /\ data = <<>> /\ out = <<>>
        /\ pos = 0 /\ last = -1 /\ ends = <<>>
        /\ clean = TRUE /\ phase = "write"

\* The bytes of one property; an id the table does not know has the one byte
\* unknown_payload_len allows for.
Written(p) == <<Char(p.id)>> \o (IF p.id \in DOMAIN Table
                                 THEN Encode(Table[p.id], p.value, colors)
                                 ELSE <<32>>)

\* A host appends a property to the stream.
Write(p) == /\ phase = "write" /\ Len(props) < MaxProps
            /\ props' = Append(props, p)
            /\ data' = data \o Written(p)
            /\ ends' = Append(ends, Len(data'))
            /\ UNCHANGED <<table, colors, policy, pos, last, out, clean, phase>>

\* The stream reaches its reader, whole, cut short or with junk at its end.
Arrive == /\ phase = "write" /\ props # <<>>
          /\ \/ \E n \in 0 .. Len(data) : data' = Bytes(0, n)
             \/ \E junk \in Junk : data' = data \o junk
          /\ phase' = "walk"
          /\ UNCHANGED <<table, colors, policy, props, pos, last, out, clean,
                         ends>>

\* The handler of id is called with a value, or with None if asked for.
Call(id, value) == IF value # None \/ id \in policy.handle_empty
                   THEN [id |-> id, value |-> value] ELSE None

\* One iteration of the loop of parse_prop_stream.  The handlers of this model
\* take every value.
Walk ==
    LET id   == Ord(pos)
        p    == pos + 1
        d    == Table[id]
        r    == Decode(d, p, policy.colors_len)
        long == /\ policy.check_alignment /\ id \in DOMAIN Table
                /\ p + PayloadLen(d, p, policy.colors_len) > Size
    IN  /\ phase = "walk" /\ pos < Size
        /\ IF id < 0 \/ id > policy.max_prop_id
           THEN /\ clean' = FALSE /\ phase' = "done" /\ pos' = p
                /\ UNCHANGED <<last, out>>
           ELSE IF /\ policy.require_ascending /\ id <= last
                   /\ last \notin policy.ascending_exempt
           THEN /\ clean' = FALSE /\ phase' = "done" /\ pos' = p
                /\ UNCHANGED <<last, out>>
           ELSE /\ last' = id
                /\ clean' = (clean /\ ~ long)
                /\ IF id \notin DOMAIN Table
                   THEN pos' = p + 1 /\ out' = Append(out, None)
                   ELSE pos' = r.pos /\ out' = Append(out, Call(id, r.value))
                /\ UNCHANGED phase
        /\ UNCHANGED <<table, colors, policy, props, data, ends>>

\* The end of the data.
Finish == /\ phase = "walk" /\ pos >= Size
          /\ clean' = (/\ clean /\ pos <= Size
                       /\ policy.require_full_consume => pos = Size)
          /\ phase' = "done"
          /\ UNCHANGED <<table, colors, policy, props, data, pos, last, out,
                         ends>>

Next == (\E p \in Prop[table] : Write(p)) \/ Arrive \/ Walk \/ Finish

Spec == Init /\ [][Next]_vars

-----------------------------------------------------------------------------
\* Where the first i properties end in the stream as it was written.
EndOf(i) == IF i = 0 THEN 0 ELSE ends[i]

\* Reader and writer agree on the width of COLORS, and there is no junk.
SameStream == policy.colors_len = colors /\ Size <= EndOf(Len(props))

\* What the protocol lets a reader see of a value: numbers come back clamped to
\* what their lanes hold, tiles modulo 128 with -16.5 made -16, lists cut or
\* filled to their width, an empty string as None.
Clamped(s, n) == [i \in 1 .. n |-> IF i <= Len(s) THEN Clamp(s[i], 223) ELSE 0]
LaneMax       == <<223, GShortMax, GInt3Max>>

ReadBack(d, v, colorsLen) ==
    CASE d.wire = "VOID"       -> None
      [] d.wire = "GBYTE"      -> IF d.width = 5 THEN v
                                  ELSE <<Clamp(v[1], LaneMax[d.width])>>
      [] d.wire = "RAW"        -> [i \in 1 .. d.width |->
                                     IF i <= Len(v) THEN v[i] ELSE 32]
      [] d.wire = "STRING"     -> IF v = <<>> THEN None ELSE v
      [] d.wire = "TILE"       -> LET h == v[1] % 256
                                  IN  <<IF h = 223 THEN -32
                                        ELSE IF h < 216 THEN h ELSE h - 256>>
      [] d.wire = "HALFTILE"   -> <<Clamp(v[1], 223)>>
      [] d.wire = "TILEZ"      -> <<Clamp(v[1] + 50, 220) - 50>>
      [] d.wire = "COLORS"     -> Clamped(v, colorsLen)
      [] d.wire = "EFFECTCOLORS" -> IF v = <<>> \/ v[1] = 0 THEN <<0>>
                                    ELSE Clamped(v, 5)
      [] d.wire = "SWORDPOWER" -> IF Len(v) = 1 THEN <<NonNegative(v[1]), None>>
                                  ELSE <<Clamp(v[1], 223 - d.bias), v[2]>>
      [] d.wire = "POWERIMAGE" -> <<Clamp(v[1], 223),
                                    IF v[2] = <<>> THEN None ELSE v[2]>>
      [] d.wire = "HEADGIF"    -> IF v[1] = "preset"
                                  THEN <<"preset", Clamp(v[2], 99)>> ELSE v
      [] d.wire = "ELORATING"  -> <<v[1] % 4096, v[2] % 512>>
      [] d.wire = "ATTACHNPC"  -> <<Clamp(v[1], 223), Clamp(v[2], GInt3Max)>>
      [] d.wire = "IMAGEPART"  -> <<Clamp(v[1], GShortMax), Clamp(v[2], GShortMax),
                                    Clamp(v[3], 223), Clamp(v[4], 223)>>
      [] d.wire \in {"LONGSTRING", "PIXEL"} -> v

\* The handler calls a reader should see for the first i properties.
Wanted(i) ==
    [j \in 1 .. i |->
        IF props[j].id \in DOMAIN Table
        THEN Call(props[j].id, ReadBack(Table[props[j].id], props[j].value, colors))
        ELSE None]

\* With the writer's COLORS width the walk stays on the boundaries of the
\* properties, whatever their kinds and values.
Aligned == (phase # "write" /\ SameStream /\ pos <= Size
            /\ (phase = "walk" \/ clean))
              => \/ pos = EndOf(Len(out))
                 \/ EndOf(Len(out)) > Size   \* the last one was cut short

\* And the handlers get exactly the values that were written, in order, for
\* all the properties that arrived whole.
ValuesArrive ==
    (SameStream /\ EndOf(Len(out)) <= Size) => out = Wanted(Len(out))

\* An image form may end at its power byte; that is not a truncation.
ImageForm == {"SWORDPOWER", "POWERIMAGE"}

CutInside == \E i \in 1 .. Len(props) :
                /\ EndOf(i - 1) < Size /\ Size < EndOf(i)
                /\ ~ /\ props[i].id \in DOMAIN Table
                     /\ Table[props[i].id].wire \in ImageForm
                     /\ Size = EndOf(i - 1) + 2

\* "a truncated tail is still detectable as truncated": a walk that checks the
\* alignment never calls a stream clean that was cut inside a property.
TruncationSeen == (phase = "done" /\ policy.check_alignment /\ SameStream
                   /\ CutInside) => ~ clean

\* Conversely a whole stream of ids in range is clean, if they ascend where they
\* must.
CleanWhenWhole ==
    (/\ phase = "done" /\ SameStream /\ Size = EndOf(Len(props))
     /\ \A i \in 1 .. Len(props) : props[i].id <= policy.max_prop_id
     /\ policy.require_ascending =>
           \A i \in 2 .. Len(props) :
              \/ props[i - 1].id < props[i].id
              \/ props[i - 1].id \in policy.ascending_exempt)
        => clean

\* The lanes of _gbyte are those PacketBuilder writes ("Mirrors ...").
WriterAgrees ==
    \A i \in 1 .. Len(props) :
        LET p == props[i] IN
        (p.id \in DOMAIN Table /\ Table[p.id].wire = "GBYTE"
         /\ Table[p.id].width < 4) =>
            Tail(Written(p)) = CASE Table[p.id].width = 1 -> GChar(p.value[1])
                                 [] Table[p.id].width = 2 -> GShort(p.value[1])
                                 [] Table[p.id].width = 3 -> GInt3(p.value[1])

\* Each iteration moves forward, on any data and with any policy: the loop
\* "still makes progress" and comes to its end.
WalkForward == [][phase = "walk" /\ phase' = "walk" => pos' > pos]_vars

\* "223 will break the packet flow": of all the coordinates only a tile at -11,
\* modulo 128, becomes the newline that separates the packets of a bundle.
NoNewline == \A i \in 1 .. Len(props) :
    LET p == props[i] IN
    (p.id \in DOMAIN Table /\ Table[p.id].wire \in {"TILE", "HALFTILE", "TILEZ"}
     /\ Written(p)[2] = 10)
        => Table[p.id].wire = "TILE" /\ p.value[1] % 256 = 234
=============================================================================
