--------------------------------- MODULE BER ---------------------------------
(***************************************************************************)
(* Serialization: the writers and the readers of C++ (serialize/impl/ber.h,*)
(* serializebaseber.h, serializeberimpl.h) and of JavaScript               *)
(* (js/net/ber.mjs).  A value is one tag, length and bytes; the members of *)
(* a class are numbered, a default value is left out, and a member that    *)
(* was removed leaves its number to a placeholder; elements of containers  *)
(* have no number.  An integer is its two's complement of eight bytes, the *)
(* least one first; other contents are bytes, texts are code points.  A    *)
(* shared pointer is written with the number of the class of its object,   *)
(* for which the reader looks in its registry; a message is one value      *)
(* around all the others.                                                  *)
(***************************************************************************)
EXTENDS Integers, Sequences, SequencesExt

CONSTANTS
  Values,     \* what members hold: a sequence of records of a type and a value
  MaxMembers, \* members of a class, besides a number of placeholders before them
  Gaps,       \* those numbers
  Boxes,      \* tags of messages
  Classes,    \* what shared pointers point to: a sequence of records of the number of
              \* the class, the types of its members and whether a reader knows it
  JsTags      \* the largest tag the instance lets JavaScript read

VARIABLES
  ser,    \* the writer: its language, data, size of its buffer, what it has written
  deser   \* the reader: its language, position, what it has read

bervars == <<ser, deser>>

Null == <<>>        \* no value; a value is a sequence of one
Languages == {"cpp", "js"}

----------------------------------------
(* Numbers: sequences of digits, the most significant one first *)

From(s, i) == SubSeq(s, i, Len(s))

Digits(n, base) ==
  LET d[i \in Nat] == IF i < base THEN <<i>> ELSE Append(d[i \div base], i % base)
  IN  d[n]
Number(ds, base) == FoldLeft(LAMBDA a, b : base * a + b, 0, ds)

Fill(negative) == IF negative THEN 255 ELSE 0
Nine(v, negative) == [i \in 1 .. 9 |-> IF i <= Len(v) THEN v[i] ELSE Fill(negative)]
IsZero(v) == \A i \in DOMAIN v : v[i] = 0

(* minSizeOfUInt and the search in minSizeOfInt: is anything but the fill  *)
(* left above the first t bytes?                                           *)
Search(v, fill) ==
  LET s[l \in 0 .. 8, h \in 0 .. 8] ==
        IF h - l <= 1 THEN h
        ELSE LET t == (l + h) \div 2
             IN  IF \E i \in t + 1 .. 8 : v[i] # fill THEN s[t, h] ELSE s[l, t]
  IN  s[0, 8]

\* Mutant: no byte is added for the sign.
MinSizeOfIntUnsigned(v) == Search(v, Fill(v[8] >= 128))

MinSizeOfInt(v) ==
  LET size == Search(v, Fill(v[8] >= 128))
  IN  IF (v[size] >= 128) = (v[8] >= 128) THEN size ELSE size + 1

----------------------------------------
(* Writing *)

WriteTag(no, constructed) ==
  IF no < 31 THEN <<(IF constructed THEN 224 ELSE 192) + no>>
  ELSE LET d == Digits(no, 128)
       IN  <<IF constructed THEN 255 ELSE 223>>
             \o [i \in 1 .. Len(d) |-> IF i < Len(d) THEN d[i] + 128 ELSE d[i]]

WriteLen(n) ==
  IF n < 128 THEN <<n>> ELSE LET d == Digits(n, 256) IN <<Len(d) + 128>> \o d

WriteNull(no) == IF no > 0 THEN <<>> ELSE WriteTag(no, FALSE) \o <<129, 0>>

TLV(no, constructed, bytes) == WriteTag(no, constructed) \o WriteLen(Len(bytes)) \o bytes

(* TLWriter: nothing written inside is a null. *)
TLWriter(no, body) == IF body = <<>> THEN WriteNull(no) ELSE TLV(no, TRUE, body)

IntBytes(type, v) ==
  LET len == IF type.width = 8 /\ ~type.signed /\ v[8] >= 128 THEN 9 ELSE MinSizeOfInt(v)
  IN  Reverse(SubSeq(Nine(v, type.signed /\ v[8] >= 128), 1, len))

(* i() of ber.mjs works on the number without its sign. *)
JsIntBytes(v) ==
  LET neg  == v[8] >= 128
      mag  == [i \in 1 .. 8 |-> IF neg THEN 255 - v[i] ELSE v[i]]
      size == CHOOSE n \in 1 .. 8 : (n > 1 => mag[n] # 0) /\ \A i \in n + 1 .. 8 : mag[i] = 0
      sign == IF mag[size] >= 128 THEN <<Fill(neg)>> ELSE <<>>
  IN  sign \o Reverse(SubSeq(v, 1, size))

Utf8(c) ==
  IF c < 128 THEN <<c>>
  ELSE LET last(n) == [i \in 1 .. n |-> 128 + ((c \div 64 ^ (n - i)) % 64)]
       IN  IF c < 2048 THEN <<192 + c \div 64>> \o last(1)
           ELSE IF c < 65536 THEN <<224 + c \div 4096>> \o last(2)
           ELSE <<240 + c \div 262144>> \o last(3)
ToUtf8(s) == FlattenSeq([i \in DOMAIN s |-> Utf8(s[i])])

Content(lang, type, v) ==
  CASE type.kind = "int"    -> IF lang = "cpp" THEN IntBytes(type, v) ELSE JsIntBytes(v)
    [] type.kind = "string" -> ToUtf8(v[1])
    [] type.kind = "bytes"  -> v[1]
    [] OTHER                -> v

IsNull(type, v) == IF type.kind \in {"int", "real"} THEN IsZero(v) ELSE v = Null

Write1(lang, x, no) ==
  IF IsNull(x.type, x.v) THEN WriteNull(no) ELSE TLV(no, FALSE, Content(lang, x.type, x.v))

Numbered(lang, of, vs, first) ==
  FlattenSeq([i \in DOMAIN vs |-> Write1(lang, [type |-> of[i], v |-> vs[i]], first + i - 1)])

(* An object of a class that is derived from the one of the pointer: the   *)
(* number of its class, what it has of its base and its own members.  The  *)
(* first number of a class that is not derived is a placeholder.  Of a     *)
(* pointer to nothing, nothing is written, in a list either.               *)
IdType == [kind |-> "int", width |-> 4, signed |-> FALSE]
WriteShared(x, no) ==
  IF x.v = Null THEN <<>>
  ELSE LET c == Classes[x.v[1]]
       IN  TLWriter(no, Numbered("cpp", <<IdType>>, <<c.id>>, 1)
                          \o TLWriter(2, Numbered("cpp", x.type.of, x.v[2], 2))
                          \o Numbered("cpp", c.of, x.v[3], 3))

WriteItem(lang, x, no) == IF x.type.kind = "shared" THEN WriteShared(x, no) ELSE Write1(lang, x, no)

(* Containers write their elements without, classes their members with a   *)
(* number.                                                                 *)
ElementTag(type, i) == IF type.kind = "list" THEN 0 ELSE i
ElementType(type, i) == type.of[((i - 1) % Len(type.of)) + 1]
Element(x, i) == [type |-> ElementType(x.type, i), v |-> x.v[i]]

WriteValue(lang, x, no) ==
  IF x.type.kind \notin {"list", "object"} THEN WriteItem(lang, x, no)
  ELSE TLWriter(no, FlattenSeq([i \in DOMAIN x.v |->
                                  WriteItem(lang, Element(x, i), ElementTag(x.type, i))]))

(* createTag, encodeBERLength and makeTLV of JavaScript *)
MakeTLV(no, constructed, v) ==
  IF v = Null THEN WriteTag(no, constructed) \o <<129, 0>> ELSE TLV(no, constructed, v[1])

(* The data as one value: box() of JavaScript, a BERSerializer with a tag. *)
Box(no, data) == MakeTLV(no, TRUE, <<data>>)

ToByteArray(x) == WriteValue("cpp", x, 1)

----------------------------------------
(* Reading; a length below 0 is an error. *)

NoTag == [tag |-> -1, size |-> 0]
TagEnd(data) == {i \in 2 .. Len(data) : data[i] < 128 /\ \A j \in 2 .. i - 1 : data[j] >= 128}

DecodeBERTag(data) ==
  IF data = <<>> THEN NoTag
  ELSE IF data[1] % 32 # 31 THEN [tag |-> data[1] % 32, size |-> 1]
  ELSE IF TagEnd(data) = {} THEN NoTag
  ELSE LET e == CHOOSE i \in TagEnd(data) : TRUE
       IN  [tag |-> Number([i \in 1 .. e - 1 |-> data[i + 1] % 128], 128), size |-> e]

(* The first byte and the bits that say there is more stay in the number.  *)
JsDecodeBERTag(data) ==
  IF data = <<>> \/ data[1] % 32 # 31 \/ TagEnd(data) = {} THEN DecodeBERTag(data)
  ELSE LET e == CHOOSE i \in TagEnd(data) : TRUE
       IN  [tag |-> Number(<<31>> \o SubSeq(data, 2, e), 256), size |-> e]

DecodeBERLength(data) ==
  IF data = <<>> THEN [len |-> -1, size |-> 0]
  ELSE LET ls == data[1] - 128 IN
       IF ls < 0 THEN [len |-> data[1], size |-> 1]
       ELSE IF ls > 8 THEN [len |-> -3, size |-> 0]
       ELSE IF Len(data) <= ls THEN [len |-> -1, size |-> 0]
       ELSE IF ls = 0 THEN [len |-> -2, size |-> 1]
       ELSE IF ls = 8 /\ data[2] >= 128 THEN [len |-> -3, size |-> 0]
       ELSE [len |-> Number(SubSeq(data, 2, ls + 1), 256), size |-> ls + 1]

(* Lengths that JavaScript would shift out of 32 bits do not occur.        *)
Tagged(t, l) ==
  IF t.tag < 0 THEN [len |-> -1, tag |-> 0, size |-> 0, lengthSize |-> 0]
  ELSE [len |-> l.len, tag |-> t.tag, size |-> t.size, lengthSize |-> l.size]

DecodeTLV(lang, data) ==
  LET behind(t) == Tagged(t, DecodeBERLength(From(data, 1 + t.size)))
  IN  behind(IF lang = "cpp" THEN DecodeBERTag(data) ELSE JsDecodeBERTag(data))

(* Is all of it there? *)
GetTLVLength(data) ==
  LET t == DecodeTLV("cpp", data) IN
  CASE t.len < 0 -> t.len
    [] t.len > 2147483647 - t.size - t.lengthSize -> -3
    [] t.len >= 0 /\ Len(data) < t.size + t.lengthSize + t.len -> -1
    [] OTHER -> t.len

(* The next value of a reader that is at pos and expects tag: what has a   *)
(* smaller tag is skipped, a larger one means that there is none.          *)
Read(lang, data, pos, tag) ==
  LET at[i \in 1 .. Len(data) + 1] ==
        LET found(t, start, end) ==
              IF t.len < 0 \/ Len(data) < end - 1
                THEN [raw |-> Null, pos |-> Len(data) + 1]
              ELSE IF t.tag = tag
                THEN [raw |-> IF t.len = 0 /\ t.lengthSize = 2 THEN Null ELSE <<SubSeq(data, start, end - 1)>>,
                      pos |-> end]
              ELSE IF t.tag > tag /\ (tag # 0 \/ lang = "js")
                THEN [raw |-> Null, pos |-> i]
              ELSE at[end]
            value(t) == found(t, i + t.size + t.lengthSize, i + t.size + t.lengthSize + t.len)
        IN  value(DecodeTLV(lang, From(data, i)))
  IN  at[pos]

FromUtf8(b) ==
  LET size(u) == IF u < 128 THEN 1 ELSE IF u < 224 THEN 2 ELSE IF u < 240 THEN 3 ELSE 4
      first(u) == CASE size(u) = 1 -> u [] size(u) = 2 -> u % 32
                    [] size(u) = 3 -> u % 16 [] OTHER -> u % 8
      s[i \in 1 .. Len(b) + 1] ==
        IF i > Len(b) THEN <<>>
        ELSE LET n == size(b[i])
             IN  <<Number(<<first(b[i])>> \o [j \in 1 .. n - 1 |-> b[i + j] % 64], 64)>> \o s[i + n]
  IN  s[1]

(* deserializeBERInt<T> keeps the bytes of T; JavaScript has all of them.  *)
ReadInt(lang, type, b) ==
  LET all == Nine(Reverse(b), b[1] >= 128)
  IN  IF lang = "js" THEN all
      ELSE Nine(SubSeq(all, 1, type.width), type.signed /\ all[type.width] >= 128)

Default(type) ==
  CASE type.kind = "int"    -> [i \in 1 .. 9 |-> 0]
    [] type.kind = "real"   -> [i \in 1 .. type.width |-> 0]
    [] type.kind = "object" -> [i \in DOMAIN type.of |->
                                  IF type.of[i].kind = "int" THEN [j \in 1 .. 9 |-> 0] ELSE Null]
    [] OTHER                -> Null

Value1(lang, type, raw) ==
  IF raw = Null THEN Default(type)
  ELSE CASE type.kind = "int"    -> IF raw[1] = <<>> THEN Default(type) ELSE ReadInt(lang, type, raw[1])
         [] type.kind = "real"   -> IF Len(raw[1]) # type.width THEN Default(type) ELSE raw[1]
         [] type.kind = "string" -> <<FromUtf8(raw[1])>>
         [] OTHER                -> raw

(* Members of a class from a number on *)
MembersFrom(lang, of, data, first) ==
  LET m[i \in 1 .. Len(of) + 1, p \in 1 .. Len(data) + 1] ==
        IF i > Len(of) THEN <<>>
        ELSE LET r == Read(lang, data, p, first + i - 1)
             IN  <<Value1(lang, of[i], r.raw)>> \o m[i + 1, r.pos]
  IN  m[1, 1]

(* What a pointer points to: nothing when no class of the registry has the *)
(* number that is there, else what is read of the base, then of the class. *)
Registry(id) == {c \in DOMAIN Classes : Classes[c].known /\ Nine(Classes[c].id, FALSE) = id}

Derived(type, data, ids, base) ==
  IF ids = {} THEN Null
  ELSE LET c == CHOOSE k \in ids : TRUE
       IN  <<c, MembersFrom("cpp", type.of, IF base = Null THEN <<>> ELSE base[1], 2),
             MembersFrom("cpp", Classes[c].of, data, 3)>>

ReadShared(type, raw) ==
  IF raw = Null THEN Null
  ELSE Derived(type, raw[1], Registry(MembersFrom("cpp", <<IdType>>, raw[1], 1)[1]),
               Read("cpp", raw[1], 1, 2).raw)

Item(lang, type, raw) == IF type.kind = "shared" THEN ReadShared(type, raw) ELSE Value1(lang, type, raw)

(* Elements while there are any *)
Elements(lang, type, data) ==
  LET e[i \in Nat, p \in 1 .. Len(data) + 1] ==
        IF p > Len(data) THEN <<>>
        ELSE LET r == Read(lang, data, p, 0)
             IN  <<Item(lang, ElementType(type, i), r.raw)>> \o e[i + 1, r.pos]
  IN  e[1, 1]

Value(lang, type, raw) ==
  IF raw = Null \/ type.kind \notin {"list", "object"} THEN Item(lang, type, raw)
  ELSE IF type.kind = "list" THEN Elements(lang, type, raw[1]) ELSE MembersFrom(lang, type.of, raw[1], 1)

FromByteArray(type, data) ==
  LET len == GetTLVLength(data)
      t   == DecodeTLV("cpp", data)
  IN  Value("cpp", type, IF len < 0 \/ (len = 0 /\ t.lengthSize = 2) THEN Null
                         ELSE <<SubSeq(data, t.size + t.lengthSize + 1, t.size + t.lengthSize + len)>>)

----------------------------------------
(* Data is written, perhaps cut off, and read by both languages.           *)

BerInit ==
  /\ \E l \in Languages, g \in Gaps :
       ser = [lang |-> l, gap |-> g, data |-> <<>>, size |-> 4, members |-> <<>>, phase |-> "write", tag |-> 0]
  /\ deser = [lang |-> "none", pos |-> 1, read |-> <<>>, tag |-> 0, len |-> 0]

(* allocate() doubles the buffer of JavaScript until it is large enough.   *)
Grow(size, need) ==
  LET g[n \in Nat] == IF n >= need THEN n ELSE g[2 * n] IN g[size]

(* toUTF8 writes where there is room: one place a character and, from the  *)
(* first that needs more, what it counts for the rest.  Bytes beyond the   *)
(* buffer are lost.                                                        *)
Places(c) == IF c < 65536 THEN 1 ELSE 2
TrailBytes(c)   == Len(Utf8(c)) - 1
Total(f(_), s) == FoldLeft(LAMBDA n, c : n + f(c), 0, s)
Asked(s) ==
  LET wide == {i \in DOMAIN s : s[i] >= 128}
      i    == CHOOSE k \in wide : \A j \in wide : k <= j
  IN  IF wide = {} THEN Len(s) ELSE i + Total(Places, From(s, i + 1)) + Total(TrailBytes, From(s, i))
Room(s) == Grow(Grow(ser.size, Len(ser.data) + 2 + Total(Places, s)), Len(ser.data) + 2 + Asked(s))
Lost(s) ==
  LET need == Len(ser.data) + 2 + Len(ToUtf8(s))
  IN  IF need > Room(s) THEN need - Room(s) ELSE 0

(* A container makes room for six bytes before it has any.                 *)
RoomFor(x) == Len(ser.data) + IF x.type.kind \in {"list", "object"} /\ x.v # <<>> THEN 6 ELSE 0

Removed == [type |-> [kind |-> "placeholder"], v |-> Null]
NextNo == ser.gap + Len(ser.members) + 1

(* JavaScript has numbers up to 2^53, no type for sixteen bytes, and here  *)
(* no shared pointers.                                                     *)
InJs(x) ==
  /\ x.type.kind # "shared" /\ (x.type.kind = "list" => x.type.of[1].kind # "shared")
  /\ x.type.kind = "int" => \/ x.v[8] = 0 /\ x.v[7] < 32
                            \/ x.v[8] = 255 /\ x.v[7] >= 224 /\ x.type.signed
  /\ x.type.kind = "real" => x.type.width < 16

IsText(x) == x.type.kind = "string" /\ x.v \notin {Null, <<<<>>>>}
Writing == ser.phase = "write" /\ Len(ser.members) < MaxMembers
Written(x, data, room) ==
  ser' = [ser EXCEPT !.members = Append(@, x), !.data = data, !.size = Grow(room, Len(data))]

\* operator<<
Serialize ==
  /\ Writing
  /\ \E k \in DOMAIN Values : LET x == Values[k] IN
       /\ ser.lang = "js" => InJs(x) /\ ~IsText(x)
       /\ Written(x, ser.data \o WriteValue(ser.lang, x, NextNo), Grow(ser.size, RoomFor(x)))
  /\ UNCHANGED deser

(* s() of JavaScript writes into the buffer it has, then makes room for    *)
(* more than two bytes of tag and length.                                  *)
SerializeText ==
  /\ Writing /\ ser.lang = "js"
  /\ \E k \in DOMAIN Values :
       LET x == Values[k]
           tlv == WriteValue("js", x, NextNo)
       IN  /\ IsText(x)
           /\ Written(x, ser.data \o SubSeq(tlv, 1, Len(tlv) - Lost(x.v[1])), Room(x.v[1]))
  /\ UNCHANGED deser

SerializePlaceholder == Writing /\ Written(Removed, ser.data, ser.size) /\ UNCHANGED deser

(* The data is sent to a reader, or only a part of it is there. *)
Readable(l) ==
  l = "js" => /\ ser.gap + Len(ser.members) <= JsTags
              /\ \A i \in DOMAIN ser.members : InJs(ser.members[i])

(* A message that is whole is unboxed: its tag tells what it is, and its   *)
(* length in C++ whether it is all there.                                  *)
Transmit ==
  /\ ser.phase = "write"
  /\ \E l \in Languages, tag \in Boxes :
       LET message == Box(tag, ser.data)
           t       == DecodeTLV(l, message)
           start   == t.size + t.lengthSize
       IN  /\ Readable(l)
           /\ \/ /\ ser'   = [ser EXCEPT !.phase = "sent", !.tag = tag, !.data = SubSeq(message, start + 1, start + t.len)]
                 /\ deser' = [deser EXCEPT !.lang = l, !.tag = t.tag, !.len = GetTLVLength(message)]
              \/ \E n \in 0 .. Len(ser.data) - 1 :
                   /\ n \in 4 .. Len(ser.data) - 3 => n % 64 = 0
                   /\ ser'   = [ser EXCEPT !.phase = "cut", !.tag = tag, !.data = SubSeq(@, 1, n)]
                   /\ deser' = [deser EXCEPT !.lang = l, !.len = GetTLVLength(SubSeq(message, 1, n))]

(* The reader knows the type of the member, or leaves it to a placeholder; *)
(* it may be older than the writer, or newer and know members more, of two *)
(* of the types.                                                           *)
Expected(i) == IF i <= Len(ser.members) THEN ser.members[i] ELSE Removed
TypesOf(i)  == IF Expected(i) # Removed THEN {Expected(i).type}
               ELSE {Values[1].type, Values[Len(Values)].type}
Reading     == ser.phase # "write" /\ Len(deser.read) <= MaxMembers

\* operator>>
Deserialize ==
  LET r == Read(deser.lang, ser.data, deser.pos, ser.gap + Len(deser.read) + 1) IN
  /\ Reading
  /\ \E type \in TypesOf(Len(deser.read) + 1) :
       deser' = [deser EXCEPT !.pos = r.pos,
                   !.read = Append(@, [type |-> type, v |-> Value(deser.lang, type, r.raw)])]
  /\ UNCHANGED ser

DeserializePlaceholder ==
  Reading /\ deser' = [deser EXCEPT !.read = Append(@, Removed)] /\ UNCHANGED ser

BerNext ==
  \/ Serialize \/ SerializeText \/ SerializePlaceholder \/ Transmit
  \/ Deserialize \/ DeserializePlaceholder

BerSpec == BerInit /\ [][BerNext]_bervars

----------------------------------------
(* Properties *)

(* A value as the reader shows it: an empty container is as good as none,  *)
(* an object of a class it does not know is none, and elements that are    *)
(* pointers to nothing are lost.                                           *)
Shown1(type, v) == IF type.kind = "int" THEN Nine(v, type.signed /\ v[8] >= 128) ELSE v
ShownAll(of, vs) == [i \in DOMAIN vs |-> Shown1(of[i], vs[i])]
ShownShared(type, v) ==
  IF v = Null \/ ~Classes[v[1]].known THEN Null
  ELSE <<v[1], ShownAll(type.of, v[2]), ShownAll(Classes[v[1]].of, v[3])>>
Shown(type, v) ==
  CASE type.kind = "shared" -> ShownShared(type, v)
    [] type.kind = "list" /\ type.of[1].kind = "shared" ->
         LET there == SelectSeq(v, LAMBDA e : e # Null)
         IN  [i \in DOMAIN there |-> ShownShared(type.of[1], there[i])]
    [] type.kind \in {"list", "object"} -> [i \in DOMAIN v |-> Shown1(ElementType(type, i), v[i])]
    [] OTHER -> Shown1(type, v)

(* What one language or one version wrote another reads: every member a    *)
(* reader knows has the value the writer gave it, whatever either of them  *)
(* has left to placeholders, and its default when the writer has not       *)
(* written it.  Of data that is cut off a member is read or the default,   *)
(* and after the first that is missing no other one is read.  A message    *)
(* arrives with its tag, one that is cut off is known as such by its       *)
(* length, and a single value reads as one that is a member.               *)
ReadBack(i) ==
  LET x == deser.read[i]
  IN  x = Removed \/ x.v = (IF Expected(i) = Removed THEN Default(x.type)
                            ELSE Shown(x.type, Expected(i).v))
Unboxed ==
  CASE ser.phase = "sent" -> deser.tag = ser.tag /\ deser.len = Len(ser.data)
    [] ser.phase = "cut"  -> deser.len = -1
    [] OTHER -> LET x == Last(ser.members)
                IN  ser.members = <<>> \/ x = Removed \/ FromByteArray(x.type, ToByteArray(x)) = Shown(x.type, x.v)
WrittenIsRead ==
  /\ Unboxed
  /\ \A i \in DOMAIN deser.read :
       \/ ReadBack(i)
       \/ ser.phase = "cut" /\ \A j \in i .. Len(deser.read) :
            LET x == deser.read[j] IN x = Removed \/ x.v = Default(x.type)

(* JavaScript reads the number a member was written with.                  *)
TagsRead == JsDecodeBERTag(WriteTag(NextNo, FALSE)).tag = NextNo
========================================
