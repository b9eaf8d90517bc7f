------------------------------- MODULE SSZ -------------------------------
(***************************************************************************)
(* The SimpleSerialize codec of utils/ssz: the Size of a type, Encode and  *)
(* Decode of a value, and the code that the derive macros generate for a   *)
(* struct.  A type is a record that says how its Rust type is put          *)
(* together, a value is a number, a Boolean or a sequence, and encoded     *)
(* bytes are a sequence of numbers 0..255.  The definitions recurse over   *)
(* the structure of a type, as the trait implementations do.               *)
(***************************************************************************)
EXTENDS Integers, Sequences, SequencesExt

CONSTANT OverflowChecks   \* is the code built with overflow checks?

ASSUME OverflowChecksBoolean == OverflowChecks \in BOOLEAN

-----------------------------------------------------------------------------
\* Types: the implementations of Codec.  A BitVector and a BitList are the
\* vectors and lists of bool that a struct marks with bm(compact).

UintOf(bytes) == [kind |-> "uint", len |-> bytes]

Bool == [kind |-> "bool"]

\* A fixed hash: Compact<GenericArray<u8, L>>, each element one byte.
FixedHash(n) == [kind |-> "hash", len |-> n]

VecArray(t, n) == [kind |-> "vector", elem |-> t, len |-> n]

MaxVec(t, max) == [kind |-> "list", elem |-> t, max |-> max]

\* A Vec has no bound: more elements than any sequence of bytes here holds.
Vec(t) == MaxVec(t, 2^30)

BitVector(n) == [kind |-> "bitvector", len |-> n]

BitList(max) == [kind |-> "bitlist", max |-> max]

Struct(fields) == [kind |-> "struct", fields |-> fields]

-----------------------------------------------------------------------------
\* Sizes.  None stands for a variable size.

VariableSize == -1

Add(a, b) == IF VariableSize \in {a, b} THEN VariableSize ELSE a + b

\* Faulty variant: the size of an array is that of one element.
SizeOfOne(a, b) == a

Mul(a, b) == IF VariableSize \in {a, b} THEN VariableSize ELSE a * b

\* <T as Codec>::Size of the plain type: derive(Codec) sums the sizes of the
\* fields' plain types, whether or not a field is marked compact.
RECURSIVE Size(_)
Size(t) ==
  CASE t.kind \in {"uint", "hash"} -> t.len
    [] t.kind = "bool" -> 1
    [] t.kind = "vector" -> Mul(Size(t.elem), t.len)
    [] t.kind = "bitvector" -> Mul(Size(Bool), t.len)
    [] t.kind = "struct" ->
         FoldLeft(LAMBDA sum, field : Add(sum, Size(field)), 0, t.fields)
    [] OTHER -> VariableSize

\* Faulty variant: the size of the plain type for a compact field, as in derive(Codec).
PlainFieldSize(t) == Size(t)

\* The size at which derive(Decode) cuts a field out: Compact<T>'s size for a
\* field marked compact.
FieldSize(t) == IF t.kind = "bitvector" THEN (t.len + 7) \div 8 ELSE Size(t)

IsFixed(t) == Size(t) # VariableSize

-----------------------------------------------------------------------------
\* Encoding.

\* Numbers that need more than three bytes are not told apart: Large stands
\* for them, encoded as the largest of its width (FAR_FUTURE_EPOCH is one).
Large == 2^24

\* to_le_bytes of an integer of w bytes.
ToLeBytes(n, w) ==
  [i \in 1..w |-> IF n = Large THEN 255
                  ELSE IF i > 3 THEN 0 ELSE (n \div 256^(i - 1)) % 256]

\* Bits packed eight to a byte, the first in the lowest place.
PackBits(bits) ==
  [b \in 1..((Len(bits) + 7) \div 8) |->
     MapThenSumSet(LAMBDA i : IF bits[8 * (b - 1) + i + 1] THEN 2^i ELSE 0,
                   {i \in 0..7 : 8 * (b - 1) + i + 1 <= Len(bits)})]

\* The bytes of a length offset (a u32).
OffsetLen == 4

\* Series::encode: fixed parts in place, an offset in place of each variable
\* part, then the variable parts in order.
SeriesEncode(items) ==
  LET fixed_parts_size ==
        MapThenSumSet(LAMBDA i : IF items[i].fixed THEN Len(items[i].bytes)
                                 ELSE OffsetLen, DOMAIN items)
      Offset(n) ==
        fixed_parts_size
          + MapThenSumSet(LAMBDA i : IF items[i].fixed THEN 0
                                     ELSE Len(items[i].bytes), 1..(n - 1))
  IN  FlattenSeq([i \in DOMAIN items |->
                    IF items[i].fixed THEN items[i].bytes
                    ELSE ToLeBytes(Offset(i), OffsetLen)])
      \o FlattenSeq([i \in DOMAIN items |->
                       IF items[i].fixed THEN <<>> ELSE items[i].bytes])

EncodeBool(value) == <<IF value THEN 1 ELSE 0>>

\* A bit list ends with a set bit that marks its length.
EncodeBitList(bits) == PackBits(Append(bits, TRUE))

\* Encode::encode.
RECURSIVE Encode(_, _)

SeriesItem(t, value) == [fixed |-> IsFixed(t), bytes |-> Encode(t, value)]

EncodeElements(t, values) ==
  SeriesEncode([i \in DOMAIN values |-> SeriesItem(t, values[i])])

EncodeFields(fields, value) ==
  SeriesEncode([i \in DOMAIN fields |-> SeriesItem(fields[i], value[i])])

Encode(t, value) ==
  CASE t.kind = "uint" -> ToLeBytes(value, t.len)
    [] t.kind = "hash" -> value
    [] t.kind = "bool" -> EncodeBool(value)
    [] t.kind = "bitvector" -> PackBits(value)
    [] t.kind = "bitlist" -> EncodeBitList(value)
    [] t.kind \in {"vector", "list"} -> EncodeElements(t.elem, value)
    [] t.kind = "struct" -> EncodeFields(t.fields, value)

-----------------------------------------------------------------------------
\* Decoding.  A result holds the value, or says how decoding ended without
\* one: an ssz::Error, or a panic on a slice out of range.

Ok(value) == [ok |-> TRUE, value |-> value]

Err(error) == [ok |-> FALSE, error |-> error]

Panic == Err("panic")

FromLeBytes(bytes) ==
  IF \E i \in DOMAIN bytes : i > 3 /\ bytes[i] # 0 THEN Large
  ELSE FoldRight(LAMBDA b, n : b + 256 * n, bytes, 0)

Bit(bytes, i) == (bytes[(i \div 8) + 1] \div 2^(i % 8)) % 2 = 1

\* value[from..to], where CanSlice holds.
CanSlice(value, from, to) == from <= to /\ to <= Len(value)

Slice(value, from, to) == SubSeq(value, from + 1, to)

\* Each result's value, or the first failure among them (the ? operator).
Collect(results) ==
  LET failed == {i \in DOMAIN results : ~results[i].ok}
  IN  IF failed = {} THEN Ok([i \in DOMAIN results |-> results[i].value])
      ELSE results[Min(failed)]

\* The variable parts that start at the given offsets, each ending where the
\* next begins.
Parts(value, offsets) ==
  LET End(i) == IF i = Len(offsets) THEN Len(value) ELSE offsets[i + 1]
  IN  IF \E i \in DOMAIN offsets : ~CanSlice(value, offsets[i], End(i))
      THEN Panic
      ELSE Ok([i \in DOMAIN offsets |-> Slice(value, offsets[i], End(i))])

\* Series::decode_vector: the bytes of each field of the given sizes.
DecodeVector(value, sizes) ==
  LET Width(i) == IF sizes[i] = VariableSize THEN OffsetLen ELSE sizes[i]
      Pos(i) == MapThenSumSet(Width, 1..(i - 1))
      InPlace(i) == Slice(value, Pos(i), Pos(i) + Width(i))
      variable == SelectSeq([i \in DOMAIN sizes |-> i],
                            LAMBDA i : sizes[i] = VariableSize)
      parts == Parts(value, [k \in DOMAIN variable |->
                               FromLeBytes(InPlace(variable[k]))])
      Rank(i) == CHOOSE k \in DOMAIN variable : variable[k] = i
  IN  IF Pos(Len(sizes) + 1) > Len(value) THEN Panic
      ELSE IF ~parts.ok THEN parts
      ELSE Ok([i \in DOMAIN sizes |->
                 IF sizes[i] = VariableSize THEN parts.value[Rank(i)]
                 ELSE InPlace(i)])

\* Series::decode_list: equal pieces of a fixed size, a rest shorter than
\* one left out; or the parts at the offsets that fill the space in front of
\* the first part.
DecodeList(value, size) ==
  LET OffsetAt(i) == FromLeBytes(Slice(value, OffsetLen * (i - 1), OffsetLen * i))
      count == IF Len(value) < OffsetLen THEN 0
               ELSE Max({1, Min({OffsetAt(1) \div OffsetLen,
                                 Len(value) \div OffsetLen})})
  IN  IF size = VariableSize
      THEN Parts(value, [i \in 1..count |-> OffsetAt(i)])
      ELSE Ok([i \in 1..(Len(value) \div size) |->
                 Slice(value, size * (i - 1), size * i)])

\* The length of a bit list, told by the highest set bit of its last byte.
\* A last byte of zero underflows: a panic with overflow checks, and without
\* them one less than the bits before it.
BitListLen(bytes) ==
  LET set == {i \in 0..7 : (Last(bytes) \div 2^i) % 2 = 1}
  IN  8 * (Len(bytes) - 1) + (IF set = {} THEN -1 ELSE Max(set))

DecodeBitList(bytes) ==
  IF bytes = <<>> \/ (Last(bytes) = 0 /\ OverflowChecks) THEN Panic
  ELSE IF BitListLen(bytes) < 0 THEN Err("IncorrectSize")
  ELSE Ok([i \in 1..BitListLen(bytes) |-> Bit(bytes, i - 1)])

DecodeBitVector(bytes, len) ==
  IF Len(bytes) < (len + 7) \div 8 THEN Err("IncorrectSize")
  ELSE Ok([i \in 1..len |-> Bit(bytes, i - 1)])

DecodeUint(bytes, len) ==
  IF Len(bytes) # len THEN Err("IncorrectSize") ELSE Ok(FromLeBytes(bytes))

DecodeBool(bytes) ==
  LET value == DecodeUint(bytes, 1)
  IN  IF value.ok /\ value.value > 1 THEN Err("InvalidType")
      ELSE IF value.ok THEN Ok(value.value = 1) ELSE value

\* A decoded list within its bound, a decoded vector of its length.
AtMost(result, max) ==
  IF result.ok /\ Len(result.value) > max THEN Err("ListTooLarge") ELSE result

Exactly(result, len) ==
  IF result.ok /\ Len(result.value) # len THEN Err("InvalidLength") ELSE result

\* Decode::decode.
RECURSIVE Decode(_, _)

DecodeElements(t, value) ==
  LET pieces == DecodeList(value, Size(t))
  IN  IF ~pieces.ok THEN pieces
      ELSE Collect([i \in DOMAIN pieces.value |-> Decode(t, pieces.value[i])])

DecodeFields(fields, value) ==
  LET pieces == DecodeVector(value, [i \in DOMAIN fields |-> FieldSize(fields[i])])
  IN  IF ~pieces.ok THEN pieces
      ELSE Collect([i \in DOMAIN fields |-> Decode(fields[i], pieces.value[i])])

Decode(t, value) ==
  CASE t.kind = "uint" -> DecodeUint(value, t.len)
    [] t.kind = "hash" -> Exactly(Ok(value), t.len)
    [] t.kind = "bool" -> DecodeBool(value)
    [] t.kind = "bitvector" -> DecodeBitVector(value, t.len)
    [] t.kind = "bitlist" -> AtMost(DecodeBitList(value), t.max)
    [] t.kind = "vector" -> Exactly(DecodeElements(t.elem, value), t.len)
    [] t.kind = "list" -> AtMost(DecodeElements(t.elem, value), t.max)
    [] t.kind = "struct" -> DecodeFields(t.fields, value)
=============================================================================
