----------------------------- MODULE WireFormat -----------------------------
(***************************************************************************)
(* What the generated message classes use of the protobuf runtime: the     *)
(* encoding of integers, strings, embedded messages and unknown fields as  *)
(* sequences of bytes, their sizes, and the splitting of bytes into fields.*)
(* A tag is one byte here: the messages have fewer than 16 fields.         *)
(***************************************************************************)
EXTENDS Integers, SequencesExt

VARINT == 0
LENGTH_DELIMITED == 2

Tag(number, type) == 8 * number + type

\* WriteVarint32ToArray of a value that is not negative.
RECURSIVE Varint(_)
Varint(value) ==
  IF value < 128 THEN <<value>>
  ELSE <<128 + (value % 128)>> \o Varint(value \div 128)

\* An int32 is extended to 64 bits: a negative one takes ten bytes of seven
\* bits, the last of which holds only the sign.
Int32Varint(value) ==
  IF value >= 0 THEN Varint(value)
  ELSE [k \in 1..10 |-> IF k <= 5 THEN 128 + ((value \div 128^(k - 1)) % 128)
                        ELSE IF k < 10 THEN 255 ELSE 1]

\* Int32Size and VarintSize32
Int32Size(value) ==
  IF value < 0 THEN 10
  ELSE IF value < 128 THEN 1
  ELSE IF value < 16384 THEN 2
  ELSE IF value < 2097152 THEN 3
  ELSE IF value < 268435456 THEN 4 ELSE 5

\* The int32 of a varint: its lower 32 bits.
Int32Of(bytes) ==
  LET Digit(k) == IF k <= Len(bytes) THEN bytes[k] % 128 ELSE 0
      high == Digit(5) % 16
  IN  Digit(1) + Digit(2) * 128 + Digit(3) * 16384 + Digit(4) * 2097152
        + (IF high < 8 THEN high ELSE high - 16) * 268435456

-----------------------------------------------------------------------------
(* Fields on the wire: the number, the type, and the bytes of the value.   *)

Field(number, type, value) ==
  [number |-> number, type |-> type, value |-> value]

\* What is not a field: the parser fails there.
NoField == Field(0, VARINT, <<>>)

\* How many bytes the varint at the front takes, 0 if it does not end.
VarintLength(bytes) ==
  LET ends == {i \in DOMAIN bytes : bytes[i] < 128}
  IN  IF ends = {} THEN 0 ELSE CHOOSE i \in ends : \A k \in ends : i <= k

\* ReadTag and the value behind it, until the bytes end.
RECURSIVE FieldsOf(_)
FieldsOf(bytes) ==
  IF bytes = <<>> THEN <<>>
  ELSE
    LET number == Head(bytes) \div 8
        type == Head(bytes) % 8
        rest == Tail(bytes)
        n == VarintLength(rest)
        last == n + IF type = VARINT THEN 0 ELSE Int32Of(SubSeq(rest, 1, n))
        first == IF type = VARINT THEN 1 ELSE n + 1
    IN  IF /\ number # 0 /\ type \in {VARINT, LENGTH_DELIMITED}
           /\ n # 0 /\ last \in n..Len(rest)
        THEN <<Field(number, type, SubSeq(rest, first, last))>>
               \o FieldsOf(SubSeq(rest, last + 1, Len(rest)))
        ELSE <<NoField>>

\* WriteInt32, WriteString and InternalWriteMessage, each with its tag; the
\* length of an embedded message is the size that was computed before.
WriteInt32(number, value) == <<Tag(number, VARINT)>> \o Int32Varint(value)

WriteMessage(number, size, bytes) ==
  <<Tag(number, LENGTH_DELIMITED)>> \o Varint(size) \o bytes

WriteString(number, string) == WriteMessage(number, Len(string), string)

StringSize(string) == Int32Size(Len(string)) + Len(string)

MessageSize(size) == Int32Size(size) + size

SerializeUnknownFields(unknown) ==
  FlattenSeq([i \in DOMAIN unknown |->
    IF unknown[i].type = VARINT
    THEN <<Tag(unknown[i].number, VARINT)>> \o unknown[i].value
    ELSE WriteString(unknown[i].number, unknown[i].value)])

ComputeUnknownFieldsSize(unknown) ==
  LET SizeOf(size, field) ==
        size + 1 + IF field.type = VARINT THEN Len(field.value)
                   ELSE StringSize(field.value)
  IN  FoldLeft(SizeOf, 0, unknown)

\* IsStructurallyValidUTF8, for characters of one and of two bytes.
ValidUtf8(string) ==
  \A i \in DOMAIN string :
    \/ string[i] < 128
    \/ string[i] \in 194..223 /\ i < Len(string) /\ string[i + 1] \in 128..191
    \/ string[i] \in 128..191 /\ i > 1 /\ string[i - 1] \in 194..223
=============================================================================
