----------------------------- MODULE Encodings -----------------------------
(***************************************************************************)
(* Messages on their way: a program that has read its features fills       *)
(* objects of a message class and writes them to a stream one by one;      *)
(* the other program reads the messages into one object of its own, as     *)
(* `while (reader->Read(&point))` does.  gRPC sends one frame per message  *)
(* whose length is the size that ByteSizeLong computed.                    *)
(***************************************************************************)
EXTENDS DatabaseParser

CONSTANTS
  Samples,    \* what objects of each class are filled with, by class
  MaxFills,   \* bound: how often the object is filled
  MaxWrites   \* bound: how many messages are written

VARIABLES
  class,      \* the class of the messages, or ""
  writer,     \* the writer's object
  stream,     \* the frames on their way: their bytes, the size that was
              \* computed, and the message they were made from
  reader,     \* the reader's object, whether the last Read succeeded, and what
              \* had been written for it
  fills, writes

vars == <<parserVars, class, writer, stream, reader, fills, writes>>

Init ==
  /\ ParserInit
  /\ class = ""
  /\ writer = <<>>
  /\ stream = <<>>
  /\ reader = <<>>
  /\ fills = 0
  /\ writes = 0

-----------------------------------------------------------------------------

\* Features come from the list that was read, too.
Contents(c) ==
  Samples[c] \cup IF c = "Feature" THEN ToSet(feature_list) ELSE {}

\* The objects are made: Feature feature; and the like.  As a bound, only after
\* a whole file: from a damaged one no other features are read.
Declare ==
  /\ parser = "done"
  /\ file.damage = "none"
  /\ class = ""
  /\ \E c \in DOMAIN Samples :
       /\ class' = c
       /\ writer' = New(c)
       /\ reader' = [m |-> New(c), ok |-> TRUE, written |-> New(c)]
  /\ UNCHANGED <<parserVars, stream, fills, writes>>

\* The writer takes another object, or calls CopyFrom or MergeFrom on its own.
Fill ==
  /\ class # ""
  /\ fills < MaxFills
  /\ \E content \in Contents(class) :
       \/ writer' = content
       \/ writer' = CopyFrom(class, writer, content)
       \/ writer' = MergeFrom(class, writer, content)
  /\ fills' = fills + 1
  /\ UNCHANGED <<parserVars, class, stream, reader, writes>>

Write ==
  /\ class # ""
  /\ writes < MaxWrites
  /\ stream' = Append(stream, [bytes   |-> Serialize(class, writer),
                               size    |-> ByteSize(class, writer),
                               message |-> writer])
  /\ writes' = writes + 1
  /\ UNCHANGED <<parserVars, class, writer, reader, fills>>

\* ParseFromZeroCopyStream: the object is cleared and merged with the bytes.
\* The loops over Read end with the first that fails.
Read ==
  /\ stream # <<>>
  /\ reader.ok
  /\ LET r == MergePartial(class, Clear(class, reader.m), Head(stream).bytes)
     IN  reader' = [m |-> r.m, ok |-> r.ok, written |-> Head(stream).message]
  /\ stream' = Tail(stream)
  /\ UNCHANGED <<parserVars, class, writer, fills, writes>>

Next ==
  \/ ParserNext /\ UNCHANGED <<class, writer, stream, reader, fills, writes>>
  \/ Declare
  \/ Fill
  \/ Write
  \/ Read

Spec == Init /\ [][Next]_vars

-----------------------------------------------------------------------------

\* The strings of a message.
StringsOf(m) ==
  CASE class = "Feature" -> {m.name}
    [] class = "RouteNote" -> {m.message}
    [] class = "Connect" -> {m.text}
    [] OTHER -> {}

Readable(m) == \A string \in StringsOf(m) : ValidUtf8(string)

\* A Read gives the message that was written, whatever the object held before,
\* with default values for the fields that were not sent and with the fields
\* its class does not know; it fails exactly when a string of the message is
\* not UTF-8 (Clear, MergePartialFromCodedStream, SerializeWithCachedSizes).
ReadIsWritten ==
  class # "" =>
    /\ reader.ok = Readable(reader.written)
    /\ reader.ok => reader.m = reader.written

\* The size that is announced for a message is the number of its bytes, also
\* with negative numbers, which take ten, and with embedded messages, whose
\* sizes are part of the bytes (ByteSizeLong, SerializeWithCachedSizes).
SizesAgree ==
  \A i \in DOMAIN stream : stream[i].size = Len(stream[i].bytes)

\* To parse the bytes of two messages as one is to merge the second into the
\* first: a field that comes twice has its last value, and embedded messages
\* are merged with what is there (mutable_location, MergeFrom).
ConcatenationMerges ==
  \A i, k \in DOMAIN stream :
    LET a == stream[i]  b == stream[k]
    IN  Readable(a.message) /\ Readable(b.message) =>
          MergePartial(class, New(class), a.bytes \o b.bytes)
            = Ok(MergeFrom(class, a.message, b.message))
=============================================================================
