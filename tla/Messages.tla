------------------------------ MODULE Messages ------------------------------
(***************************************************************************)
(* The generated message classes (route_guide.pb.cc, chat_demo.pb.cc): how *)
(* each is constructed, cleared, parsed, serialized, measured and merged.  *)
(* A message is a record of its fields and of the unknown fields it was    *)
(* parsed with; a string is a sequence of bytes; an embedded message is a  *)
(* sequence that is empty while the pointer to it is null.                 *)
(***************************************************************************)
EXTENDS WireFormat

\* What a class makes of a field: the message, and whether to go on.
Ok(m) == [ok |-> TRUE, m |-> m]

\* handle_unusual: a field that the class does not know, or not of this type.
KeepUnknown(m, f) == Ok([m EXCEPT !.unknown = Append(@, f)])

Is(f, number, type) == f.number = number /\ f.type = type

\* Fields with the default value are neither written nor counted nor merged.
Int32Field(number, value) ==
  IF value # 0 THEN WriteInt32(number, value) ELSE <<>>
Int32FieldSize(value) == IF value # 0 THEN 1 + Int32Size(value) ELSE 0

StringField(number, string) ==
  IF string # <<>> THEN WriteString(number, string) ELSE <<>>
StringFieldSize(string) == IF string # <<>> THEN 1 + StringSize(string) ELSE 0

OrInt32(mine, from) == IF from # 0 THEN from ELSE mine
OrString(mine, from) == IF from # <<>> THEN from ELSE mine

-----------------------------------------------------------------------------
(* Point *)

NewPoint == [latitude |-> 0, longitude |-> 0, unknown |-> <<>>]

ClearPoint(m) ==
  [m EXCEPT !.latitude = 0, !.longitude = 0, !.unknown = <<>>]

PointField(m, f) ==
  CASE Is(f, 1, VARINT) -> Ok([m EXCEPT !.latitude = Int32Of(f.value)])
    [] Is(f, 2, VARINT) -> Ok([m EXCEPT !.longitude = Int32Of(f.value)])
    [] OTHER -> KeepUnknown(m, f)

SerializePoint(m) ==
  Int32Field(1, m.latitude) \o Int32Field(2, m.longitude)
    \o SerializeUnknownFields(m.unknown)

\* The fields the class does not know are not counted.
MutSizePointForgetsUnknown(m) ==
  Int32FieldSize(m.latitude) + Int32FieldSize(m.longitude)

SizePoint(m) ==
  ComputeUnknownFieldsSize(m.unknown)
    + Int32FieldSize(m.latitude) + Int32FieldSize(m.longitude)

MergePoint(m, from) ==
  [latitude  |-> OrInt32(m.latitude, from.latitude),
   longitude |-> OrInt32(m.longitude, from.longitude),
   unknown   |-> m.unknown \o from.unknown]

CopyPoint(m, from) == MergePoint(ClearPoint(m), from)

-----------------------------------------------------------------------------
(* A Point in another message *)

\* has_lo, has_hi and has_location; then mutable_lo and its like.
Has(embedded) == embedded # <<>>
MutablePoint(embedded) == IF Has(embedded) THEN embedded[1] ELSE NewPoint

EmbeddedField(number, embedded) ==
  IF Has(embedded)
  THEN WriteMessage(number, SizePoint(embedded[1]), SerializePoint(embedded[1]))
  ELSE <<>>

EmbeddedFieldSize(embedded) ==
  IF Has(embedded) THEN 1 + MessageSize(SizePoint(embedded[1])) ELSE 0

MergeEmbedded(mine, from) ==
  IF Has(from) THEN <<MergePoint(MutablePoint(mine), from[1])>> ELSE mine

\* Defined below, from the classes.
RECURSIVE MergePartial(_, _, _)

\* What is there is replaced.
MutReadEmbeddedReplaces(embedded, f) ==
  MergePartial("Point", NewPoint, f.value)

\* ReadMessage into mutable_lo() and its like: what is there is merged with.
ReadEmbedded(embedded, f) ==
  MergePartial("Point", MutablePoint(embedded), f.value)

\* ReadString, then VerifyUtf8String.
ReadString(m, string) == [ok |-> ValidUtf8(string), m |-> m]

-----------------------------------------------------------------------------
(* Rectangle *)

NewRectangle == [lo |-> <<>>, hi |-> <<>>, unknown |-> <<>>]

ClearRectangle(m) ==
  [m EXCEPT !.lo = <<>>, !.hi = <<>>, !.unknown = <<>>]

RectangleField(m, f) ==
  CASE Is(f, 1, LENGTH_DELIMITED) ->
         LET r == ReadEmbedded(m.lo, f)
         IN  [ok |-> r.ok, m |-> [m EXCEPT !.lo = <<r.m>>]]
    [] Is(f, 2, LENGTH_DELIMITED) ->
         LET r == ReadEmbedded(m.hi, f)
         IN  [ok |-> r.ok, m |-> [m EXCEPT !.hi = <<r.m>>]]
    [] OTHER -> KeepUnknown(m, f)

SerializeRectangle(m) ==
  EmbeddedField(1, m.lo) \o EmbeddedField(2, m.hi)
    \o SerializeUnknownFields(m.unknown)

SizeRectangle(m) ==
  ComputeUnknownFieldsSize(m.unknown)
    + EmbeddedFieldSize(m.lo) + EmbeddedFieldSize(m.hi)

MergeRectangle(m, from) ==
  [lo      |-> MergeEmbedded(m.lo, from.lo),
   hi      |-> MergeEmbedded(m.hi, from.hi),
   unknown |-> m.unknown \o from.unknown]

CopyRectangle(m, from) == MergeRectangle(ClearRectangle(m), from)

-----------------------------------------------------------------------------
(* Feature *)

NewFeature == [name |-> <<>>, location |-> <<>>, unknown |-> <<>>]

ClearFeature(m) ==
  [m EXCEPT !.name = <<>>, !.location = <<>>, !.unknown = <<>>]

FeatureField(m, f) ==
  CASE Is(f, 1, LENGTH_DELIMITED) ->
         ReadString([m EXCEPT !.name = f.value], f.value)
    [] Is(f, 2, LENGTH_DELIMITED) ->
         LET r == ReadEmbedded(m.location, f)
         IN  [ok |-> r.ok, m |-> [m EXCEPT !.location = <<r.m>>]]
    [] OTHER -> KeepUnknown(m, f)

SerializeFeature(m) ==
  StringField(1, m.name) \o EmbeddedField(2, m.location)
    \o SerializeUnknownFields(m.unknown)

SizeFeature(m) ==
  ComputeUnknownFieldsSize(m.unknown)
    + StringFieldSize(m.name) + EmbeddedFieldSize(m.location)

MergeFeature(m, from) ==
  [name     |-> OrString(m.name, from.name),
   location |-> MergeEmbedded(m.location, from.location),
   unknown  |-> m.unknown \o from.unknown]

CopyFeature(m, from) == MergeFeature(ClearFeature(m), from)

-----------------------------------------------------------------------------
(* RouteNote *)

NewRouteNote == [location |-> <<>>, message |-> <<>>, unknown |-> <<>>]

\* The location is kept.
MutClearRouteNoteKeepsLocation(m) ==
  [m EXCEPT !.message = <<>>, !.unknown = <<>>]

ClearRouteNote(m) ==
  [m EXCEPT !.message = <<>>, !.location = <<>>, !.unknown = <<>>]

RouteNoteField(m, f) ==
  CASE Is(f, 1, LENGTH_DELIMITED) ->
         LET r == ReadEmbedded(m.location, f)
         IN  [ok |-> r.ok, m |-> [m EXCEPT !.location = <<r.m>>]]
    [] Is(f, 2, LENGTH_DELIMITED) ->
         ReadString([m EXCEPT !.message = f.value], f.value)
    [] OTHER -> KeepUnknown(m, f)

SerializeRouteNote(m) ==
  EmbeddedField(1, m.location) \o StringField(2, m.message)
    \o SerializeUnknownFields(m.unknown)

SizeRouteNote(m) ==
  ComputeUnknownFieldsSize(m.unknown)
    + StringFieldSize(m.message) + EmbeddedFieldSize(m.location)

MergeRouteNote(m, from) ==
  [location |-> MergeEmbedded(m.location, from.location),
   message  |-> OrString(m.message, from.message),
   unknown  |-> m.unknown \o from.unknown]

CopyRouteNote(m, from) == MergeRouteNote(ClearRouteNote(m), from)

-----------------------------------------------------------------------------
(* RouteSummary *)

NewRouteSummary ==
  [point_count |-> 0, feature_count |-> 0, distance |-> 0, elapsed_time |-> 0,
   unknown |-> <<>>]

ClearRouteSummary(m) ==
  [m EXCEPT !.point_count = 0, !.feature_count = 0, !.distance = 0,
            !.elapsed_time = 0, !.unknown = <<>>]

RouteSummaryField(m, f) ==
  CASE Is(f, 1, VARINT) -> Ok([m EXCEPT !.point_count = Int32Of(f.value)])
    [] Is(f, 2, VARINT) -> Ok([m EXCEPT !.feature_count = Int32Of(f.value)])
    [] Is(f, 3, VARINT) -> Ok([m EXCEPT !.distance = Int32Of(f.value)])
    [] Is(f, 4, VARINT) -> Ok([m EXCEPT !.elapsed_time = Int32Of(f.value)])
    [] OTHER -> KeepUnknown(m, f)

SerializeRouteSummary(m) ==
  Int32Field(1, m.point_count) \o Int32Field(2, m.feature_count)
    \o Int32Field(3, m.distance) \o Int32Field(4, m.elapsed_time)
    \o SerializeUnknownFields(m.unknown)

SizeRouteSummary(m) ==
  ComputeUnknownFieldsSize(m.unknown)
    + Int32FieldSize(m.point_count) + Int32FieldSize(m.feature_count)
    + Int32FieldSize(m.distance) + Int32FieldSize(m.elapsed_time)

MergeRouteSummary(m, from) ==
  [point_count   |-> OrInt32(m.point_count, from.point_count),
   feature_count |-> OrInt32(m.feature_count, from.feature_count),
   distance      |-> OrInt32(m.distance, from.distance),
   elapsed_time  |-> OrInt32(m.elapsed_time, from.elapsed_time),
   unknown       |-> m.unknown \o from.unknown]

CopyRouteSummary(m, from) == MergeRouteSummary(ClearRouteSummary(m), from)

-----------------------------------------------------------------------------
(* Connect *)

NewConnect == [text |-> <<>>, id |-> 0, unknown |-> <<>>]

ClearConnect(m) == [m EXCEPT !.text = <<>>, !.id = 0, !.unknown = <<>>]

ConnectField(m, f) ==
  CASE Is(f, 1, LENGTH_DELIMITED) ->
         ReadString([m EXCEPT !.text = f.value], f.value)
    [] Is(f, 2, VARINT) -> Ok([m EXCEPT !.id = Int32Of(f.value)])
    [] OTHER -> KeepUnknown(m, f)

SerializeConnect(m) ==
  StringField(1, m.text) \o Int32Field(2, m.id)
    \o SerializeUnknownFields(m.unknown)

SizeConnect(m) ==
  ComputeUnknownFieldsSize(m.unknown)
    + StringFieldSize(m.text) + Int32FieldSize(m.id)

MergeConnect(m, from) ==
  [text    |-> OrString(m.text, from.text),
   id      |-> OrInt32(m.id, from.id),
   unknown |-> m.unknown \o from.unknown]

CopyConnect(m, from) == MergeConnect(ClearConnect(m), from)

-----------------------------------------------------------------------------
(* The virtual functions that gRPC calls *)

New(class) ==
  CASE class = "Point" -> NewPoint
    [] class = "Rectangle" -> NewRectangle
    [] class = "Feature" -> NewFeature
    [] class = "RouteNote" -> NewRouteNote
    [] class = "RouteSummary" -> NewRouteSummary
    [] class = "Connect" -> NewConnect

Clear(class, m) ==
  CASE class = "Point" -> ClearPoint(m)
    [] class = "Rectangle" -> ClearRectangle(m)
    [] class = "Feature" -> ClearFeature(m)
    [] class = "RouteNote" -> ClearRouteNote(m)
    [] class = "RouteSummary" -> ClearRouteSummary(m)
    [] class = "Connect" -> ClearConnect(m)

ReadField(class, m, f) ==
  CASE class = "Point" -> PointField(m, f)
    [] class = "Rectangle" -> RectangleField(m, f)
    [] class = "Feature" -> FeatureField(m, f)
    [] class = "RouteNote" -> RouteNoteField(m, f)
    [] class = "RouteSummary" -> RouteSummaryField(m, f)
    [] class = "Connect" -> ConnectField(m, f)

\* Each field is handed to the class; parsing stops where one is damaged.
MergePartial(class, m, bytes) ==
  LET Step(r, f) == IF r.ok /\ f # NoField THEN ReadField(class, r.m, f)
                    ELSE [r EXCEPT !.ok = FALSE]
  IN  FoldLeft(Step, [ok |-> TRUE, m |-> m], FieldsOf(bytes))

Serialize(class, m) ==
  CASE class = "Point" -> SerializePoint(m)
    [] class = "Rectangle" -> SerializeRectangle(m)
    [] class = "Feature" -> SerializeFeature(m)
    [] class = "RouteNote" -> SerializeRouteNote(m)
    [] class = "RouteSummary" -> SerializeRouteSummary(m)
    [] class = "Connect" -> SerializeConnect(m)

ByteSize(class, m) ==
  CASE class = "Point" -> SizePoint(m)
    [] class = "Rectangle" -> SizeRectangle(m)
    [] class = "Feature" -> SizeFeature(m)
    [] class = "RouteNote" -> SizeRouteNote(m)
    [] class = "RouteSummary" -> SizeRouteSummary(m)
    [] class = "Connect" -> SizeConnect(m)

MergeFrom(class, m, from) ==
  CASE class = "Point" -> MergePoint(m, from)
    [] class = "Rectangle" -> MergeRectangle(m, from)
    [] class = "Feature" -> MergeFeature(m, from)
    [] class = "RouteNote" -> MergeRouteNote(m, from)
    [] class = "RouteSummary" -> MergeRouteSummary(m, from)
    [] class = "Connect" -> MergeConnect(m, from)

CopyFrom(class, m, from) ==
  CASE class = "Point" -> CopyPoint(m, from)
    [] class = "Rectangle" -> CopyRectangle(m, from)
    [] class = "Feature" -> CopyFeature(m, from)
    [] class = "RouteNote" -> CopyRouteNote(m, from)
    [] class = "RouteSummary" -> CopyRouteSummary(m, from)
    [] class = "Connect" -> CopyConnect(m, from)
=============================================================================
