---------------------------- MODULE SyncServers ----------------------------
(***************************************************************************)
(* The synchronous servers (route_guide_server.cpp, grpcchatServer.cpp,    *)
(* greeter_server.cpp, math_server.cpp) and the blocking clients that call *)
(* them.  gRPC runs one handler per call on threads of its own.  A handler *)
(* and its client are joined by a stream that holds a bounded number of    *)
(* messages per direction; Write waits for room, Read for a message or for *)
(* the end, Finish for the status.  A connection may break at any time.    *)
(* RouteChat is here as the call that the main thread of                   *)
(* route_guide_client_async.cpp waits for and counts the answers of; what  *)
(* its answers are is in SyncRouteChat.                                    *)
(***************************************************************************)
EXTENDS RouteGuide, FiniteSets, SequencesExt

CONSTANTS
  Calls,       \* the calls, one client thread each
  Workloads,   \* what the calls may ask for: functions from Calls to requests
               \* [client, messages]
  Words,       \* what chat texts are made of, the space among it
  Window,      \* how many messages a stream holds per direction
  Echoes,      \* how often yellEchoing repeats its input: 10 in the code
  IntBits,     \* the width of int
  NULL

\* The function of a client program, and the RPC it calls.
RpcOf ==
  [GetOneFeature |-> "GetFeature", ListFeatures |-> "ListFeatures",
   RecordRoute |-> "RecordRoute", RouteChat |-> "RouteChat", yell |-> "yellEcho",
   yellEchoing |-> "yellEchoing", yelling |-> "yellingEcho",
   streamYelling |-> "yellingEchoing",
   SayHello |-> "SayHello", AsyncSayHello |-> "SayHello",
   sendRequest |-> "sendRequest", AsyncSendRequest |-> "sendRequest"]

Unary == {"GetFeature", "yellEcho", "SayHello", "sendRequest"}
ServerStreaming == {"ListFeatures", "yellEchoing"}
ClientStreaming == {"RecordRoute", "yellingEcho"}

Ints == -(2^(IntBits - 1)) .. 2^(IntBits - 1) - 1

\* The message type of an RPC's requests.  A chat text is the sequence of its
\* words and spaces.
RequestType(rpc) ==
  CASE rpc \in {"GetFeature", "RecordRoute"} -> [latitude : Int, longitude : Int]
    [] rpc = "ListFeatures" -> [lo : [latitude : Int, longitude : Int],
                                hi : [latitude : Int, longitude : Int]]
    [] rpc = "RouteChat" -> [location : [latitude : Int, longitude : Int],
                             message : Seq(Words)]
    [] rpc = "sendRequest" -> [a : Ints, b : Ints]
    [] OTHER -> Seq(Words)

\* What a client may ask for.
IsRequest(r) ==
  /\ r.client \in DOMAIN RpcOf
  /\ r.messages \in Seq(RequestType(RpcOf[r.client]))
  /\ RpcOf[r.client] \in Unary \cup ServerStreaming => Len(r.messages) = 1

ASSUME SyncAssumption ==
  /\ Window \in Nat \ {0}
  /\ Echoes \in Nat
  /\ " " \in Words
  /\ IntBits \in Nat \ {0}
  /\ IsFiniteSet(Calls)
  /\ \A w \in Workloads : DOMAIN w = Calls /\ \A c \in Calls : IsRequest(w[c])
  /\ NULL \notin Calls \cup {"failed", "OK"}

VARIABLES
  request,   \* what each call asks for
  stream,    \* the messages on their way, and whether the client has ended its
             \* messages and whether the connection is gone
  handler,   \* the handler of each call: its statement and its local variables
  client,    \* the client of each call: the statements of its threads, how
             \* many messages it sent, the status it got, what it presented
  received_notes_,  \* the notes of all chats
  mu_,       \* the call whose handler holds the mutex of the notes, or NULL
  count,     \* the response counters of route_guide_client_async.cpp
  main,      \* what the main thread of that program waits for
  printed    \* the counters as it printed them, or NULL

vars == <<request, stream, handler, client, received_notes_, mu_, count, main,
          printed>>

noteVars == <<received_notes_, mu_>>
mainVars == <<count, main, printed>>

Rpc(c) == RpcOf[request[c].client]
Messages(c) == request[c].messages

Counters == {"getFeature", "listFeatures", "recordRoute", "routeChat"}

Init ==
  /\ request \in Workloads
  /\ stream = [c \in Calls |-> [toServer |-> <<>>, toClient |-> <<>>,
                                halfClosed |-> FALSE, broken |-> FALSE]]
  /\ handler = [c \in Calls |-> [at |-> "none", locals |-> NULL]]
  /\ client = [c \in Calls |-> [main |-> "start", writer |-> "none", sent |-> 0,
                                status |-> NULL, presented |-> <<>>]]
  /\ received_notes_ = <<>>
  /\ mu_ = NULL
  /\ count = [k \in Counters |-> 0]
  /\ main = "GetOneFeature"
  /\ printed = NULL

-----------------------------------------------------------------------------
(* gRPC, as the handlers and the clients see it *)

\* A message put on the stream; on a broken one nothing is sent.
PutToClient(s, message) ==
  IF s.broken THEN s ELSE [s EXCEPT !.toClient = Append(@, message)]

PutToServer(s, message) ==
  IF s.broken THEN s ELSE [s EXCEPT !.toServer = Append(@, message)]

RoomToClient(s) == s.broken \/ Len(s.toClient) < Window
RoomToServer(s) == s.broken \/ Len(s.toServer) < Window

\* The handler's Read returns false.
RequestsEnd(s) == s.broken \/ (s.toServer = <<>> /\ s.halfClosed)

\* The client's Read returns false.
AnswersEnd(c) ==
  \/ stream[c].broken
  \/ stream[c].toClient = <<>> /\ handler[c].at = "returned"

\* The status a client gets when the answers have ended.
StatusOf(c) == IF stream[c].broken THEN "failed" ELSE "OK"

\* gRPC runs the handler of a call once its request, or for a stream of
\* requests its beginning, is there.
Served(c, rpc) ==
  /\ Rpc(c) = rpc
  /\ handler[c].at = "none"
  /\ client[c].main # "start"
  /\ ~stream[c].broken

HandlerAt(c, rpc, statement) ==
  /\ Rpc(c) = rpc
  /\ handler[c].at = statement

Goto(c, statement, locals) ==
  handler' = [handler EXCEPT ![c] = [at |-> statement, locals |-> locals]]

Return(c) == Goto(c, "returned", NULL)

\* A handler without a call that waits: it runs as one step.
AnswerWith(c, reply) ==
  /\ stream' = [stream EXCEPT ![c].toServer = <<>>, ![c].toClient = <<reply>>]
  /\ Return(c)

-----------------------------------------------------------------------------
(* The handlers *)

GetFeature(c) ==
  /\ Served(c, "GetFeature")
  /\ AnswerWith(c, FeatureAt(Head(stream[c].toServer)))

\* The loop over feature_list_; the result of Write is not looked at.
ListFeatures(c) ==
  \/ /\ Served(c, "ListFeatures")
     /\ Goto(c, "loop", [rectangle |-> Head(stream[c].toServer), f |-> 1])
     /\ stream' = [stream EXCEPT ![c].toServer = <<>>]
  \/ /\ HandlerAt(c, "ListFeatures", "loop")
     /\ LET l == handler[c].locals
        IN  IF l.f > Len(FeatureList)
            THEN Return(c) /\ UNCHANGED stream
            ELSE /\ Goto(c, "loop", [l EXCEPT !.f = @ + 1])
                 /\ IF Inside(FeatureList[l.f].location, l.rectangle)
                    THEN /\ RoomToClient(stream[c])
                         /\ stream' = [stream EXCEPT ![c] =
                                         PutToClient(@, FeatureList[l.f])]
                    ELSE UNCHANGED stream

\* The previous point is not kept.
MutVisitForgetsPrevious(l, point) ==
  [l EXCEPT
    !.point_count   = @ + 1,
    !.feature_count = @ + (IF GetFeatureName(point) = "" THEN 0 ELSE 1),
    !.distance      = @ + (IF l.point_count = 0 THEN 0
                           ELSE Distance(l.previous, point))]

\* The body of RecordRoute's loop.
Visit(l, point) ==
  [l EXCEPT
    !.point_count   = @ + 1,
    !.feature_count = @ + (IF GetFeatureName(point) = "" THEN 0 ELSE 1),
    !.distance      = @ + (IF l.point_count = 0 THEN 0
                           ELSE Distance(l.previous, point)),
    !.previous      = point]

\* The elapsed time counts from the beginning of the handler.
SummaryOf(l) ==
  [point_count |-> l.point_count, feature_count |-> l.feature_count,
   distance |-> l.distance, elapsed_since |-> "start_time"]

RecordRoute(c) ==
  \/ /\ Served(c, "RecordRoute")
     /\ Goto(c, "Read", [point_count |-> 0, feature_count |-> 0, distance |-> 0,
                         previous |-> Point(0, 0)])
     /\ UNCHANGED stream
  \/ /\ HandlerAt(c, "RecordRoute", "Read")
     /\ stream[c].toServer # <<>>
     /\ Goto(c, "Read", Visit(handler[c].locals, Head(stream[c].toServer)))
     /\ stream' = [stream EXCEPT ![c].toServer = Tail(@)]
  \/ /\ HandlerAt(c, "RecordRoute", "Read")
     /\ RequestsEnd(stream[c])
     /\ stream' = [stream EXCEPT ![c] =
                     PutToClient(@, SummaryOf(handler[c].locals))]
     /\ Return(c)

\* The notes at the location of a note, in order.
NotesWhere(note) ==
  SelectSeq(received_notes_, LAMBDA n : n.location = note.location)

\* The mutex is held while the notes are written one by one and until the
\* handler's own note is kept.
RouteChat(c) ==
  \/ /\ Served(c, "RouteChat")
     /\ Goto(c, "Read", NULL)
     /\ UNCHANGED <<stream, noteVars>>
  \/ /\ HandlerAt(c, "RouteChat", "Read")
     /\ stream[c].toServer # <<>>
     /\ Goto(c, "lock", Head(stream[c].toServer))
     /\ stream' = [stream EXCEPT ![c].toServer = Tail(@)]
     /\ UNCHANGED noteVars
  \/ /\ HandlerAt(c, "RouteChat", "Read")
     /\ RequestsEnd(stream[c])
     /\ Return(c)
     /\ UNCHANGED <<stream, noteVars>>
  \/ /\ HandlerAt(c, "RouteChat", "lock")
     /\ mu_ = NULL
     /\ mu_' = c
     /\ LET note == handler[c].locals
        IN  Goto(c, "loop", [note |-> note, left |-> NotesWhere(note)])
     /\ UNCHANGED <<stream, received_notes_>>
  \/ /\ HandlerAt(c, "RouteChat", "loop")
     /\ handler[c].locals.left # <<>>
     /\ RoomToClient(stream[c])
     /\ stream' = [stream EXCEPT ![c] = PutToClient(@, Head(handler[c].locals.left))]
     /\ Goto(c, "loop", [handler[c].locals EXCEPT !.left = Tail(@)])
     /\ UNCHANGED noteVars
  \/ /\ HandlerAt(c, "RouteChat", "loop")
     /\ handler[c].locals.left = <<>>
     /\ received_notes_' = Append(received_notes_, handler[c].locals.note)
     /\ mu_' = NULL
     /\ Goto(c, "Read", NULL)
     /\ UNCHANGED stream

yellEcho(c) ==
  /\ Served(c, "yellEcho")
  /\ AnswerWith(c, Head(stream[c].toServer))

yellEchoing(c) ==
  \/ /\ Served(c, "yellEchoing")
     /\ Goto(c, "loop", [output |-> Head(stream[c].toServer), i |-> 0])
     /\ stream' = [stream EXCEPT ![c].toServer = <<>>]
  \/ /\ HandlerAt(c, "yellEchoing", "loop")
     /\ handler[c].locals.i < Echoes
     /\ RoomToClient(stream[c])
     /\ stream' = [stream EXCEPT ![c] = PutToClient(@, handler[c].locals.output)]
     /\ Goto(c, "loop", [handler[c].locals EXCEPT !.i = @ + 1])
  \/ /\ HandlerAt(c, "yellEchoing", "loop")
     /\ handler[c].locals.i = Echoes
     /\ Return(c)
     /\ UNCHANGED stream

\* Every text that is read is kept, with a space behind it.
yellingEcho(c) ==
  \/ /\ Served(c, "yellingEcho")
     /\ Goto(c, "Read", <<>>)
     /\ UNCHANGED stream
  \/ /\ HandlerAt(c, "yellingEcho", "Read")
     /\ stream[c].toServer # <<>>
     /\ Goto(c, "Read", handler[c].locals \o Head(stream[c].toServer) \o <<" ">>)
     /\ stream' = [stream EXCEPT ![c].toServer = Tail(@)]
  \/ /\ HandlerAt(c, "yellingEcho", "Read")
     /\ RequestsEnd(stream[c])
     /\ stream' = [stream EXCEPT ![c] = PutToClient(@, handler[c].locals)]
     /\ Return(c)

yellingEchoing(c) ==
  \/ /\ Served(c, "yellingEchoing")
     /\ Goto(c, "Read", NULL)
     /\ UNCHANGED stream
  \/ /\ HandlerAt(c, "yellingEchoing", "Read")
     /\ stream[c].toServer # <<>>
     /\ Goto(c, "Write", Head(stream[c].toServer))
     /\ stream' = [stream EXCEPT ![c].toServer = Tail(@)]
  \/ /\ HandlerAt(c, "yellingEchoing", "Read")
     /\ RequestsEnd(stream[c])
     /\ Return(c)
     /\ UNCHANGED stream
  \/ /\ HandlerAt(c, "yellingEchoing", "Write")
     /\ RoomToClient(stream[c])
     /\ stream' = [stream EXCEPT ![c] = PutToClient(@, handler[c].locals)]
     /\ Goto(c, "Read", NULL)

SayHello(c) ==
  /\ Served(c, "SayHello")
  /\ AnswerWith(c, <<"Hello">> \o Head(stream[c].toServer))

\* a*b of two ints: undefined if it does not fit, so that any int may come.
ProductsOf(a, b) == IF a * b \in Ints THEN {a * b} ELSE Ints

sendRequest(c) ==
  /\ Served(c, "sendRequest")
  /\ LET operands == Head(stream[c].toServer)
     IN  \E result \in ProductsOf(operands.a, operands.b) : AnswerWith(c, result)

Handler(c) ==
  /\ \/ /\ \/ GetFeature(c) \/ ListFeatures(c) \/ RecordRoute(c)
           \/ yellEcho(c) \/ yellEchoing(c) \/ yellingEcho(c) \/ yellingEchoing(c)
           \/ SayHello(c) \/ sendRequest(c)
        /\ UNCHANGED noteVars
     \/ RouteChat(c)
  /\ UNCHANGED <<request, client, mainVars>>

-----------------------------------------------------------------------------
(* The clients *)

At(c, program, statement) ==
  /\ request[c].client = program
  /\ client[c].main = statement

\* The call of the stub's method.  What goes with one request is sent at once.
Start(c) ==
  /\ client[c].main = "start"
  /\ LET rpc == Rpc(c)
     IN  IF rpc \in Unary \cup ServerStreaming
         THEN /\ stream' = [stream EXCEPT ![c] =
                              [PutToServer(@, Head(Messages(c)))
                                 EXCEPT !.halfClosed = TRUE]]
              /\ client' = [client EXCEPT ![c].main =
                              IF rpc \in Unary THEN "Finish" ELSE "Read"]
         ELSE /\ client' = [client EXCEPT
                   ![c].main   = IF rpc \in ClientStreaming THEN "Write" ELSE "Read",
                   ![c].writer = IF rpc \in ClientStreaming THEN "none" ELSE "Write"]
              /\ UNCHANGED stream
  /\ UNCHANGED count

\* The client has its status and presents a last result.
Returned(c, status, presented) ==
  client' = [client EXCEPT ![c].main = "returned", ![c].status = status,
                           ![c].presented = presented]

\* The status and the only reply of a call; "failure" is presented without one.
Finish(c, failure) ==
  \/ /\ stream[c].broken
     /\ Returned(c, "failed", failure)
     /\ UNCHANGED stream
  \/ /\ handler[c].at = "returned"
     /\ stream[c].toClient # <<>>
     /\ Returned(c, "OK", <<Head(stream[c].toClient)>>)
     /\ stream' = [stream EXCEPT ![c].toClient = <<>>]

\* Read of the next answer, or of the end of the answers.
ReadAnswer(c) ==
  /\ stream[c].toClient # <<>>
  /\ client' = [client EXCEPT ![c].presented =
                  Append(@, Head(stream[c].toClient))]
  /\ stream' = [stream EXCEPT ![c].toClient = Tail(@)]

Write(c) ==
  /\ client[c].sent < Len(Messages(c))
  /\ RoomToServer(stream[c])
  /\ client' = [client EXCEPT ![c].sent = @ + 1]
  /\ stream' = [stream EXCEPT ![c] =
                  PutToServer(@, Messages(c)[client[c].sent + 1])]

WritesDone(c, thread, statement) ==
  /\ client' = [client EXCEPT ![c][thread] = statement]
  /\ stream' = [stream EXCEPT ![c].halfClosed = TRUE]

\* The counter goes up before the status is looked at.
GetOneFeature(c) ==
  /\ At(c, "GetOneFeature", "Finish")
  /\ Finish(c, <<>>)
  /\ count' = [count EXCEPT !["getFeature"] = @ + 1]

ClientListFeatures(c) ==
  /\ At(c, "ListFeatures", "Read")
  /\ \/ /\ ReadAnswer(c)
        /\ count' = [count EXCEPT !["listFeatures"] = @ + 1]
     \/ /\ AnswersEnd(c)
        /\ Returned(c, StatusOf(c), client[c].presented)
        /\ UNCHANGED <<stream, count>>

\* The loop ends at a Write that fails; only a route that was recorded counts.
ClientRecordRoute(c) ==
  \/ /\ At(c, "RecordRoute", "Write")
     /\ \/ ~stream[c].broken /\ Write(c)
        \/ /\ stream[c].broken \/ client[c].sent = Len(Messages(c))
           /\ WritesDone(c, "main", "Finish")
     /\ UNCHANGED count
  \/ /\ At(c, "RecordRoute", "Finish")
     /\ Finish(c, <<>>)
     /\ count' = [count EXCEPT !["recordRoute"] =
                    IF stream[c].broken THEN @ ELSE @ + 1]

\* A failed call is presented like an empty reply.
yell(c) ==
  /\ At(c, "yell", "Finish")
  /\ Finish(c, <<<<>>>>)
  /\ UNCHANGED count

ClientYellEchoing(c) ==
  /\ At(c, "yellEchoing", "Read")
  /\ \/ ReadAnswer(c)
     \/ /\ AnswersEnd(c)
        /\ Returned(c, StatusOf(c), client[c].presented)
        /\ UNCHANGED stream
  /\ UNCHANGED count

\* The user's lines up to "q".  Whether a Write failed is not looked at.
yelling(c) ==
  /\ At(c, "yelling", "Write")
  /\ \/ Write(c)
     \/ /\ client[c].sent = Len(Messages(c))
        /\ WritesDone(c, "main", "Finish")
  /\ UNCHANGED count

finishYelling(c) ==
  /\ At(c, "yelling", "Finish")
  /\ Finish(c, <<>>)
  /\ UNCHANGED count

\* A writer thread.  Whether a Write failed is not looked at.
WriteAll(c) ==
  /\ client[c].writer = "Write"
  /\ \/ Write(c)
     \/ /\ client[c].sent = Len(Messages(c))
        /\ WritesDone(c, "writer", "done")
  /\ UNCHANGED count

\* Every answer is counted as it is read; then writer.join(), and Finish, which
\* has the status by then.
ClientRouteChat(c) ==
  \/ /\ At(c, "RouteChat", "Read")
     /\ \/ /\ ReadAnswer(c)
           /\ count' = [count EXCEPT !["routeChat"] = @ + 1]
        \/ /\ AnswersEnd(c)
           /\ client' = [client EXCEPT ![c].main = "join", ![c].status = StatusOf(c)]
           /\ UNCHANGED <<stream, count>>
  \/ /\ At(c, "RouteChat", "join")
     /\ client[c].writer = "done"
     /\ client' = [client EXCEPT ![c].main = "returned"]
     /\ UNCHANGED <<stream, count>>

ClientRouteChatWriter(c) == request[c].client = "RouteChat" /\ WriteAll(c)

\* The writer thread of mode 4.
streamYelling(c) == request[c].client = "streamYelling" /\ WriteAll(c)

\* The writer is joined before the echoes are read.
MutRecvEchoingAfterJoin(c) ==
  /\ At(c, "streamYelling", "Read")
  /\ client[c].writer = "done"
  /\ \/ ReadAnswer(c)
     \/ /\ AnswersEnd(c)
        /\ client' = [client EXCEPT ![c].main = "join", ![c].status = StatusOf(c)]
        /\ UNCHANGED stream
  /\ UNCHANGED count

recvEchoing(c) ==
  /\ At(c, "streamYelling", "Read")
  /\ \/ ReadAnswer(c)
     \/ /\ AnswersEnd(c)
        /\ client' = [client EXCEPT ![c].main = "join", ![c].status = StatusOf(c)]
        /\ UNCHANGED stream
  /\ UNCHANGED count

\* writer.join(), and Finish, which has the status by then.
checkStatus(c) ==
  /\ At(c, "streamYelling", "join")
  /\ client[c].writer = "done"
  /\ client' = [client EXCEPT ![c].main = "returned"]
  /\ UNCHANGED <<stream, count>>

ClientSayHello(c) ==
  /\ At(c, "SayHello", "Finish")
  /\ Finish(c, <<<<"RPC failed">>>>)
  /\ UNCHANGED count

\* The completion queue belongs to the call: its only event is that of Finish,
\* with tag 1, and for Finish ok is always true.
AsyncSayHello(c) ==
  /\ At(c, "AsyncSayHello", "Finish")
  /\ Finish(c, <<<<"RPC failed">>>>)
  /\ UNCHANGED count

\* A failed call returns EXIT_FAILURE, which is printed like a product.
ClientSendRequest(c) ==
  /\ At(c, "sendRequest", "Finish")
  /\ Finish(c, <<1>>)
  /\ UNCHANGED count

AsyncSendRequest(c) ==
  /\ At(c, "AsyncSendRequest", "Finish")
  /\ Finish(c, <<-1>>)
  /\ UNCHANGED count

Client(c) ==
  /\ \/ Start(c)
     \/ GetOneFeature(c) \/ ClientListFeatures(c) \/ ClientRecordRoute(c)
     \/ ClientRouteChat(c)
     \/ yell(c) \/ ClientYellEchoing(c) \/ yelling(c) \/ finishYelling(c)
     \/ recvEchoing(c) \/ checkStatus(c)
     \/ ClientSayHello(c) \/ AsyncSayHello(c)
     \/ ClientSendRequest(c) \/ AsyncSendRequest(c)
  /\ UNCHANGED <<request, handler, noteVars, main, printed>>

Writer(c) ==
  /\ ClientRouteChatWriter(c) \/ streamYelling(c)
  /\ UNCHANGED <<request, handler, noteVars, main, printed>>

AllReturned(program) ==
  \A c \in Calls :
    request[c].client = program => client[c].main = "returned"

\* The threads that chat are not joined.
MutMainJoinForgetsRouteChat ==
  \/ /\ main = "GetOneFeature" /\ AllReturned("GetOneFeature")
     /\ main' = "ListFeatures"
  \/ /\ main = "ListFeatures" /\ AllReturned("ListFeatures")
     /\ main' = "RecordRoute"
  \/ /\ main = "RecordRoute" /\ AllReturned("RecordRoute")
     /\ main' = "print"

\* The groups of threads are joined one after the other.
MainJoin ==
  \/ /\ main = "GetOneFeature" /\ AllReturned("GetOneFeature")
     /\ main' = "ListFeatures"
  \/ /\ main = "ListFeatures" /\ AllReturned("ListFeatures")
     /\ main' = "RecordRoute"
  \/ /\ main = "RecordRoute" /\ AllReturned("RecordRoute")
     /\ main' = "RouteChat"
  \/ /\ main = "RouteChat" /\ AllReturned("RouteChat")
     /\ main' = "print"

MainPrint ==
  /\ main = "print"
  /\ main' = "done"
  /\ printed' = count

Main ==
  /\ \/ MainJoin /\ UNCHANGED printed
     \/ MainPrint
  /\ UNCHANGED <<request, stream, handler, client, noteVars, count>>

\* The connection breaks before the client knows the outcome of its call: all
\* messages on their way are lost.
Disconnect(c) ==
  /\ ~stream[c].broken
  /\ client[c].status = NULL
  /\ stream' = [stream EXCEPT ![c].broken = TRUE, ![c].toServer = <<>>,
                              ![c].toClient = <<>>]
  /\ UNCHANGED <<request, handler, client, noteVars, mainVars>>

-----------------------------------------------------------------------------
Next ==
  \/ \E c \in Calls : Handler(c) \/ Client(c) \/ Writer(c) \/ Disconnect(c)
  \/ Main

Spec == Init /\ [][Next]_vars

\* All threads run on, and the user ends the lines with "q" one day.  The mutex
\* is taken once for every note, so a thread that waits for it need not be
\* favoured.
Fairness ==
  /\ \A c \in Calls : WF_vars(Handler(c)) /\ WF_vars(Client(c)) /\ WF_vars(Writer(c))
  /\ WF_vars(Main)

FairSpec == Spec /\ Fairness

-----------------------------------------------------------------------------
(* What a client should get.  Routes and features are answered as by the   *)
(* operators of RouteGuide, that is, by the asynchronous server.           *)

RouteSummaryOf(points) ==
  LET state[n \in 0..Len(points)] ==
        IF n = 0 THEN NewRecordRouteState
                 ELSE RecordPoint(state[n - 1], points[n])
  IN  [RouteSummary(state[Len(points)]) EXCEPT !.elapsed_since = "start_time"]

Expected(c) ==
  LET messages == Messages(c)
      message == Head(messages)
  IN  CASE Rpc(c) = "GetFeature" -> <<FeatureAt(message)>>
        [] Rpc(c) = "ListFeatures" -> FeaturesIn(message)
        [] Rpc(c) = "RecordRoute" -> <<RouteSummaryOf(messages)>>
        [] Rpc(c) = "yellEcho" -> <<message>>
        [] Rpc(c) = "yellEchoing" -> [i \in 1..Echoes |-> message]
        [] Rpc(c) = "yellingEcho" ->
             <<FlattenSeq([i \in DOMAIN messages |-> messages[i] \o <<" ">>])>>
        [] Rpc(c) = "yellingEchoing" -> messages
        [] Rpc(c) = "SayHello" -> <<<<"Hello">> \o message>>
        [] Rpc(c) = "sendRequest" -> <<message.a * message.b>>

Overflows(c) ==
  Rpc(c) = "sendRequest" /\ Head(Messages(c)).a * Head(Messages(c)).b \notin Ints

\* A call that ends with status OK has presented all that was asked for, in
\* order: the loops of the handlers, with streams that are full or empty at
\* any time, select, sum up and repeat what RouteGuide says the other server
\* does.  What comes in a stream is the beginning of that at any time, even
\* if the connection breaks.  The answers of a chat depend on the other chats:
\* SyncRouteChat says what they are.
AnswersAreRight ==
  \A c \in Calls : Rpc(c) # "RouteChat" =>
    /\ client[c].status = "OK" /\ ~Overflows(c) =>
         client[c].presented = Expected(c)
    /\ Rpc(c) \notin Unary \cup ClientStreaming =>
         IsPrefix(client[c].presented, Expected(c))

\* The four counters that route_guide_client_async.cpp prints are final and
\* count every answer once: all calls of GetFeature, the features that were
\* listed and the notes that the chats were answered with, those of failed
\* calls included, and the routes that were recorded.
PrintedCountsAreFinal ==
  printed # NULL =>
    LET By(program) == {c \in Calls : request[c].client = program}
        Presented(program) ==
          UNION {{c} \X DOMAIN client[c].presented : c \in By(program)}
    IN  /\ printed["getFeature"] = Cardinality(By("GetOneFeature"))
        /\ printed["listFeatures"] = Cardinality(Presented("ListFeatures"))
        /\ printed["recordRoute"] =
             Cardinality({c \in By("RecordRoute") : client[c].status = "OK"})
        /\ printed["routeChat"] = Cardinality(Presented("RouteChat"))

\* Whatever breaks, every client function returns, neither thread of a client
\* waits for ever for the other or for its handler, no handler for the mutex,
\* and the counters are printed when the four groups of threads are joined.
EveryClientReturns ==
  /\ \A c \in Calls : <>(client[c].main = "returned")
  /\ <>(printed # NULL)
=============================================================================
