# Verification of the gRPC client/server programs

This directory models the servers of the repository in TLA+, checks the models
with TLC on small instances, and proves the central properties with TLAPS for
every instance. `PROJECT.json` lists the components, runs, mutants, theorems
and hazards in machine-readable form, and maps every definition to the source
lines it stands for.

## 1. The system

The repository is a collection of gRPC programs around five small services.
Paths are relative to `src/src/`.

| Component | Files | State | Operations |
|---|---|---|---|
| Job framework | `route_guide_server_async.cpp` 101-832, copied in `chatDemoServer.cpp` and `dummyServer.cpp` | per RPC: `mAsyncOpCounter`, `mAsyncReadInProgress`, `mAsyncWriteInProgress`, `mOnDoneCalled`, `mClientStreamingDone`, `mServerStreamingDone`, `mRequest`, `mResponse`, `mResponseQueue` | construction; the tag handlers `OnRead`, `OnInit`, `OnWrite`, `OnFinish`, `OnDone`; `SendResponse`; deletion through `Done` |
| Asynchronous RouteGuide server | `route_guide_server_async.cpp` 834-1175 | four `m...Responders` maps, `mRecordRouteMap`, the `g...RpcCounter`s, `mFeatureList` | `create...Rpc`, the four processors, the four `...Done` |
| Asynchronous chat server | `chatDemoServer.cpp` | one responder map | echoes every note |
| Hand-over of tags | `HandleRpcs` and `processRpcs` in the three asynchronous servers | `gIncomingTags`, `gIncomingTagsMutex`, the processor's local `tags` | push, move, handle |
| Asynchronous dummy server | `dummyServer.cpp` | as RouteGuide, with `mRecordHelloReplyStateMap` | as RouteGuide; its bidirectional job never queues a request |
| CallData servers | `greeter_async_server.cpp`, `greeter_streaming_server_*.cpp`, `math_*_async.cpp`, `chatDemoSimpleServer.cpp` | one `CallData` per call: `status_`, `times_` | `Proceed`, `Stop`, `HandleRpcs` |
| Synchronous servers | `route_guide_server.cpp`, `greeter_server.cpp`, `math_server.cpp`, `grpcchatServer.cpp` | `received_notes_` under `mu_` (RouteGuide only); a handler's local variables | one function per RPC, on gRPC's threads |
| Clients | `*_client*.cpp`, `*Client.cpp` | per call: a stream, a writer thread; four counters in `route_guide_client_async.cpp` | write, read until the end, join, `Finish`; start and join the threads, print the counters |
| Parser | `helper.cpp` | `db_`, `current_`, `failed_`, the list it fills | `GetDbFileContent`, `Parser`, `TryParseOne`, `ParseDb` |
| Message classes (generated) | `route_guide.pb.*`, `chat_demo.pb.*` | the fields of a message, its unknown fields | construction, `Clear`, parsing, serialization, `ByteSizeLong`, `MergeFrom`, `CopyFrom` |

**How the parts of an asynchronous server interact.** The main thread blocks
in `CompletionQueue::Next`. Each event names a *tag*, a function object inside
a job; the main thread appends it to `gIncomingTags`. The processor thread
swaps the list out under the mutex and calls the tags' functions in order.
A handler updates its job, calls the application's processor through a
function pointer, and starts the next gRPC operation with a tag in the same
job. `Done` calls the application back, which deletes the job. Jobs live on the
heap and the application keys its maps by their address.

**What is hard.** gRPC completes reads, writes, and the done event of an RPC in
any order, and may report the done event while operations are in progress
(the comment at `route_guide_server_async.cpp:199` tells the story); a client
may vanish at any point; a job must be deleted exactly once, by the last event,
and never while a tag of its own is queued; responses queue up behind the one
write gRPC accepts at a time; the end of the requests may fall into a write;
addresses are used again by later jobs; two threads share a list. In the
synchronous programs every call is a pair, or a triple, of threads that wait for
each other over streams with bounded room. All programs exchange messages whose
size, bytes and parsing are written separately for each class, and read them into
objects that are used again.
`PROJECT.json`, under "hazards", gives the line where each of these bites and
the properties that watch it.

**What makes each component correct.**

- Job framework: no tag outlives its job, the counter counts the operations in
  flight, only a read and a write overlap, an RPC is finished once, responses
  are written in order and all before the finish, no assertion fails.
- Server: one job awaits each kind of RPC, counters and maps account for the
  living jobs, each call gets the answer of its own requests, every call that
  is over or whose client is done comes to its end.
- Hand-over: no tag lost, repeated, overtaken or stuck; no data race.
- CallData servers: an event carries only the address of a CallData, so at most
  one operation may be under way for each and none for a deleted one; one
  CallData awaits the next call; calls are finished, after all their replies;
  nothing is left behind but what served a dead call.
- Synchronous RouteGuide server: a note is answered with exactly the notes that
  came before it at its location, although chats run at once.
- The other synchronous servers: each client presents the answer of its own
  request, whole and in order, or a failure.
- Clients: they read all answers; their threads and the handler never wait for
  each other for ever; counters are printed when they are final.
- Parser: a damaged database never yields a feature it does not contain.
- Message classes: what is read is what was written, whatever the object held
  before; the announced size is the number of bytes; merging and parsing agree.

## 2. Modules

| Module | What it models | From |
|---|---|---|
| `RpcJob` | the base class: a job is a record, a member function an operator from record to record | `RpcJob` |
| `UnaryRpcJob`, `ServerStreamingRpcJob`, `ClientStreamingRpcJob`, `BidirectionalStreamingRpcJob` | the handlers of the four subclasses | the classes of these names |
| `ResponseQueue` | the response queue that two of them share word for word | `SendResponse`, `OnWrite`, `doSendResponse`, `doFinish` |
| `RouteGuide` | what the RPCs compute: lookup, selection, route summary | `GetFeatureName`, the processors |
| `GrpcCall` | which operations gRPC may complete, with which result (external) | how the servers use gRPC |
| `AsyncServer` | what the three asynchronous servers share: heap, both threads, creation and deletion of jobs, clients | `HandleRpcs`, `processRpcs`, `create...Rpc`, `...Done` |
| `RouteGuideServer` | the RouteGuide and chat servers: `AsyncServer` with the processors of RouteGuide | `ServerImpl` |
| `DummyServer` | the dummy server: `AsyncServer` with its processors and its own bidirectional constructor | `ServerImpl` of `dummyServer.cpp` |
| `JobReferences` | abstract: a job is held by references and deleted with the last | refined by `RouteGuideServer` |
| `TagHandoff` | the two threads, statement by statement | `HandleRpcs`, `processRpcs` |
| `TagQueue` | abstract: a first-in first-out queue | refined by `TagHandoff` |
| `CallDataServer` | the eight CallData servers; `Init` chooses one | `CallData::Proceed`, `Stop`, `HandleRpcs` of each |
| `SyncRouteChat` | RouteChat of the synchronous server, with its mutex, and of `route_guide_client.cpp`, with its two threads | `RouteGuideImpl::RouteChat`, `RouteGuideClient::RouteChat` |
| `NoteBoard` | abstract: a board on which a note is posted and answered in one step | refined by `SyncRouteChat` |
| `SyncServers` | the handlers of the synchronous servers and the clients that call them, RouteChat among them as the main thread of `route_guide_client_async.cpp` waits for it and counts it | `RouteGuideImpl`, the implementations of greeter, math and chat, their clients |
| `WireFormat` | bytes of integers, strings, embedded messages and unknown fields (external) | how the generated code uses protobuf |
| `Messages` | the six message classes | `route_guide.pb.cc`, `chat_demo.pb.cc` |
| `DatabaseParser` | reading the features from the file | `helper.cpp` |
| `Encodings` | composition: a program that has read its features writes messages, another reads them | how the programs use the message classes |
| `MCRouteGuideServer`, `MCDummyServer`, `MCTagHandoff`, `MCCallDataServer`, `MCSyncRouteChat`, `MCSyncServers`, `MCEncodings` | instances for TLC | |
| `AsyncServer_proofs` | lemmas: what each handler does to a job, and what each step of an asynchronous server does to all jobs | |
| `RouteGuide_proofs` | lemmas: the loops of the two RouteGuide servers are total, for any database | |
| `RouteGuideServer_proofs`, `DummyServer_proofs`, `SyncRouteChat_proofs`, `SyncServers_proofs`, `TagHandoff_proofs`, `CallDataServer_proofs` | theorems | |

`AsyncServer` extends `RpcJob` and `GrpcCall`; `RouteGuideServer` and `DummyServer`
extend `AsyncServer`, the modules of the jobs they use, and `RouteGuide` for the former.
With `RpcTypes = {"Bidirectional"}` `RouteGuideServer` is the chat server. `SyncServers`
extends `RouteGuide` too: the two servers compute the same answers. The loops over the
database (`FeaturesIn`), over `received_notes_` (`NotesWhere`) and over a route
(`RouteSummaryOf`) are recursive functions, which the provers can reason about.
`Encodings` extends `DatabaseParser`, which extends `Messages` (its list holds `Feature`
messages) and so `WireFormat`. These use recursive operators and have no theorems.

### State and actions of `AsyncServer`, `RouteGuideServer` and `DummyServer`

`job[j]` is the object at heap address `j`, `alive` telling whether there is
one. Besides the C++ members it holds `held`, the operations gRPC has been
handed and not completed, and a record of what was handed to the responder
(`written`, `finishes`). `call[j]` is gRPC's view of the call that job serves.

- `StartCall`, `SendRequest`, `HalfClose`, `Cancel`: clients. The clients of the
  repository call, send all their messages, half-close and wait; a client of the
  model may stop at any point, and cancelling stands for every way one vanishes.
- `HandleRpcs(j, op)`: operation `op` completes and the main thread appends its
  tag. Completion, `Next` and `push_back` are one step: nothing but the order
  of the tags in the list can be observed in between, and `TagHandoff` is shown
  to implement exactly the queue this action assumes.
- `TakeIncomingTags`: `tags = std::move(gIncomingTags)`.
- One action for each handler of each kind of RPC (`GetFeatureOnRead`,
  `RecordRouteOnRead`, `RouteChatOnWrite`, `JobOnDone`, ...): the *whole*
  handler with the application's processor, the creation of the next job, the
  operations it starts and the deletion of the job. A handler is one step
  because all it shares with the main thread is gRPC: an operation it starts
  may complete before the handler returns, but its tag then waits in
  `gIncomingTags` behind the running batch, and the handler reads nothing the
  completion writes (`mRequest` is given to gRPC by the handler's last
  statement only).

Data is abstracted to what the properties tell apart: points are pairs of
small integers, the great-circle distance in floats is the sum of coordinate
differences, a `RouteSummary`'s elapsed time is what it counts from, and the
prefix `" --->  "` of the chat server is left out. The handlers never look at
`IsCancelled`, so neither does the model.

`mRecordStateMap` stands for `mRecordRouteMap` and for the dummy server's
`mRecordHelloReplyStateMap`: the application's state of a call that streams
requests, by the job's address. The dummy server differs in two more ways. Its
bidirectional constructor asks gRPC for nothing, so the first job of that kind
stays as it is, and calls of `Bidirectional` are never accepted. Nothing fills
its `mHelloReplyList`, so its server-streaming RPC ends without a reply and
`OnWrite` is never called; the model has no action for these handlers.

### State and actions of `CallDataServer`

`data[c]` is the CallData at heap address `c`: `status_`, `times_`, the
operations gRPC holds under its tag (`held`) and the replies written. The
programs differ in what `Proceed` does in the PROCESS state (`Processed`: an
answer at once; three replies back to back; with an alarm in every other pass;
with an alarm after every write; a read and a write at once), in the first-pass
test (`CreatesSuccessor`) and in what `HandleRpcs` does with `ok = false`
(`StopCall`, `AssertOk`). The CREATE state is part of the construction. One
thread takes one event at a time, so each event is one action:
`ProceedProcess`, `ProceedPushToBack`, `ProceedFinish`, `StopCall`, `AssertOk`.
In the PROCESS state it runs `Proceed` and the constructor of the successor.
An event for an address whose CallData was deleted is not followed further:
that there is none is `TagIdentifiesRequest`.

### State and actions of `SyncRouteChat`

Each client `c` has one chat: a handler on a thread of gRPC's (`handler[c]`: its
statement, the note it read, the notes its loop has still to write), a writer
thread and a main thread (`client[c]`), and the two directions of a stream
(`toServer`, `toClient`), each of which holds at most `Window` messages. One
action is one blocking call or the code between two of them: `HandlerRead`,
`HandlerLock` (which also evaluates what the loop will find, for
`received_notes_` changes only under the mutex), `HandlerWrite` (one message,
with the mutex held, waiting for room), `HandlerPushBack` (and unlock);
`WriterWrite`, `WriterWritesDone`, `MainRead`, `MainJoin`. `Disconnect` breaks a
connection: what is on its way is lost, reads fail, and writes, whose results
nobody looks at, go nowhere.

### State and actions of `SyncServers`

`request[c]` says which client function makes call `c`, and with which messages. What it
may ask for is given by the type of the RPC (`RequestType`); a chat text is a sequence
of `Words`, the space among them, so that what `yellingEcho` puts between texts can be
told from the texts. `handler[c]` is the statement its handler waits at and its local
variables, `client[c]` the statements of the client's main and writer threads and what
it presents to its user; `stream[c]` joins them. As in `SyncRouteChat`, one action is
one blocking call with the code behind it, and bears the name of the function it belongs
to: `ListFeatures`, `RecordRoute`, `yellEchoing` and so on for handlers,
`ClientListFeatures`, `recvEchoing`, `checkStatus` and so on for clients. A handler that
never waits (`GetFeature`, `yellEcho`, `SayHello`, `sendRequest`) is one step. `count`,
`main` and `printed` are the four counters of `route_guide_client_async.cpp` and the
main thread, which joins the four groups of threads one after the other (`MainJoin`) and
then prints (`MainPrint`). So its RouteChat is here too, with the handler, the notes of
all chats (`received_notes_`), the mutex (`mu_`) and the writer thread (`RouteChat`,
`ClientRouteChat`, `ClientRouteChatWriter`): each answer read raises a counter, and main
may print only when the chats have returned. That the answers of a chat are the right
ones is the matter of `SyncRouteChat`, which describes the same handler;
`AnswersAreRight` leaves chats out, because what they are answered with depends on the
other chats. `Disconnect` breaks a connection before its client knows the outcome.

Three things are undefined in the code, or nearly so. `math_server.cpp:22` multiplies
two ints: where the product does not fit, any int may come (`ProductsOf`).
`yelling()` (`grpchatClient.cpp:54`) ends without a return value after a successful
write: the model lets it return, and nobody looks at its result. A client
presents a failed call as `EXIT_FAILURE`, an empty text or `"RPC failed"`, as if it
were an answer: `presented` holds that value, and `AnswersAreRight` speaks of what
is presented with status OK.

### State and actions of `DatabaseParser` and `Encodings`

A text is a sequence of tokens: marks, quotes, keywords, numbers and words.
`file` is what was written for a list of features, and one damage to it: cut before
a token, a token dropped, or a token replaced by another mark. `StartParsing` is
`GetDbFileContent` with any argument of the command line, the removal of the spaces
(also those in names) and the constructor of `Parser`; `ParseOne` is one pass of
`ParseDb`'s loop with the whole of `TryParseOne`; `EndParsing` its end. `stol` throws
where no number stands, which ends the program (`parser = "thrown"`).

A message is a record of its fields and of the unknown fields it was parsed with; a
string is a sequence of bytes, and an embedded message a sequence of length 0 or
1, which is empty while the pointer is null. For each class there is one operator
for each member function (`ClearPoint`, `PointField` for the cases of the parser,
`SerializePoint`, `SizePoint`, `MergePoint`, `CopyPoint`); `Clear(class, m)` and its
like are the virtual functions. In `Encodings` the writer assigns to its object,
copies or merges into it (`Fill`) and writes it (`Write`); the reader clears and
parses into one object again and again (`Read`) and stops at the first failure.

### What is assumed of gRPC

`GrpcCall.MayComplete` is the whole of it: a queued request completes when a call
arrives (never with `ok = FALSE`: there is no shutdown); a read completes with a
message, or with `FALSE` at the end of the requests or of the call; a write or finish
succeeds on an open call and fails on a dead one; the done event comes once its RPC's
request tag was delivered and the call is dead or `Finish` was called, before or after
the tags of other operations. An operation that had succeeded when the call died keeps
`ok = TRUE`. `CallDataServer` assumes the same of requests, reads, writes and finishes,
and that an alarm always expires. `SyncRouteChat` and `SyncServers` assume streams that
keep the order of messages, and writes that wait while the stream is full; and the
latter that a handler runs once its request has arrived, and that an answer that was
sent is read before the end of the answers is.

## 3. Runs

The runs of `RouteGuideServer`, `DummyServer` and `TagHandoff` check for deadlock as
well; those of `CallDataServer` do not, because there an abort, or a heap full of
CallData that `Stop` left behind, really is the end, and neither do those of
`SyncRouteChat` and `SyncServers`, which stop when all their clients have finished
(`EveryChatEnds` and `EveryClientReturns` say that they do), and of `Encodings`, which
stops at a damaged file and after the last message. Bounds: `Jobs` (heap addresses; a
call arrives only while the heap has room for the successor of its job, `HeapHasRoom`),
`Route` (the messages a client may send, at most), and `MaxStale`, which stops a
cancelled call from adding to a left-behind entry of `mRecordStateMap` for ever
(`StaleWithinBound`); in `SyncRouteChat` and `SyncServers`, `Window` (1: every write may
have to wait), `Locations` (of the notes), `Echoes` (3 for the 10 of `yellEchoing`: more
than the stream holds) and `IntBits` (4: products that fit and products that do not); in
`Encodings`, `MaxFills` and `MaxWrites` (2: an object that was used before, and two
messages to be merged or read into one object), and `Declare`, which makes messages only
after a whole file was read, because a damaged one gives no other features.

| Run | Instance | Distinct states | Shows |
|---|---|---|---|
| `Streams` | chats of 3 notes, GetFeature and ListFeatures, 4 addresses | 111,312 | types, counters, exclusion; responses in order and all before the finish (three notes are what it takes for one being written, one queued and one being read); answers match the database; refinement of `JobReferences`; every call ends |
| `RouteChatTwoCalls` | chat, 3 addresses, 1 note | 348,000 | two calls in progress and a third listening; no dangling tag, one listener, balanced books |
| `RecordRoute` | 2 addresses, 2 points | 55,370 | what the summary still guarantees when addresses are used again; every call ends |
| `TagHandoff` | 3 tags | 671 | mutual exclusion, order, refinement of `TagQueue`, no tag stuck |
| `CallDataServers` | seven programs, 3 addresses | 5,205 | `status_` and `times_` fit the one operation under way; one listener; replies before the finish; what is left behind; every call ends unless the server aborts |
| `DummyServer` | all four kinds, 5 addresses, messages of 2 names | 161,920 | one listener for each kind that is served and none for the fourth; what the count of requests still guarantees when addresses are used again, and which calls leave one |
| `SyncRouteChats` | 2 clients, 3 notes each (two at one location), streams of 1 message | 85,284 | refinement of `NoteBoard`; notes kept in order; all answers read; every chat ends, also when connections break |
| `SyncServers` | 2 calls: any two of the counted ones, a chat beside each of them and beside another chat, each other request beside a GetFeature; chats of 1 to 3 notes; streams of 1 message | 115,076 | answers are what the database, the route and the texts give, also when streams break in the middle; the four printed counters are final; every client returns |
| `Encodings` | databases of 0 to 2 features, whole, or damaged at every mark; 2 messages of each class | 22,522 | no damaged file is misread; what is read is what was written; sizes; merging |
| `RecordRouteSummary` | as `RecordRoute` | | counterexample, see below |
| `MathStreamingStop` | `math_streaming`, 3 addresses | | counterexample, see below |
| `ChatSimpleTags` | `chatDemoSimple`, 3 addresses | | counterexample, see below |

`Streams` has one address more than kinds: calls come one after another, at
addresses that jobs of other kinds have left; calls that overlap are the matter of
`RouteChatTwoCalls`.
Two addresses suffice for use after free and reuse of an address: a job's
address is free for the next but one job. In `CallDataServer` a call starts only
while the heap has room for its successor; three addresses hold two calls and
the CallData that awaits the third. The database of
`Encodings` has two entries, so that a damage lies before, in and behind an entry
and between two; its messages have absent, zero, small, large and negative fields,
strings that are not UTF-8, and fields unknown to their class. Symmetry (of addresses)
is used only in runs without liveness. Every property has a mutant of the code
(`Mut...` operators next to the definitions they replace) that violates it.

**Fairness.** `FairSpec` assumes that gRPC completes what it can complete (weak fairness
of `HandleRpcs` for each job and operation) and that the processor thread keeps looping.
Clients are not fair at all: `EveryCallEnds` is about calls that died or whose client
half-closed. In `TagHandoff` the mutex is strongly fair for each thread: both leave it
within a few statements and `processRpcs` sleeps between its rounds, so that neither
keeps the other out for ever. In `CallDataServer` the loop takes an event for each
CallData that has one to come (weak fairness for each address, which has one operation
under way). In `SyncRouteChat` every thread runs on (weak fairness); since each handler
takes the mutex once per note, a waiting one gets it in the end. Clients read their
answers to the end, as those of the repository do: the handler writes under the mutex,
and one that did not would keep all chats waiting. In `SyncServers` every thread runs on
as well, the mutex is taken once per note here too, and the user of the chat client
types "q" one day: a finite sequence of lines.

**Counterexamples.**

- `SummaryIsOfItsRoute` (`route_guide.proto:77`): a RecordRoute call dies while
  its job has read points, so that the done event deletes the job without
  another call of the processor; `RecordRouteDone` (line 1054) does not erase
  `mRecordRouteMap[job]`. A later job at the same address adds its points to
  the old state, and its summary counts both. What remains true is
  `SummaryCoversItsRoute` (no point is missing) and `OnlyDeadCallsLeaveState`.
  (A route without any point has no `startTime`, line 1044, and its elapsed time
  counts from the epoch; `SummaryCoversItsRoute` speaks of the time only for
  routes with points, and an inherited `startTime` is that of the dead call.)
- `FinishedIsDeallocated` (`math_streaming_server_async.cpp:84`): the client
  vanishes, the write in progress fails, `Stop` sets `status_` to FINISH and
  starts nothing; no event comes for the CallData again and it stays on the
  heap. `OnlyDeadCallsAreLeftBehind` says that it happens to dead calls only.
- `TagIdentifiesRequest` (`chatDemoSimpleServer.cpp:142`): the read and the
  write of one pass have the same tag. Their two completions drive `status_`
  twice, and an event that finds it at FINISH deletes the CallData while gRPC
  still holds the tag for another. The seven other programs keep to one
  operation per tag, which is proved. The chat server also creates a CallData
  in every pass (line 73), so it is left out of `CallDataServers`.

## 4. Theorems

### Assumptions

The theorems hold for every value of the constants that satisfies the named
assumptions of the modules, which TLC evaluates for the instances it checks:

| Assumption | Says | Because |
|---|---|---|
| `RpcTypesAssumption`, `ServersAssumption` | `RpcTypes` and `Servers` are sets of kinds of RPC and of programs the models know | |
| `RouteAssumption`, `LocationsAssumption`, `FeatureListAssumption` | `Route`, `Locations` and `FeatureList` are sequences, of anything; the location of a feature is a point | they are vectors; a `Feature` has a `Point` |
| `RectanglesAssumption`, `RoutePointsAssumption` | the corners of a rectangle, and the requests of RecordRoute, are points | the types in `route_guide.proto` |
| `SyncAssumption` | the calls of `SyncServers` are finitely many; each asks for messages of its RPC's type, for exactly one where the RPC takes one; the space is a word; streams hold a message, `int` has a bit; `NULL` is no call and no status | a program starts so many threads; the types in the `.proto` files; `yellingEcho` writes the space |
| `NoStateIsNull`, `NoCountIsNull`, `NoClientIsNull` | `NULL` is no state of a call, no count, and no client | `NULL` stands for an absent entry of a map, and for a free mutex |

`CallDataServer_proofs` also assumes `NoChatServer`, because of the counterexample
above. Heap, database, route, rectangles, clients and streams may be of any size, the
heap even infinite.

### The asynchronous servers

**Books.** The inductive invariant `IInv` (`AsyncServer_proofs`) says three things:
types; every operation is in one place only (with gRPC, in `gIncomingTags`, or
in `tags`, and at most once in a list), without which handling a tag would not
take its operation out of flight; and, for each job, that its counter and
flags fit the set of operations in flight (`JobInv`), or that it has none in
flight because nothing was ever asked of gRPC (the chat of the dummy server).
The argument has three layers. `AsyncServer_proofs` shows first for every handler, as a
function on records, that if `JobInv` holds with the handled operation in flight,
then it holds after the handler for the operations that remain and those that were
started, and that the job is deleted only if none remain. It then
lifts this to steps of a server: each moves one operation of one job (`Completed`,
`TagHandled`), so that the books of all other jobs are untouched; its lemmas speak
of any server that hands its tags to such handlers. `RouteGuideServer_proofs` and
`DummyServer_proofs` show for their handlers, one by one, that they are such.
From `IInv` follow `TypeOK`, `NoDanglingTag`, `CounterCountsOperations` and
`OperationsExclusive` of both servers.

**References.** `ReferencesImplemented`: a reference to a job is an operation in
flight; a step of gRPC or of a client moves none, and the handler of a tag drops
one, takes those of the operations it starts, and deletes the job exactly if it has
dropped the last. This is every step of `JobReferences`, or a stutter.

**Listeners and books of the application.** `OneJobAwaitsEach`: the handler of a
request is the only one that takes a listener away and the only one that creates one,
of the same kind. For the dummy server the invariant is joined by `ChatIdle`: the
job of the fourth kind has nothing in flight, so no handler of its is ever run.
`BooksAlwaysBalance`: counters and maps change with the birth and death of jobs only,
and at any time only finitely many addresses are in use, which is what makes their
number a number.

**Contents of messages.** What a job has received and answered is proved in three
invariants, each on top of the one before:

- `CallsFit` relates a job to the call it serves. A completion may wait in the
  lists behind others, so the invariant counts operations whose result is known
  and whose handler is yet to come (`Results`): a read that succeeded has put the
  last request delivered into `mRequest`, and one that failed means a dead call or
  the end of the requests, all of them delivered.
- `AnswersFit` says what was answered to the requests handled so far
  (`RequestsHandled`: those delivered, less the one whose handler is to come): the
  responses written and the queue (less its front, while that is being written) are
  the answers, in order; that front is the response written last (`QueueFits`), for a
  response goes to the end of a queue that is not empty, and a write starts with the
  front; a queue without a write belongs to a dead call; a chat's end
  is decided only after the end of the notes; no assertion has failed.
  From these two follow `WrittenMessageIsQueued`, `NoAssertionFails` (which no run
  checks: the flag asserted is set by the handler that asserts it), `EchoInOrder`,
  `ChatFinishedWhenAllEchoed` and, with the lemmas about the database,
  `GetFeatureAnswersItsCall` and `ListFeaturesComplete`.
- `StatesFit` says of the entry of a RecordRoute job in `mRecordRouteMap` that it
  covers at least the requests handled: at least their number, their named points
  and their length. "At least" is all that is true, for the entry may have been
  inherited from a dead call at the same address (section 3). Once the answer is
  sent the entry is gone and the answer covers the route. From it follow
  `SummaryCoversItsRoute` and `OnlyDeadCallsLeaveState`. `CountsFit` is its
  counterpart in the dummy server, where the entry of a call that died stays too
  (`dummyServer.cpp:937` erases the others), and gives `ReplyCountsItsRequests` and
  `OnlyDeadCallsLeaveCounts`.

**Computations.** `RouteGuide_proofs` shows that the loops are total, and
`RouteGuideServer_proofs` what they compute, for any database:
`FeaturesIn` lists the features between the corners in database order, each once
(`FeaturesAreListed`), `Inside` does not depend on which corners are given
(`InsideIsBetween`), `GetFeatureName` finds the first feature at a point
(`PointIsNamed`), a recorded point adds its leg to the length and its name to the
count (`PointIsCovered`). The prover cannot use an induction theorem that takes a
predicate as parameter. These lemmas look instead at the set of numbers for which a
loop would go wrong: if it were not empty it would have a least member (`Least`, from
the well-foundedness of `<`), and the round before that refutes it.

### The synchronous RouteChat

`SyncRouteChat_proofs` proves `NotesKeptInOrder`, `FinishedWithAllAnswers` and the
refinement of `NoteBoard`, for any clients, notes and window. Its invariant has
four parts. The mutex is held by the handler in its loop, and only the loop has notes
left to write (`MutexHeld`). The first `n` notes of each client are kept and no others
of its (`Kept`), where the handler may have the next one in hand; behind that one, the
notes in the stream are the following ones, up to the last that was sent unless the
connection broke (`Streamed`): so no note is lost, doubled or overtaken on its way
from the writer thread to `received_notes_`. What the client's threads have come to
know is true (`Threads`): after `"join"` the handler has returned, and the handler
returns on an unbroken connection only after the last note. And `NotesKeptInOrder`
itself. For the refinement, taking the mutex is the step in which a note is posted and
answered: from then on what is written and what is left to write are together the
answer (`OthersStutter`), and the note in hand belongs to the board.

### The synchronous servers and their clients

`SyncServers_proofs` proves `AnswersAreRight` and `PrintedCountsAreFinal`, for any
calls, requests, database, `Echoes`, `Window` and width of `int`. The invariant follows
the messages of each call that is not a chat on both ways (`Conversed`): there are a
number `n` of requests that the handler has taken and a sequence `w` of all answers it
has written, such that

- `w` and the handler's variables are what `n` requests and so many rounds of its loop
  make (`Progress`, with one predicate for each handler that waits: `Listed`, `Summed`,
  `Repeated`, `Gathered`, `Echoed`), and once it has returned on an unbroken
  connection `w` is the whole of what is expected;
- on the way to the handler are the messages after the `n`-th, up to the last that was
  sent, and none where the connection is broken (`Incoming`);
- what the client presents, followed by what is on the way to it, is `w`
  (`Outgoing`); what a client of a stream presents is a beginning of what is expected
  even after the connection broke, when `w` is no longer its concern.

`Waited` says what a client knows that has come so far: with status OK the handler has
returned, the connection was never broken, and the answers are all read. The three say
together that what it presents is `w`, and that `w` is right. What the handlers'
loops make is compared with the loops of the asynchronous server: RecordRoute keeps the
variables of `RecordPoint` under other names (`VisitRecords`), and `yellingEcho` puts
together what `FlattenSeq` flattens (`GatheringIsFlattening`). A product that does not
fit may come as any one number (`Answers`). A handler or client that steps leaves the
other calls alone (`Touches`).

For the counters, the invariant says that each is the number of elements of a set, of
calls of GetFeature that have returned, of places in what was listed and in what chats
were answered with, and of routes with status OK (`Counting`), and a step adds one
element to one of them and one to its counter, or nothing (`StepCounts`). Of the call of
a chat the invariant keeps no more than this needs (`ChatInv`). `Joining` says which of
the four groups of threads have been joined where the main thread is; one that has
returned counts no more, so the counters that were printed do not go out of date.

### The hand-over and the CallData servers

`TagHandoff_proofs` proves type correctness, mutual exclusion, that nothing is
lost or reordered, and that `TagHandoff` implements `TagQueue`; the inductive
invariant ties the mutex to the statements the threads are at and says that
`tags` repeats `gIncomingTags` between the two halves of the move.

`CallDataServer_proofs` proves its type invariant and all invariants of the run
`CallDataServers`, for any heap and any `Servers` without the chat server (`NoChatServer`). The
inductive invariant says for each CallData (`Fits`) that it has at most one
operation under way, none if it is deleted or left behind, and which one
`status_` and `times_` allow, with the number of replies so far: a request
means a fresh CallData, a write or an alarm one between two replies
(`Underway`), a finish one whose replies are all written. From this, `times_ = 0`
marks exactly the pass that answers a request, and so one successor is created
for each call. `ProcessedFits` treats the four kinds of program,
`OneCallDataMoves` the rest of the heap.

### Only model-checked

- Liveness (`EveryCallEnds`, `EveryTagHandled`, `EveryChatEnds`,
  `EveryClientReturns`): the prover has no rules for `ENABLED`.
- `NothingIsMisread`, `ReadIsWritten`, `SizesAgree` and `ConcatenationMerges`: they are
  about what recursive operators compute on tokens and bytes, which the provers
  do not take.

## 5. Not modelled

- Build files and interfaces; logging, sleeping and server start-up; shutdown (the
  code has none: `Run` never returns, and the destructor of `ServerImpl` is
  never reached).
- Of the generated code: descriptors, arenas, `Swap`, accessors that only move a
  value, and the gRPC stubs. They hold tables and pointers and decide nothing.
- `chatDemoClient.cpp`, `dummyClient.cpp` and the streaming clients of greeter and
  math, as programs: their servers' models have a client that may do any prefix of
  what they do, or vanish. The data race on `request` in `dummyClient.cpp` (lines 128
  and 134) is not modelled: no reply ever arrives there, since its server never
  accepts the call.
- `route_guide_client_async.cpp:147` draws the points of its route at random from
  the list of features; the model gives each client a route. With an empty
  list the index is undefined.
- `grpchatClient.cpp` at the end of its input: `getline` fails, the line is empty and
  never "q", and the client sends empty texts for ever. `EveryClientReturns` assumes
  a user who types "q".
- Numbers in a database file that fit no `int32`, and what a conforming file of another
  program looks like: the parser takes one exact form only (the comment at
  `helper.cpp:47` says so).

## 6. Plan

Done: 1. job framework and chat; 2. RouteGuide server; 3. hand-over;
4. abstract specifications and refinements; 5. first theorems; 6. the CallData
servers; 7. `DummyServer`; 8. `SyncRouteChat` with 9. its client's threads;
10. `SyncServers`; 11. `DatabaseParser`; 12. `Messages` and `Encodings`;
13. the theorems about the asynchronous servers, for `RouteGuideServer` and for
`DummyServer`, with those about the contents of messages; 14. those about
`SyncRouteChat`, and 15. those about `SyncServers`.

Nothing else of the plan is left. What could follow is a model of the parser and of the
message classes without recursive operators, so that `NothingIsMisread` and
`ReadIsWritten` can be stated for files and messages of any length.
