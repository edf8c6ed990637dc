---------------------------- MODULE AsyncServer ----------------------------
(***************************************************************************)
(* What the three asynchronous servers of the job framework have in common *)
(* (route_guide_server_async.cpp, chatDemoServer.cpp, dummyServer.cpp).    *)
(*                                                                         *)
(* Two threads.  The main thread (HandleRpcs) takes completed operations   *)
(* from the completion queue and appends their tags to gIncomingTags; the  *)
(* processor thread (processRpcs) swaps that list for an empty one and     *)
(* runs the tags' handlers one after another.  Jobs live on a heap whose   *)
(* addresses are used again.  The gRPC library and the clients are the     *)
(* environment.  The modules that extend this one add the handlers that    *)
(* call the application.                                                   *)
(***************************************************************************)
EXTENDS RpcJob, GrpcCall, FiniteSets

CONSTANTS
  Jobs,         \* the heap addresses a job can have
  RpcTypes      \* the kinds of RPC the server offers

ASSUME RpcTypesAssumption == RpcTypes \subseteq RpcType

VARIABLES
  job,               \* the job at each address
  call,              \* gRPC's view of the call the job serves
  gIncomingTags,     \* tags handed over by the main thread
  tags,              \* tags the processor thread has taken
  mResponders,       \* the keys of the four m...Responders maps
  mRecordStateMap,   \* the application's state of a call that streams requests:
                     \* mRecordRouteMap or mRecordHelloReplyStateMap, NULL
                     \* where there is no entry
  gRpcCounter        \* gUnaryRpcCounter, gServerStreamingRpcCounter, ...

vars == <<job, call, gIncomingTags, tags, mResponders, mRecordStateMap,
          gRpcCounter>>

TagInfo == [job : Jobs, op : TagOp, ok : BOOLEAN]

Free == {j \in Jobs : ~job[j].alive}

Streams(type) == type \in {"ClientStreaming", "Bidirectional"}

-----------------------------------------------------------------------------
(* Clients.  Those of the repository (route_guide_client_async.cpp,         *)
(* dummyClient.cpp) send what they have, half-close and read to the end;    *)
(* here one may also send less, wait at any point, or vanish.               *)

Listening(j) ==
  job[j].alive /\ "QUEUED_REQUEST" \in job[j].held /\ call[j].phase = "None"

InQueue(q, j, op) == \E i \in DOMAIN q : q[i].job = j /\ q[i].op = op

\* The operation was started and its tag has not been handled.
InFlight(j, op) ==
  \/ op \in job[j].held
  \/ InQueue(gIncomingTags, j, op)
  \/ InQueue(tags, j, op)

\* A call accepted by gRPC whose handler has yet to create the next job.
ToBeSucceeded == {j \in Jobs :
  /\ job[j].alive
  /\ call[j].phase # "None"
  /\ InFlight(j, "QUEUED_REQUEST")}

\* The bound of the model: a call arrives only while the heap has room for
\* the successor of the job that serves it.
HeapHasRoom == Cardinality(Free) > Cardinality(ToBeSucceeded)

\* The client calls, with its request if the kind of RPC takes just one.
StartCall(j, request) ==
  /\ Listening(j)
  /\ HeapHasRoom
  /\ call' = [call EXCEPT ![j] = NewCall(request, Streams(job[j].type))]
  /\ UNCHANGED <<job, gIncomingTags, tags, mResponders, mRecordStateMap,
                 gRpcCounter>>

CallOpen(j) == job[j].alive /\ call[j].phase = "Open" /\ "DONE" \in job[j].held

\* writer->Write
SendRequest(j) ==
  /\ CallOpen(j)
  /\ ~call[j].halfClosed
  /\ call[j].sent < Len(Route)
  /\ call' = [call EXCEPT ![j].sent = @ + 1]
  /\ UNCHANGED <<job, gIncomingTags, tags, mResponders, mRecordStateMap,
                 gRpcCounter>>

\* writer->WritesDone
HalfClose(j) ==
  /\ CallOpen(j)
  /\ ~call[j].halfClosed
  /\ call' = [call EXCEPT ![j].halfClosed = TRUE]
  /\ UNCHANGED <<job, gIncomingTags, tags, mResponders, mRecordStateMap,
                 gRpcCounter>>

\* The client cancels, exits or loses its connection.
Cancel(j) ==
  /\ CallOpen(j)
  /\ call' = [call EXCEPT ![j].phase = "Dead"]
  /\ UNCHANGED <<job, gIncomingTags, tags, mResponders, mRecordStateMap,
                 gRpcCounter>>

-----------------------------------------------------------------------------
(* The main thread: one round of HandleRpcs' loop.  The operation completes *)
(* in gRPC, Next returns its tag and the tag goes to the processor thread.  *)

HandleRpcs(j, op) ==
  /\ op \in job[j].held
  /\ \E ok \in BOOLEAN :
       /\ MayComplete(job[j], call[j], op, ok)
       /\ job' = [job EXCEPT ![j] = Complete(job[j], call[j], op, ok)]
       /\ call' = [call EXCEPT ![j] = Delivered(call[j], op, ok)]
       /\ gIncomingTags' = Append(gIncomingTags, [job |-> j, op |-> op, ok |-> ok])
  /\ UNCHANGED <<tags, mResponders, mRecordStateMap, gRpcCounter>>

-----------------------------------------------------------------------------
(* The processor thread *)

TakeIncomingTags ==
  /\ tags = <<>>
  /\ gIncomingTags # <<>>
  /\ tags' = gIncomingTags
  /\ gIncomingTags' = <<>>
  /\ UNCHANGED <<job, call, mResponders, mRecordStateMap, gRpcCounter>>

\* The tag at the front of the batch, if it is for this kind of handler.
Front(types, op) ==
  tags # <<>> /\ Head(tags).op = op /\ job[Head(tags).job].type \in types

\* The responder is not erased.
MutAfterHandlerKeepsResponder(j, r, created) ==
  /\ tags' = Tail(tags)
  /\ mResponders' = mResponders \cup created
  /\ gRpcCounter' = [gRpcCounter EXCEPT ![r.type] =
                       @ + (IF created = {} THEN 0 ELSE 1)
                         - (IF r.alive THEN 0 ELSE 1)]
  /\ call' = [call EXCEPT ![j] = IF r.alive THEN @ ELSE NoCall]
  /\ UNCHANGED gIncomingTags

\* XxxDone erases the responder and deletes the job; Done() counts it off.
AfterHandler(j, r, created) ==
  /\ tags' = Tail(tags)
  /\ mResponders' = (mResponders \cup created) \ (IF r.alive THEN {} ELSE {j})
  /\ gRpcCounter' = [gRpcCounter EXCEPT ![r.type] =
                       @ + (IF created = {} THEN 0 ELSE 1)
                         - (IF r.alive THEN 0 ELSE 1)]
  /\ call' = [call EXCEPT ![j] = IF r.alive THEN @ ELSE NoCall]
  /\ UNCHANGED gIncomingTags

\* A handler that leaves job j as r.
HandlerStep(j, r) ==
  /\ job' = [job EXCEPT ![j] = r]
  /\ AfterHandler(j, r, {})

\* The next job is not created.
MutAcceptStepForgetsSuccessor(j, r) == HandlerStep(j, r)

\* The handler of a request tag first creates the successor, at any free
\* address, and then goes on with its own job.
AcceptStep(j, r) ==
  \E k \in Free :
    /\ job' = [job EXCEPT ![j] = r, ![k] = NewRpcJob(r.type)]
    /\ AfterHandler(j, r, {k})

JobOnFinish ==
  /\ Front(RpcTypes, "FINISH")
  /\ LET j == Head(tags).job IN HandlerStep(j, OnFinish(job[j]))
  /\ UNCHANGED mRecordStateMap

JobOnDone ==
  /\ Front(RpcTypes, "DONE")
  /\ LET j == Head(tags).job IN HandlerStep(j, OnDone(job[j]))
  /\ UNCHANGED mRecordStateMap

-----------------------------------------------------------------------------
(* Types *)

\* Every variable holds values of its type, messages aside; mAsyncOpCounter
\* never goes below zero, and no more requests are read than were sent.
TypeOK ==
  /\ DOMAIN job = Jobs
  /\ \A j \in Jobs : IsJob(job[j])
  /\ DOMAIN call = Jobs
  /\ \A j \in Jobs : IsCall(call[j])
  /\ gIncomingTags \in Seq(TagInfo)
  /\ tags \in Seq(TagInfo)
  /\ mResponders \subseteq Jobs
  /\ DOMAIN mRecordStateMap = Jobs
  /\ gRpcCounter \in [RpcTypes -> Int]

-----------------------------------------------------------------------------
(* Safety of the job framework *)

\* No use after free: the completion queue and the two tag lists hold a tag,
\* and gRPC an operation, only for jobs that have not been deleted.  This is
\* why OnDone and AsyncOpFinished delete only when the other has happened.
NoDanglingTag ==
  \A j \in Jobs : ~job[j].alive => \A op \in TagOp : ~InFlight(j, op)

\* mAsyncOpCounter is the number of operations in flight, counting those
\* whose tag is still waiting in one of the lists, and the two in-progress
\* flags say whether the read and the write are among them.
CounterCountsOperations ==
  \A j \in Jobs : job[j].alive =>
    /\ job[j].mAsyncOpCounter =
         One(InFlight(j, "QUEUED_REQUEST")) + One(InFlight(j, "READ"))
           + One(InFlight(j, "WRITE")) + One(InFlight(j, "FINISH"))
    /\ AsyncReadInProgress(job[j]) = InFlight(j, "READ")
    /\ AsyncWriteInProgress(job[j]) = InFlight(j, "WRITE")

\* "Only 1 async operation can be pending at a time with an exception that
\* both async read and write can be pending at the same time."  In particular
\* no RPC is finished under a read or a write, or finished twice.
OperationsExclusive ==
  \A j \in Jobs : job[j].alive =>
    /\ \A a, b \in AsyncOpType :
         InFlight(j, a) /\ InFlight(j, b) /\ a # b => {a, b} = {"READ", "WRITE"}
    /\ job[j].finishes <= 1

\* As long as a write is under way, what was written last is at the front of
\* the queue: doSendResponse gave Write a reference to the front, and OnWrite
\* takes the front for what was written (pop_front on an empty list, which
\* would be undefined, among the rest).  Meanwhile notes are read and queued.
WrittenMessageIsQueued ==
  \A j \in Jobs : job[j].alive /\ InFlight(j, "WRITE") =>
    LET queue == job[j].mResponseQueue
        written == job[j].written
    IN  /\ queue # <<>>
        /\ written # <<>>
        /\ Head(queue) = written[Len(written)]

\* No handler reaches a GPR_ASSERT that fails: the application ends its
\* responses only after the client's last request.
NoAssertionFails == \A j \in Jobs : ~job[j].asserted

OneJobAwaits(type) ==
  \E j \in Jobs : \A i \in Jobs :
    i = j <=> /\ job[i].alive
              /\ job[i].type = type
              /\ InFlight(i, "QUEUED_REQUEST")

\* Each kind of RPC always has exactly one job whose request is queued or
\* just met: the next call of the kind finds a job, and jobs do not pile up.
OneJobAwaitsEachKind == \A t \in RpcTypes : OneJobAwaits(t)

\* "make sure we are not leaking any rpcs": the counters and the responder
\* maps account for exactly the jobs that have not been deleted.
BooksBalance ==
  /\ mResponders = Jobs \ Free
  /\ \A t \in RpcTypes :
       gRpcCounter[t] = Cardinality({j \in Jobs \ Free : job[j].type = t})

\* The jobs are reference counted: the operations in flight and the done
\* event are the references, and a job is deleted with its last one.
References == INSTANCE JobReferences WITH
  refs  <- [j \in Jobs |-> {op \in TagOp : InFlight(j, op)}],
  alive <- Jobs \ Free

JobsAreReferenceCounted == References!Spec

-----------------------------------------------------------------------------
(* Progress *)

\* Every call that dies, and every call whose client has sent all it wants
\* to, is over one day and its job deleted.
EveryCallEnds ==
  \A j \in Jobs :
    job[j].alive /\ (call[j].phase = "Dead" \/ call[j].halfClosed) ~> ~job[j].alive
=============================================================================
