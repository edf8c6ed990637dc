---------------------------- MODULE DummyServer ----------------------------
(***************************************************************************)
(* The asynchronous dummy server (dummyServer.cpp): AsyncServer with the   *)
(* processors of DummyService.  Its copy of BidirectionalStreamingRpcJob   *)
(* has a constructor that hands nothing to gRPC, so the job it creates     *)
(* stays as it is for ever and no call of that kind is served.             *)
(***************************************************************************)
EXTENDS AsyncServer, UnaryRpcJob, ServerStreamingRpcJob, ClientStreamingRpcJob

CONSTANT MaxStale   \* bound: the count in an entry of
                    \* mRecordHelloReplyStateMap when its call is cancelled

\* No counter is the absence of one.
ASSUME NoCountIsNull == NULL \notin [count : Nat]

\* The kinds of RPC whose constructors queue a request.
Served == RpcTypes \ {"Bidirectional"}

\* The bidirectional constructor counts the job and binds mOnInit, but asks
\* for no done event, gives the application no responder and queues no
\* request.  The handlers of the class are handed to nobody.
NewHelloJob(type) ==
  IF type = "Bidirectional" THEN RpcJobFields(type) ELSE NewRpcJob(type)

\* createGetHelloReplyRpc ... createHelloReplyChatRpc, before the first Next.
Init ==
  /\ \E first \in [RpcTypes -> Jobs] :
       /\ \A s, t \in RpcTypes : first[s] = first[t] => s = t
       /\ job = [j \in Jobs |->
                   IF \E t \in RpcTypes : first[t] = j
                   THEN NewHelloJob(CHOOSE t \in RpcTypes : first[t] = j)
                   ELSE FreeMemory]
       /\ mResponders = {first[t] : t \in Served}
  /\ call = [j \in Jobs |-> NoCall]
  /\ gIncomingTags = <<>>
  /\ tags = <<>>
  /\ mRecordStateMap = [j \in Jobs |-> NULL]
  /\ gRpcCounter = [t \in RpcTypes |-> 1]

-----------------------------------------------------------------------------
(* Clients.  A HelloRequest is a name; the names are those of Route.  The  *)
(* streaming kinds have their requests sent later.                         *)

Requests(type) ==
  IF Streams(type) THEN {NULL} ELSE {Route[i] : i \in DOMAIN Route}

\* As in RouteGuideServer, an entry left behind grows up to the bound.
StaleWithinBound(j) ==
  mRecordStateMap[j] # NULL => mRecordStateMap[j].count <= MaxStale

Client(j) ==
  \/ \E request \in Requests(job[j].type) : StartCall(j, request)
  \/ SendRequest(j)
  \/ HalfClose(j)
  \/ StaleWithinBound(j) /\ Cancel(j)

-----------------------------------------------------------------------------
(* The handlers of the processor thread *)

\* The reply is the name with a prefix, which is left out.
HelloReplyTo(name) == [message |-> name]

GetHelloReplyOnRead ==
  /\ Front({"Unary"}, "QUEUED_REQUEST")
  /\ LET j == Head(tags).job
     IN  AcceptStep(j, UnaryOnRead(job[j], Head(tags).ok,
                                    HelloReplyTo(job[j].mRequest)))
  /\ UNCHANGED mRecordStateMap

\* Nothing ever fills mHelloReplyList, so the only response is the null one:
\* nothing is written and OnWrite never called.
mHelloReplyList == <<>>

ListHelloReplyOnRead ==
  /\ Front({"ServerStreaming"}, "QUEUED_REQUEST")
  /\ LET j == Head(tags).job
     IN  AcceptStep(j, ServerStreamingOnRead(job[j], Head(tags).ok,
                                              mHelloReplyList))
  /\ UNCHANGED mRecordStateMap

RecordHelloReplyOnInit ==
  /\ Front({"ClientStreaming"}, "QUEUED_REQUEST")
  /\ LET j == Head(tags).job
     IN  AcceptStep(j, ClientStreamingOnInit(job[j], Head(tags).ok))
  /\ UNCHANGED mRecordStateMap

\* mRecordHelloReplyStateMap[job]
RecordHelloReplyState(j) ==
  IF mRecordStateMap[j] = NULL THEN [count |-> 0] ELSE mRecordStateMap[j]

\* The first request creates the entry and is not counted.
MutCountRequestAfterFirst(j) ==
  IF mRecordStateMap[j] = NULL THEN [count |-> 0]
  ELSE [mRecordStateMap[j] EXCEPT !.count = @ + 1]

CountRequest(j) == [RecordHelloReplyState(j) EXCEPT !.count = @ + 1]

\* The entry is not erased with the reply.
MutRecordHelloReplyEntryKept(j, r, ok) ==
  IF r.alive /\ ok THEN CountRequest(j) ELSE mRecordStateMap[j]

\* What RecordHelloReplyProcessor leaves in the map.  As with RecordRoute it
\* runs only if the job goes on, and RecordHelloReplyDone erases nothing.
RecordHelloReplyEntry(j, r, ok) ==
  CASE ~r.alive       -> mRecordStateMap[j]
    [] r.alive /\ ok  -> CountRequest(j)
    [] r.alive /\ ~ok -> NULL

RecordHelloReplyOnRead ==
  /\ Front({"ClientStreaming"}, "READ")
  /\ LET j == Head(tags).job
         ok == Head(tags).ok
         r == ClientStreamingOnRead(job[j], ok, RecordHelloReplyState(j))
     IN  /\ HandlerStep(j, r)
         /\ mRecordStateMap' =
              [mRecordStateMap EXCEPT ![j] = RecordHelloReplyEntry(j, r, ok)]

ProcessTag ==
  \/ GetHelloReplyOnRead
  \/ ListHelloReplyOnRead
  \/ RecordHelloReplyOnInit
  \/ RecordHelloReplyOnRead
  \/ JobOnFinish
  \/ JobOnDone

-----------------------------------------------------------------------------
Next ==
  \/ \E j \in Jobs : Client(j)
  \/ \E j \in Jobs, op \in TagOp : HandleRpcs(j, op)
  \/ TakeIncomingTags
  \/ ProcessTag

Spec == Init /\ [][Next]_vars

\* As in RouteGuideServer.
Fairness ==
  /\ \A j \in Jobs, op \in TagOp : WF_vars(HandleRpcs(j, op))
  /\ WF_vars(TakeIncomingTags)
  /\ WF_vars(ProcessTag)

FairSpec == Spec /\ Fairness

-----------------------------------------------------------------------------
\* The kinds whose request is queued at the start never lose the job that
\* awaits their next call, nor gain a second; the chat never has one.
OneJobAwaitsEachServedKind ==
  /\ \A t \in Served : OneJobAwaits(t)
  /\ \A t \in RpcTypes \ Served : \A j \in Jobs :
       job[j].type = t => ~InFlight(j, "QUEUED_REQUEST")

\* The reply to a call counts each of its requests, whatever calls that died
\* have left at its address.
ReplyCountsItsRequests ==
  \A j \in Jobs :
    job[j].alive /\ job[j].type = "ClientStreaming" /\ job[j].finishes > 0 =>
      job[j].mResponse.count >= call[j].delivered

\* Only a call that died leaves its count to the next job at its address: what
\* more than its own requests a reply counts, calls that died have left.
OnlyDeadCallsLeaveCounts ==
  [][\A j \in Jobs :
       /\ job[j].alive /\ job[j].type = "ClientStreaming" /\ ~job[j].alive'
       /\ mRecordStateMap'[j] # NULL
       => call[j].phase = "Dead"]_vars
=============================================================================
