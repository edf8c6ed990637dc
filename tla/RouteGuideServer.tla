-------------------------- MODULE RouteGuideServer --------------------------
(***************************************************************************)
(* The asynchronous RouteGuide server (route_guide_server_async.cpp) and,  *)
(* with RpcTypes = {"Bidirectional"}, the chat server (chatDemoServer.cpp):*)
(* AsyncServer with the application of RouteGuide.                         *)
(***************************************************************************)
EXTENDS AsyncServer, UnaryRpcJob, ServerStreamingRpcJob,
        ClientStreamingRpcJob, BidirectionalStreamingRpcJob, RouteGuide

CONSTANTS
  Rectangles,   \* what clients ask ListFeatures for
  MaxStale      \* bound: points in an entry of mRecordRouteMap when its
                \* call is cancelled

ASSUME RectanglesAssumption == \A r \in Rectangles : IsPoint(r.lo) /\ IsPoint(r.hi)

\* Only RecordRoute looks into the messages of the stream: its are points.
ASSUME RoutePointsAssumption ==
  "ClientStreaming" \in RpcTypes => \A i \in DOMAIN Route : IsPoint(Route[i])

\* NULL marks where the map has no entry.
ASSUME NoStateIsNull == NULL \notin RecordRouteStates

\* createXxxRpc for every type of RPC, before the first call to Next.
Init ==
  /\ \E first \in [RpcTypes -> Jobs] :
       /\ \A s, t \in RpcTypes : first[s] = first[t] => s = t
       /\ job = [j \in Jobs |->
                   IF \E t \in RpcTypes : first[t] = j
                   THEN NewRpcJob(CHOOSE t \in RpcTypes : first[t] = j)
                   ELSE FreeMemory]
       /\ mResponders = {first[t] : t \in RpcTypes}
  /\ call = [j \in Jobs |-> NoCall]
  /\ gIncomingTags = <<>>
  /\ tags = <<>>
  /\ mRecordStateMap = [j \in Jobs |-> NULL]
  /\ gRpcCounter = [t \in RpcTypes |-> 1]

-----------------------------------------------------------------------------
(* Clients.  The requests stand for the points and the rectangle that the   *)
(* clients of the repository ask for.                                       *)

Requests(type) ==
  CASE type = "Unary"           -> {Route[i] : i \in DOMAIN Route}
    [] type = "ServerStreaming" -> Rectangles
    [] OTHER                    -> {NULL}

\* An entry left behind is added to by later calls at its address without
\* end; the model lets it grow no further once it holds MaxStale points.
StaleWithinBound(j) ==
  mRecordStateMap[j] # NULL => mRecordStateMap[j].pointCount <= MaxStale

Client(j) ==
  \/ \E request \in Requests(job[j].type) : StartCall(j, request)
  \/ SendRequest(j)
  \/ HalfClose(j)
  \/ StaleWithinBound(j) /\ Cancel(j)

-----------------------------------------------------------------------------
(* The handlers of the processor thread *)

GetFeatureOnRead ==
  /\ Front({"Unary"}, "QUEUED_REQUEST")
  /\ LET j == Head(tags).job
     IN  AcceptStep(j, UnaryOnRead(job[j], Head(tags).ok,
                                    FeatureAt(job[j].mRequest)))
  /\ UNCHANGED mRecordStateMap

ListFeaturesOnRead ==
  /\ Front({"ServerStreaming"}, "QUEUED_REQUEST")
  /\ LET j == Head(tags).job
     IN  AcceptStep(j, ServerStreamingOnRead(job[j], Head(tags).ok,
                                              FeaturesIn(job[j].mRequest)))
  /\ UNCHANGED mRecordStateMap

ListFeaturesOnWrite ==
  /\ Front({"ServerStreaming"}, "WRITE")
  /\ LET j == Head(tags).job
     IN  HandlerStep(j, ServerStreamingOnWrite(job[j], Head(tags).ok))
  /\ UNCHANGED mRecordStateMap

RecordRouteOnInit ==
  /\ Front({"ClientStreaming"}, "QUEUED_REQUEST")
  /\ LET j == Head(tags).job
     IN  AcceptStep(j, ClientStreamingOnInit(job[j], Head(tags).ok))
  /\ UNCHANGED mRecordStateMap

\* mRecordStateMap[job]: operator[] creates the entry that is not there.
RecordRouteState(j) ==
  IF mRecordStateMap[j] = NULL THEN NewRecordRouteState ELSE mRecordStateMap[j]

\* The entry is not erased at the end of the points.
MutRecordRouteEntryKept(j, r, ok) ==
  CASE ~r.alive       -> mRecordStateMap[j]
    [] r.alive /\ ok  -> RecordPoint(RecordRouteState(j), job[j].mRequest)
    [] r.alive /\ ~ok -> mRecordStateMap[j]

\* What RecordRouteProcessor leaves in the map; it runs only if the job goes
\* on, so a call that is over by then leaves its entry behind.
RecordRouteEntry(j, r, ok) ==
  CASE ~r.alive       -> mRecordStateMap[j]
    [] r.alive /\ ok  -> RecordPoint(RecordRouteState(j), job[j].mRequest)
    [] r.alive /\ ~ok -> NULL

RecordRouteOnRead ==
  /\ Front({"ClientStreaming"}, "READ")
  /\ LET j == Head(tags).job
         ok == Head(tags).ok
         r == ClientStreamingOnRead(job[j], ok,
                                     RouteSummary(RecordRouteState(j)))
     IN  /\ HandlerStep(j, r)
         /\ mRecordStateMap' =
              [mRecordStateMap EXCEPT ![j] = RecordRouteEntry(j, r, ok)]

RouteChatOnInit ==
  /\ Front({"Bidirectional"}, "QUEUED_REQUEST")
  /\ LET j == Head(tags).job
     IN  AcceptStep(j, BidirectionalOnInit(job[j], Head(tags).ok))
  /\ UNCHANGED mRecordStateMap

RouteChatOnRead ==
  /\ Front({"Bidirectional"}, "READ")
  /\ LET j == Head(tags).job
     IN  HandlerStep(j, BidirectionalOnRead(job[j], Head(tags).ok))
  /\ UNCHANGED mRecordStateMap

RouteChatOnWrite ==
  /\ Front({"Bidirectional"}, "WRITE")
  /\ LET j == Head(tags).job
     IN  HandlerStep(j, BidirectionalOnWrite(job[j], Head(tags).ok))
  /\ UNCHANGED mRecordStateMap

ProcessTag ==
  \/ GetFeatureOnRead
  \/ ListFeaturesOnRead
  \/ ListFeaturesOnWrite
  \/ RecordRouteOnInit
  \/ RecordRouteOnRead
  \/ RouteChatOnInit
  \/ RouteChatOnRead
  \/ RouteChatOnWrite
  \/ JobOnFinish
  \/ JobOnDone

-----------------------------------------------------------------------------
Next ==
  \/ \E j \in Jobs : Client(j)
  \/ \E j \in Jobs, op \in TagOp : HandleRpcs(j, op)
  \/ TakeIncomingTags
  \/ ProcessTag

Spec == Init /\ [][Next]_vars

\* Every operation gRPC can complete it completes, and both threads run on;
\* nothing is assumed of the clients.
Fairness ==
  /\ \A j \in Jobs, op \in TagOp : WF_vars(HandleRpcs(j, op))
  /\ WF_vars(TakeIncomingTags)
  /\ WF_vars(ProcessTag)

FairSpec == Spec /\ Fairness

-----------------------------------------------------------------------------
(* What clients get *)

Serves(j, type) == job[j].alive /\ job[j].type = type

Finished(j) == job[j].finishes > 0

\* Notes are echoed in the order they were sent, none twice, none skipped,
\* whatever reads and writes overlap.
EchoInOrder ==
  \A j \in Jobs : Serves(j, "Bidirectional") =>
    /\ Len(job[j].written) <= call[j].delivered
    /\ job[j].written = SubSeq(Route, 1, Len(job[j].written))

\* The server ends a chat whose client is still there only after it has
\* echoed every note the client sent.
ChatFinishedWhenAllEchoed ==
  \A j \in Jobs :
    Serves(j, "Bidirectional") /\ Finished(j) /\ call[j].phase = "Open" =>
      call[j].halfClosed /\ job[j].written = SubSeq(Route, 1, call[j].sent)

Between(a, x, b) == (a - x) * (b - x) <= 0

\* "list" has the features at the places in "chosen", in database order.
ListsInOrder(list, chosen) ==
  \E at \in [DOMAIN list -> chosen] :
    /\ \A k \in DOMAIN list : list[k] = FeatureList[at[k]]
    /\ \A k, m \in DOMAIN list : k < m => at[k] < at[m]
    /\ \A i \in chosen : \E k \in DOMAIN list : at[k] = i

\* A finished ListFeatures has streamed exactly the features that lie between
\* the two corners, in database order, however the corners were given.
ListFeaturesComplete ==
  \A j \in Jobs :
    Serves(j, "ServerStreaming") /\ Finished(j) /\ call[j].phase = "Open" =>
      LET lo == call[j].request.lo
          hi == call[j].request.hi
          Listed(f) ==
            /\ Between(lo.latitude, f.location.latitude, hi.latitude)
            /\ Between(lo.longitude, f.location.longitude, hi.longitude)
      IN  ListsInOrder(job[j].written,
                       {i \in DOMAIN FeatureList : Listed(FeatureList[i])})

\* GetFeature answers the point of its own call, with the name of a feature
\* at that point if there is one.
GetFeatureAnswersItsCall ==
  \A j \in Jobs : Serves(j, "Unary") /\ Finished(j) =>
    /\ job[j].mResponse.location = call[j].request
    /\ \/ \E i \in DOMAIN FeatureList :
            /\ FeatureList[i].location = call[j].request
            /\ FeatureList[i].name = job[j].mResponse.name
       \/ /\ job[j].mResponse.name = ""
          /\ \A i \in DOMAIN FeatureList :
               FeatureList[i].location # call[j].request

\* There is a feature at the point, and the database's first has a name.
NamedPoint(point) ==
  \E i \in DOMAIN FeatureList :
    /\ FeatureList[i].location = point /\ FeatureList[i].name # ""
    /\ \A k \in DOMAIN FeatureList :
         FeatureList[k].location = point => i <= k

RouteLength[n \in 0..Len(Route)] ==
  IF n < 2 THEN 0 ELSE RouteLength[n - 1] + Distance(Route[n - 1], Route[n])

\* The counts of a RouteSummary of the first n points of a route.
PointsSummary(n) ==
  [point_count   |-> n,
   feature_count |-> Cardinality({i \in 1..n : NamedPoint(Route[i])}),
   distance      |-> RouteLength[n]]

\* "It contains the number of individual points received, the number of
\* detected features, and the total distance covered": of this route.
SummaryIsOfItsRoute ==
  \A j \in Jobs : Serves(j, "ClientStreaming") /\ Finished(j) =>
    LET summary == job[j].mResponse
        exact   == PointsSummary(call[j].delivered)
    IN  \A count \in DOMAIN exact : summary[count] = exact[count]

\* What holds of it: no point of the call is missing from its summary, and
\* the time is counted from a first point unless there was none.
SummaryCoversItsRoute ==
  \A j \in Jobs : Serves(j, "ClientStreaming") /\ Finished(j) =>
    LET summary == job[j].mResponse
        exact   == PointsSummary(call[j].delivered)
    IN  /\ \A count \in DOMAIN exact : summary[count] >= exact[count]
        /\ call[j].delivered > 0 => summary.elapsed_since = "firstPoint"

\* Only a RecordRoute that died leaves its RecordRouteState in the map.
OnlyDeadCallsLeaveState ==
  [][\A j \in Jobs :
       /\ Serves(j, "ClientStreaming") /\ ~job[j].alive'
       /\ mRecordStateMap'[j] # NULL
       => call[j].phase = "Dead"]_vars
=============================================================================
