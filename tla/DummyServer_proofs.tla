------------------------- MODULE DummyServer_proofs -------------------------
(***************************************************************************)
(* The asynchronous dummy server is right for any number of jobs, any      *)
(* kinds of RPC and any requests.  AsyncServer_proofs has the lemmas about *)
(* the framework; here they are put together with the handlers of          *)
(* DummyService.                                                           *)
(***************************************************************************)
EXTENDS AsyncServer_proofs, DummyServer, TLAPS

-----------------------------------------------------------------------------
(* The turns of the processor thread *)

\* What the handler of operation op of job j makes of the job.  No response
\* of a stream is ever written, and no chat served.
HandlerResult(j, op, ok, r) ==
  \/ /\ op = "QUEUED_REQUEST" /\ job[j].type = "Unary"
     /\ r = UnaryOnRead(job[j], ok, HelloReplyTo(job[j].mRequest))
  \/ /\ op = "QUEUED_REQUEST" /\ job[j].type = "ServerStreaming"
     /\ r = ServerStreamingOnRead(job[j], ok, mHelloReplyList)
  \/ /\ op = "QUEUED_REQUEST" /\ job[j].type = "ClientStreaming"
     /\ r = ClientStreamingOnInit(job[j], ok)
  \/ /\ op = "READ" /\ job[j].type = "ClientStreaming"
     /\ r = ClientStreamingOnRead(job[j], ok, RecordHelloReplyState(j))
  \/ op = "FINISH" /\ r = OnFinish(job[j])
  \/ op = "DONE" /\ r = OnDone(job[j])

\* What it makes of the application's map.
MapResult(j, op, ok, r) ==
  mRecordStateMap' =
    IF op = "READ" THEN [mRecordStateMap EXCEPT ![j] = RecordHelloReplyEntry(j, r, ok)]
                   ELSE mRecordStateMap

LEMMA TagIsTurn ==
  ASSUME IInv, ProcessTag
  PROVE  \E j, op, ok, r : /\ Turn(j, op, ok, r)
                           /\ HandlerResult(j, op, ok, r)
                           /\ MapResult(j, op, ok, r)
<1>1. PICK j, op, ok : j = Head(tags).job /\ op = Head(tags).op /\ ok = Head(tags).ok
  OBVIOUS
<1>2. tags # <<>> => Head(tags) = [job |-> j, op |-> op, ok |-> ok]
  <2>1. tags # <<>> => Head(tags) \in TagInfo
    BY DEF IInv, TypeOK
  <2>2. QED
    BY <1>1, <2>1 DEF TagInfo
<1>3. ASSUME NEW types, NEW o, Front(types, o)
      PROVE  tags # <<>> /\ op = o /\ job[j].type \in types
  BY <1>1, <1>3 DEF Front
<1>4. CASE GetHelloReplyOnRead
  <2>1. Front({"Unary"}, "QUEUED_REQUEST")
    BY <1>4 DEF GetHelloReplyOnRead
  <2>2. PICK r : /\ r = UnaryOnRead(job[j], ok, HelloReplyTo(job[j].mRequest))
                 /\ AcceptStep(j, r)
    BY <1>1, <1>4 DEF GetHelloReplyOnRead
  <2>3. mRecordStateMap' = mRecordStateMap
    BY <1>4 DEF GetHelloReplyOnRead
  <2>4. QED
    BY <1>2, <1>3, <2>1, <2>2, <2>3 DEF Turn, HandlerResult, MapResult
<1>5. CASE ListHelloReplyOnRead
  <2>1. Front({"ServerStreaming"}, "QUEUED_REQUEST")
    BY <1>5 DEF ListHelloReplyOnRead
  <2>2. PICK r : /\ r = ServerStreamingOnRead(job[j], ok, mHelloReplyList)
                 /\ AcceptStep(j, r)
    BY <1>1, <1>5 DEF ListHelloReplyOnRead
  <2>3. mRecordStateMap' = mRecordStateMap
    BY <1>5 DEF ListHelloReplyOnRead
  <2>4. QED
    BY <1>2, <1>3, <2>1, <2>2, <2>3 DEF Turn, HandlerResult, MapResult
<1>6. CASE RecordHelloReplyOnInit
  <2>1. Front({"ClientStreaming"}, "QUEUED_REQUEST")
    BY <1>6 DEF RecordHelloReplyOnInit
  <2>2. PICK r : r = ClientStreamingOnInit(job[j], ok) /\ AcceptStep(j, r)
    BY <1>1, <1>6 DEF RecordHelloReplyOnInit
  <2>3. mRecordStateMap' = mRecordStateMap
    BY <1>6 DEF RecordHelloReplyOnInit
  <2>4. QED
    BY <1>2, <1>3, <2>1, <2>2, <2>3 DEF Turn, HandlerResult, MapResult
<1>7. CASE RecordHelloReplyOnRead
  <2>1. Front({"ClientStreaming"}, "READ")
    BY <1>7 DEF RecordHelloReplyOnRead
  <2>2. PICK r : /\ r = ClientStreamingOnRead(job[j], ok, RecordHelloReplyState(j))
                 /\ HandlerStep(j, r)
                 /\ mRecordStateMap' =
                      [mRecordStateMap EXCEPT ![j] = RecordHelloReplyEntry(j, r, ok)]
    BY <1>1, <1>7 DEF RecordHelloReplyOnRead
  <2>3. op = "READ" /\ job[j].type = "ClientStreaming" /\ tags # <<>>
    BY <1>3, <2>1
  <2>4. MapResult(j, op, ok, r)
    BY <2>2, <2>3 DEF MapResult
  <2>5. HandlerResult(j, op, ok, r)
    BY <2>2, <2>3 DEF HandlerResult
  <2>6. Turn(j, op, ok, r)
    BY <1>2, <2>2, <2>3 DEF Turn
  <2>7. QED
    BY <2>4, <2>5, <2>6
<1>8. CASE JobOnFinish
  <2>1. Front(RpcTypes, "FINISH")
    BY <1>8 DEF JobOnFinish
  <2>2. PICK r : r = OnFinish(job[j]) /\ HandlerStep(j, r)
    BY <1>1, <1>8 DEF JobOnFinish
  <2>3. mRecordStateMap' = mRecordStateMap
    BY <1>8 DEF JobOnFinish
  <2>4. QED
    BY <1>2, <1>3, <2>1, <2>2, <2>3 DEF Turn, HandlerResult, MapResult
<1>9. CASE JobOnDone
  <2>1. Front(RpcTypes, "DONE")
    BY <1>9 DEF JobOnDone
  <2>2. PICK r : r = OnDone(job[j]) /\ HandlerStep(j, r)
    BY <1>1, <1>9 DEF JobOnDone
  <2>3. mRecordStateMap' = mRecordStateMap
    BY <1>9 DEF JobOnDone
  <2>4. QED
    BY <1>2, <1>3, <2>1, <2>2, <2>3 DEF Turn, HandlerResult, MapResult
<1>10. QED
  BY <1>4, <1>5, <1>6, <1>7, <1>8, <1>9 DEF ProcessTag

(* Every handler treats the operation of its tag as Handled says.          *)
LEMMA ResultIsHandled ==
  ASSUME NEW j, NEW op, NEW ok, NEW r, HandlerResult(j, op, ok, r),
         NEW F, JobInv(job[j], F), job[j].alive, op \in F, op \notin job[j].held
  PROVE  Handled(job[j], F, op, r)
<1>1. CASE op = "QUEUED_REQUEST"
  BY <1>1, UnaryRequestHandled, ServerStreamingRequestHandled,
     StreamRequestHandled DEF HandlerResult
<1>2. CASE op = "READ"
  BY <1>2, ClientStreamingReadHandled DEF HandlerResult
<1>3. CASE op = "FINISH"
  BY <1>3, FinishHandled DEF HandlerResult
<1>4. CASE op = "DONE"
  BY <1>4, DoneHandled DEF HandlerResult
<1>5. QED
  BY <1>1, <1>2, <1>3, <1>4 DEF HandlerResult

\* A step of the processor thread.
Handles(j, op, ok, r) ==
  /\ TurnOf(j, op, ok, r)
  /\ HandlerResult(j, op, ok, r)
  /\ MapResult(j, op, ok, r)

LEMMA TagIsHandled ==
  ASSUME IInv, ProcessTag
  PROVE  \E j, op, ok, r : Handles(j, op, ok, r)
<1>1. PICK j, op, ok, r : /\ Turn(j, op, ok, r)
                          /\ HandlerResult(j, op, ok, r)
                          /\ MapResult(j, op, ok, r)
  BY TagIsTurn
<1>2. tags # <<>> /\ j = Head(tags).job /\ op = Head(tags).op
  BY <1>1 DEF Turn
<1>3. /\ job[j].alive /\ JobInv(job[j], OpsInFlight(j))
      /\ op \in OpsInFlight(j) /\ op \notin job[j].held
  BY <1>2, FrontTag
<1>4. Handled(job[j], OpsInFlight(j), op, r)
  BY <1>1, <1>3, ResultIsHandled
<1>5. DOMAIN mRecordStateMap' = Jobs
  BY <1>1 DEF MapResult, IInv, TypeOK
<1>6. QED
  BY <1>1, <1>4, <1>5 DEF Handles, TurnOf

(* Every step is a client's, gRPC's or a turn of the processor thread.     *)
LEMMA StepCases ==
  ASSUME IInv, Next
  PROVE  \/ \E j \in Jobs : ClientStep(j)
         \/ \E j \in Jobs, op \in TagOp : HandleRpcs(j, op)
         \/ TakeIncomingTags
         \/ \E j, op, ok, r : Handles(j, op, ok, r)
<1>1. ASSUME NEW j \in Jobs, Client(j) PROVE ClientStep(j)
  BY <1>1 DEF Client, ClientStep
<1>2. QED
  BY <1>1, TagIsHandled DEF Next

-----------------------------------------------------------------------------
(* IInv is inductive *)

\* createXxxRpc was called once for each kind of RPC, and nothing else was.
StartedUp(first) ==
  /\ first \in [RpcTypes -> Jobs]
  /\ \A s, t \in RpcTypes : first[s] = first[t] => s = t
  /\ \A t \in RpcTypes : /\ job[first[t]] = NewHelloJob(t)
                         /\ job[first[t]].alive /\ job[first[t]].type = t
                         /\ OpsInFlight(first[t]) =
                              IF t = "Bidirectional" THEN {}
                              ELSE {"QUEUED_REQUEST", "DONE"}
  /\ \A j \in Jobs : \/ \E t \in RpcTypes : first[t] = j
                     \/ /\ job[j] = FreeMemory
                        /\ OpsInFlight(j) = {} /\ ~job[j].alive
  /\ \A j : Results(j, TRUE) = {} /\ Results(j, FALSE) = {}

LEMMA InitStartsUp ==
  ASSUME Init
  PROVE  \E first : StartedUp(first)
<1>1. PICK first \in [RpcTypes -> Jobs] :
        /\ \A s, t \in RpcTypes : first[s] = first[t] => s = t
        /\ job = [j \in Jobs |->
                    IF \E t \in RpcTypes : first[t] = j
                    THEN NewHelloJob(CHOOSE t \in RpcTypes : first[t] = j)
                    ELSE FreeMemory]
  BY DEF Init
<1>2. gIncomingTags = <<>> /\ tags = <<>>
  BY DEF Init
<1>3. /\ \A j, op : ~InQueue(gIncomingTags, j, op) /\ ~InQueue(tags, j, op)
      /\ \A j : Results(j, TRUE) = {} /\ Results(j, FALSE) = {}
  BY <1>2 DEF InQueue, Results, HasTag
<1>4. \A j : OpsInFlight(j) = {op \in TagOp : op \in job[j].held}
  BY <1>3 DEF OpsInFlight, InFlight
<1>5. ASSUME NEW t \in RpcTypes
      PROVE  /\ job[first[t]] = NewHelloJob(t)
             /\ job[first[t]].alive /\ job[first[t]].type = t
             /\ OpsInFlight(first[t]) = IF t = "Bidirectional" THEN {}
                                        ELSE {"QUEUED_REQUEST", "DONE"}
  <2>1. (CHOOSE s \in RpcTypes : first[s] = first[t]) = t
    BY <1>1
  <2>2. job[first[t]] = NewHelloJob(t) /\ t \in RpcType
    BY <1>1, <2>1, RpcTypesAssumption
  <2>3. CASE t = "Bidirectional"
    BY <1>4, <2>2, <2>3, IdleIsJob DEF NewHelloJob
  <2>4. CASE t # "Bidirectional"
    BY <1>4, <2>2, <2>4, Memory DEF NewHelloJob, TagOp, AsyncOpType
  <2>5. QED
    BY <2>2, <2>3, <2>4
<1>6. ASSUME NEW j \in Jobs, ~\E t \in RpcTypes : first[t] = j
      PROVE  job[j] = FreeMemory /\ OpsInFlight(j) = {} /\ ~job[j].alive
  <2>1. job[j] = FreeMemory
    BY <1>1, <1>6
  <2>2. FreeMemory.held = {} /\ ~FreeMemory.alive
    BY DEF FreeMemory, RpcJobFields
  <2>3. QED
    BY <1>4, <2>1, <2>2
<1>7. \A j \in Jobs : \/ \E t \in RpcTypes : first[t] = j
                     \/ /\ job[j] = FreeMemory
                        /\ OpsInFlight(j) = {} /\ ~job[j].alive
  BY <1>6, Zenon
<1>8. \A t \in RpcTypes : /\ job[first[t]] = NewHelloJob(t)
                         /\ job[first[t]].alive /\ job[first[t]].type = t
                         /\ OpsInFlight(first[t]) =
                              IF t = "Bidirectional" THEN {}
                              ELSE {"QUEUED_REQUEST", "DONE"}
  BY <1>5, Zenon
<1>9. StartedUp(first)
  BY <1>1, <1>3, <1>7, <1>8, Zenon DEF StartedUp
<1>10. QED
  BY <1>9

LEMMA InitIInv == Init => IInv
<1> SUFFICES ASSUME Init PROVE IInv
  OBVIOUS
<1>1. PICK first : StartedUp(first)
  BY InitStartsUp
<1>2. /\ gIncomingTags = <<>> /\ tags = <<>>
      /\ call = [j \in Jobs |-> NoCall]
      /\ mRecordStateMap = [j \in Jobs |-> NULL]
      /\ gRpcCounter = [t \in RpcTypes |-> 1]
      /\ DOMAIN job = Jobs
      /\ mResponders \subseteq Jobs
  BY DEF Init, Served
<1>3. \A j, op : ~InQueue(gIncomingTags, j, op) /\ ~InQueue(tags, j, op)
  BY <1>2 DEF InQueue
<1>4. ASSUME NEW j \in Jobs
      PROVE  Idle(j) \/ JobInv(job[j], OpsInFlight(j))
  <2>1. ASSUME NEW t \in RpcTypes, first[t] = j
        PROVE  Idle(j) \/ JobInv(job[j], OpsInFlight(j))
    <3>1. CASE t = "Bidirectional"
      BY <1>1, <2>1, <3>1 DEF StartedUp, NewHelloJob, Idle
    <3>2. CASE t # "Bidirectional"
      <4>1. job[j] = NewRpcJob(t) /\ OpsInFlight(j) = {"QUEUED_REQUEST", "DONE"}
        BY <1>1, <2>1, <3>2 DEF StartedUp, NewHelloJob
      <4>2. QED
        BY <4>1, Memory, RpcTypesAssumption
    <3>3. QED
      BY <3>1, <3>2
  <2>2. CASE job[j] = FreeMemory /\ OpsInFlight(j) = {} /\ ~job[j].alive
    <3>1. "Unary" \in RpcType
      BY DEF RpcType
    <3>2. IsJob(FreeMemory) /\ ~FreeMemory.alive /\ FreeMemory.held = {}
      BY <3>1, Memory
    <3>3. ~FreeMemory.asserted
      BY DEF FreeMemory, RpcJobFields
    <3>4. QED
      BY <2>2, <3>2, <3>3 DEF JobInv
  <2>3. QED
    BY <1>1, <2>1, <2>2 DEF StartedUp
<1>5. BooksOfAllJobs
  BY <1>4 DEF BooksOfAllJobs
<1>6. OpsInOnePlace
  BY <1>2, <1>3 DEF OpsInOnePlace, NoRepeat
<1>7. TypeOK
  <2>1. \A j \in Jobs : IsJob(job[j])
    BY <1>4, IdleIsJob DEF JobInv, Idle
  <2>2. IsCall(NoCall)
    BY DEF IsCall, NoCall
  <2>3. QED
    BY <1>2, <2>1, <2>2 DEF TypeOK
<1>8. QED
  BY <1>5, <1>6, <1>7 DEF IInv

LEMMA NextIInv == IInv /\ [Next]_vars => IInv'
<1> SUFFICES ASSUME IInv, [Next]_vars PROVE IInv'
  OBVIOUS
<1>1. CASE UNCHANGED vars
  <2>1. OtherTypesOK'
    BY <1>1 DEF vars, IInv, TypeOK, OtherTypesOK
  <2>2. QED
    BY <1>1, <2>1, SameOps DEF vars
<1>2. CASE Next
  BY <1>2, StepCases, ClientStepKeepsIInv, HandleRpcsKeepsIInv, TakeKeepsIInv,
     TurnKeepsIInv DEF Handles
<1>3. QED
  BY <1>1, <1>2

(* The books of every job fit its operations in flight, in every state.    *)
THEOREM Invariant == Spec => []IInv
<1>1. Init => IInv
  BY InitIInv
<1>2. IInv /\ [Next]_vars => IInv'
  BY NextIInv
<1>3. QED
  BY <1>1, <1>2, PTL DEF Spec

-----------------------------------------------------------------------------
(* What it says *)

(* Every variable keeps its type, for any jobs, kinds of RPC and requests: *)
(* in particular no mAsyncOpCounter goes below zero.                       *)
THEOREM TypeCorrect == Spec => []TypeOK
<1>1. IInv => TypeOK
  BY DEF IInv
<1>2. QED
  BY <1>1, Invariant, PTL

(* No use after free: a deleted job has no operation with gRPC and no tag  *)
(* in the completion queue's or the processor's lists.                     *)
THEOREM TagsNeverDangle == Spec => []NoDanglingTag
BY BooksPreventDangling, Invariant, PTL

LEMMA NextIsServerStep == IInv /\ Next => ServerStep
BY StepCases DEF ServerStep, Handles

\* The job of the bidirectional kind has nothing in flight.
ChatIdle ==
  \A j \in Jobs : job[j].type = "Bidirectional" => OpsInFlight(j) = {}

LEMMA InitChatIdle == Init => ChatIdle
<1> SUFFICES ASSUME Init, NEW j \in Jobs, job[j].type = "Bidirectional"
             PROVE  OpsInFlight(j) = {}
  BY DEF ChatIdle
<1>1. PICK first : StartedUp(first)
  BY InitStartsUp
<1>2. QED
  BY <1>1 DEF StartedUp

LEMMA NextChatIdle == IInv /\ ChatIdle /\ [Next]_vars => ChatIdle'
<1> SUFFICES ASSUME IInv, ChatIdle, [Next]_vars
             PROVE  ChatIdle'
  OBVIOUS
<1>1. ASSUME NEW i \in Jobs, Unmoved(i), job'[i].type = "Bidirectional"
      PROVE  OpsInFlight(i)' = {}
  BY <1>1 DEF ChatIdle, Unmoved
<1>2. ASSUME NEW j \in Jobs, ClientStep(j) PROVE ChatIdle'
  BY <1>1, <1>2, ClientStepKeepsIInv DEF ChatIdle
<1>3. ASSUME NEW j \in Jobs, NEW op \in TagOp, HandleRpcs(j, op) PROVE ChatIdle'
  <2>1. PICK ok \in BOOLEAN : CompletedFor(j, op, ok)
    BY <1>3, HandleRpcsKeepsIInv
  <2>2. job'[j].type = job[j].type /\ OpsInFlight(j)' = OpsInFlight(j)
    <3>1. job'[j] = Complete(job[j], call[j], op, ok) /\ IsJob(job[j])
      BY <2>1 DEF CompletedFor, IInv, TypeOK
    <3>2. Complete(job[j], call[j], op, ok).type = job[j].type
      BY <3>1, Fields DEF Complete, IsJob
    <3>3. QED
      BY <2>1, <3>1, <3>2 DEF CompletedFor
  <2>3. \A i \in Jobs \ {j} : Unmoved(i)
    BY <2>1 DEF CompletedFor
  <2>4. QED
    BY <1>1, <2>2, <2>3 DEF ChatIdle
<1>4. CASE TakeIncomingTags
  BY <1>1, <1>4, TakeKeepsIInv DEF ChatIdle
<1>5. CASE UNCHANGED vars
  BY <1>1, <1>5, NothingMoves DEF vars, ChatIdle
<1>6. ASSUME NEW j, NEW op, NEW ok, NEW r, Handles(j, op, ok, r)
      PROVE  ChatIdle'
  <2>1. TurnOf(j, op, ok, r)
    BY <1>6 DEF Handles
  <2>2. Processed(j, op, ok, r) /\ j \in Jobs /\ op \in OpsInFlight(j)
    BY <2>1, TurnKeepsIInv
  <2>3. r.type = job[j].type /\ r.type # "Bidirectional"
    BY <2>1, <2>2 DEF TurnOf, Handled, ChatIdle
  <2>4. job'[j].type # "Bidirectional"
    BY <2>2, <2>3 DEF Processed
  <2>5. ASSUME NEW k, Created(k, r.type) PROVE job'[k].type # "Bidirectional"
    <3>1. r.type \in RpcType
      BY <2>1 DEF TurnOf, Handled, JobInv, IsJob
    <3>2. QED
      BY <2>3, <2>5, <3>1, Memory DEF Created
  <2>6. CASE op = "QUEUED_REQUEST"
    <3>1. PICK k \in Jobs \ {j} : /\ Created(k, r.type)
                                  /\ \A i \in Jobs \ {j, k} : Unmoved(i)
      BY <2>2, <2>6 DEF Processed
    <3>2. QED
      BY <1>1, <2>4, <2>5, <3>1 DEF ChatIdle
  <2>7. CASE op # "QUEUED_REQUEST"
    BY <1>1, <2>2, <2>4, <2>7 DEF Processed, ChatIdle
  <2>8. QED
    BY <2>6, <2>7
<1>7. QED
  BY <1>2, <1>3, <1>4, <1>5, <1>6, StepCases

(* Each kind whose request is queued at the start always has exactly one   *)
(* job that awaits its next call; the chat, whose constructor queues none, *)
(* never has one.                                                          *)
THEOREM OneJobAwaitsEachServed == Spec => []OneJobAwaitsEachServedKind
<1> DEFINE ServedAwait == \A t \in Served : OneJobAwaits(t)
<1>1. Init => ServedAwait
  <2> SUFFICES ASSUME Init, NEW t \in Served PROVE OneJobAwaits(t)
    OBVIOUS
  <2>1. PICK first : StartedUp(first)
    BY InitStartsUp
  <2>2. t \in RpcTypes /\ t # "Bidirectional" /\ first[t] \in Jobs
    BY <2>1 DEF StartedUp, Served
  <2>3. \A i \in Jobs : i = first[t] <=> Awaits(i, t)
    BY <2>1, <2>2 DEF StartedUp, Awaits
  <2>4. QED
    BY <2>2, <2>3, OneAwaits
<1>2. IInv /\ ServedAwait /\ [Next]_vars => ServedAwait'
  <2> SUFFICES ASSUME IInv, ServedAwait, [Next]_vars, NEW t \in Served
               PROVE  OneJobAwaits(t)'
    BY DEF Served
  <2>1. OneJobAwaits(t)
    OBVIOUS
  <2>2. CASE UNCHANGED vars
    BY <2>1, <2>2 DEF vars, OneJobAwaits, InFlight, InQueue
  <2>3. CASE Next
    BY <2>1, <2>3, NextIsServerStep, StepKeepsAwaiting
  <2>4. QED
    BY <2>2, <2>3
<1>3. ServedAwait /\ ChatIdle => OneJobAwaitsEachServedKind
  BY DEF ChatIdle, OneJobAwaitsEachServedKind, Served, OpsInFlight, TagOp, AsyncOpType
<1>4. QED
  BY <1>1, <1>2, <1>3, InitChatIdle, NextChatIdle, Invariant, PTL DEF Spec

-----------------------------------------------------------------------------
(* The calls of the jobs *)

(* No handler loses the request, takes back a Finish, or believes the      *)
(* stream of requests over before a read has failed.                       *)
LEMMA TurnKeepsRequests ==
  ASSUME IInv, CallsFit, NEW j, NEW op, NEW ok, NEW r, Handles(j, op, ok, r), r.alive
  PROVE  KeepsRequests(job[j], op, ok, r)
<1> DEFINE q == job[j]
           F == OpsInFlight(j)
<1>1. /\ j \in Jobs /\ op \in TagOp /\ ok \in BOOLEAN
      /\ q.alive /\ JobInv(q, F) /\ op \in Results(j, ok) /\ op \in F
      /\ op \notin q.held
  BY TurnKeepsIInv DEF Handles
<1>2. HandlerResult(j, op, ok, r)
  BY DEF Handles
<1>3. q.finishes \in Nat
  BY <1>1 DEF JobInv, IsJob
<1>4. op = "QUEUED_REQUEST" => ok
  <2>1. CallFits(q, call[j], F, Results(j, TRUE), Results(j, FALSE))
    BY <1>1 DEF CallsFit, FitsAt
  <2>2. QED
    BY <1>1, <2>1 DEF CallFits
<1>5. CASE op = "QUEUED_REQUEST" /\ q.type = "Unary"
  <2>1. PICK response : r = UnaryOnRead(q, TRUE, response)
    BY <1>1, <1>2, <1>4, <1>5 DEF HandlerResult
  <2>2. Keeps(q, r, {"mResponse", "finishes"}) /\ r.finishes = q.finishes + 1
    <3> HIDE DEF q, F
    <3>1. QED
      BY <1>1, <2>1, UnaryAnswers
  <2>3. r.mRequest = q.mRequest /\ r.mClientStreamingDone = q.mClientStreamingDone
    BY <2>2, Fields DEF Keeps, Books
  <2>4. QED
    BY <1>3, <2>2, <2>3 DEF KeepsRequests
<1>6. CASE op = "QUEUED_REQUEST" /\ q.type = "ServerStreaming"
  <2>1. r = ServerStreamingOnRead(q, TRUE, mHelloReplyList)
    BY <1>1, <1>2, <1>4, <1>6 DEF HandlerResult
  <2>2. PICK a : a = RequestAccepted(q)
    OBVIOUS
  <2>3. IF a.alive THEN r = SendEnd(a) ELSE r = a
    BY <2>1, <2>2 DEF ServerStreamingOnRead, SendAll, mHelloReplyList
  <2>4. a.alive /\ r = SendEnd(a)
    BY <2>3
  <2>5. Keeps(q, a, {}) /\ a.held = q.held
    BY <1>1, <2>2, <2>4, Retired DEF RequestAccepted
  <2>6. JobInv(a, F \ {op})
    BY <1>1, <1>6, <2>2, RequestTaken
  <2>7. /\ Keeps(a, r, {"mServerStreamingDone", "finishes"})
        /\ r.finishes = a.finishes \/ r.finishes = a.finishes + 1
    BY <2>4, <2>6, EndQueued
  <2>8. /\ r.mRequest = q.mRequest
        /\ r.mClientStreamingDone = q.mClientStreamingDone
        /\ a.finishes = q.finishes
    BY <2>5, <2>7, Fields DEF Keeps, Books
  <2>9. r.finishes >= q.finishes
    BY <1>3, <2>7, <2>8
  <2>10. QED
    BY <2>8, <2>9 DEF KeepsRequests
<1>7. CASE op = "QUEUED_REQUEST" /\ q.type = "ClientStreaming"
  <2>1. r = ClientStreamingOnInit(q, TRUE)
    BY <1>1, <1>2, <1>4, <1>7 DEF HandlerResult
  <2>2. Keeps(q, r, {})
    BY <1>1, <2>1, StreamAccepted
  <2>3. /\ r.mRequest = q.mRequest /\ r.finishes = q.finishes
        /\ r.mClientStreamingDone = q.mClientStreamingDone
    BY <2>2, Fields DEF Keeps, Books
  <2>4. QED
    BY <1>3, <2>3 DEF KeepsRequests
<1>8. CASE op = "READ"
  <2>1. PICK response : r = ClientStreamingOnRead(q, ok, response)
    BY <1>2, <1>8 DEF HandlerResult
  <2>2. /\ ok => Keeps(q, r, {})
        /\ ~ok => /\ Keeps(q, r, {"mResponse", "finishes", "mClientStreamingDone"})
                  /\ r.finishes = q.finishes + 1
    BY <1>1, <2>1, StreamRead
  <2>3. /\ r.mRequest = q.mRequest
        /\ ok => /\ r.finishes = q.finishes
                 /\ r.mClientStreamingDone = q.mClientStreamingDone
    BY <1>1, <2>2, Fields DEF Keeps, Books
  <2>4. r.finishes >= q.finishes
    BY <1>1, <1>3, <2>2, <2>3
  <2>5. QED
    BY <1>1, <1>8, <2>3, <2>4 DEF KeepsRequests
<1>9. CASE op = "FINISH" \/ op = "DONE"
  <2>1. Keeps(q, r, {"mOnDoneCalled"})
    <3>1. CASE op = "FINISH"
      <4>1. r = AsyncOpFinished(q, "FINISH")
        BY <1>2, <3>1 DEF HandlerResult, OnFinish
      <4>2. QED
        BY <1>1, <4>1, Retired DEF Keeps
    <3>2. CASE op = "DONE"
      <4>1. r = OnDone(q)
        BY <1>2, <3>2 DEF HandlerResult
      <4>2. QED
        BY <1>1, <4>1, DoneKeeps
    <3>3. QED
      BY <1>9, <3>1, <3>2
  <2>2. /\ r.mRequest = q.mRequest /\ r.finishes = q.finishes
        /\ r.mClientStreamingDone = q.mClientStreamingDone
    BY <2>1, Fields DEF Keeps, Books
  <2>3. QED
    BY <1>3, <2>2 DEF KeepsRequests
<1>10. QED
  BY <1>2, <1>5, <1>6, <1>7, <1>8, <1>9 DEF HandlerResult

LEMMA InitCallsFit == Init => CallsFit
<1> SUFFICES ASSUME Init, NEW j \in Jobs PROVE FitsAt(j)
  BY DEF CallsFit
<1>1. PICK first : StartedUp(first)
  BY InitStartsUp
<1>2. call[j] = NoCall /\ Results(j, TRUE) = {} /\ Results(j, FALSE) = {}
  BY <1>1 DEF Init, StartedUp
<1>3. CASE OpsInFlight(j) = {}
  BY <1>2, <1>3 DEF FitsAt
<1>4. ASSUME NEW t \in RpcTypes, first[t] = j PROVE FitsAt(j)
  <2>1. CASE t = "Bidirectional"
    BY <1>1, <1>3, <1>4, <2>1 DEF StartedUp
  <2>2. CASE t # "Bidirectional"
    <3>1. job[j] = NewRpcJob(t) /\ OpsInFlight(j) = {"QUEUED_REQUEST", "DONE"}
      BY <1>1, <1>4, <2>2 DEF StartedUp, NewHelloJob
    <3>2. t \in RpcType
      BY RpcTypesAssumption
    <3>3. CallFits(NewRpcJob(t), NoCall, {"QUEUED_REQUEST", "DONE"}, {}, {})
      BY <3>2, NewJobHasNoCall
    <3>4. QED
      BY <1>2, <3>1, <3>3 DEF FitsAt
  <2>3. QED
    BY <2>1, <2>2
<1>5. QED
  BY <1>1, <1>3, <1>4 DEF StartedUp

LEMMA NextCallsFit == IInv /\ CallsFit /\ [Next]_vars => CallsFit'
<1> SUFFICES ASSUME IInv, CallsFit, [Next]_vars PROVE CallsFit'
  OBVIOUS
<1>1. ASSUME NEW j \in Jobs, ClientStep(j) PROVE CallsFit'
  BY <1>1, ClientStepKeepsCalls
<1>2. ASSUME NEW j \in Jobs, NEW op \in TagOp, HandleRpcs(j, op) PROVE CallsFit'
  BY <1>2, HandleRpcsKeepsIInv, CompletionKeepsCalls
<1>3. ASSUME \A i \in Jobs : Unmoved(i), call' = call PROVE CallsFit'
  BY <1>3, UnmovedStillFits DEF CallsFit
<1>4. CASE TakeIncomingTags
  BY <1>3, <1>4, TakeKeepsIInv DEF TakeIncomingTags
<1>5. CASE UNCHANGED vars
  BY <1>3, <1>5, NothingMoves DEF vars
<1>6. ASSUME NEW j, NEW op, NEW ok, NEW r, Handles(j, op, ok, r) PROVE CallsFit'
  BY <1>6, TurnKeepsCalls, TurnKeepsRequests DEF Handles
<1>7. QED
  BY <1>1, <1>2, <1>4, <1>5, <1>6, StepCases

(* What a job has received fits its call, in every state.                  *)
THEOREM CallsAlwaysFit == Spec => []CallsFit
BY InitCallsFit, NextCallsFit, Invariant, PTL DEF Spec

-----------------------------------------------------------------------------
(* What RecordHelloReply keeps of the calls *)

\* mRecordHelloReplyStateMap[job] for an entry e, or for no entry.
StateOf(e) == IF e = NULL THEN [count |-> 0] ELSE e

EntryOK(e) == e = NULL \/ e \in [count : Nat]

\* Entry e of job r, whose call has had n requests: it counts them until the
\* reply is sent and the entry erased, and the reply does from then on.
EntryFits(r, n, e) ==
  IF r.finishes = 0 THEN StateOf(e).count >= n
                    ELSE e = NULL /\ r.mResponse.count >= n

CountFits(j) ==
  OpsInFlight(j) # {} /\ job[j].type = "ClientStreaming" =>
    EntryFits(job[j], RequestsHandled(call[j], Results(j, TRUE)), mRecordStateMap[j])

CountsFit == \A j \in Jobs : CountFits(j) /\ EntryOK(mRecordStateMap[j])

LEMMA EntryIsCount ==
  ASSUME NEW e, EntryOK(e)
  PROVE  StateOf(e) \in [count : Nat] /\ StateOf(e).count \in Nat
BY DEF EntryOK, StateOf

LEMMA RequestEnters ==
  ASSUME NEW n \in Nat, NEW e, EntryOK(e), NEW q, q.finishes = 0, EntryFits(q, n - 1, e),
         NEW s, s.finishes = 0,
         NEW d, d = [StateOf(e) EXCEPT !.count = @ + 1]
  PROVE  EntryOK(d) /\ EntryFits(s, n, d)
<1>1. StateOf(e) \in [count : Nat] /\ StateOf(e).count \in Nat
  BY EntryIsCount
<1>2. d \in [count : Nat] /\ d.count = StateOf(e).count + 1
  BY <1>1
<1>3. StateOf(d) = d /\ EntryOK(d)
  BY <1>2, NoCountIsNull DEF StateOf, EntryOK
<1>4. StateOf(e).count >= n - 1
  BY DEF EntryFits
<1>5. d.count >= n
  BY <1>1, <1>2, <1>4
<1>6. QED
  BY <1>3, <1>5 DEF EntryFits

LEMMA EntryReplied ==
  ASSUME NEW n, NEW e, NEW q, q.finishes = 0, EntryFits(q, n, e),
         NEW s, s.finishes # 0, s.mResponse = StateOf(e)
  PROVE  EntryFits(s, n, NULL)
BY DEF EntryFits

LEMMA EntryStays ==
  ASSUME NEW n, NEW e, NEW q, EntryFits(q, n, e),
         NEW s, s.finishes = q.finishes, s.mResponse = q.mResponse
  PROVE  EntryFits(s, n, e)
BY DEF EntryFits

LEMMA NewJobHasNoRequests ==
  ASSUME NEW t, NEW e, EntryOK(e)
  PROVE  EntryFits(NewRpcJob(t), RequestsHandled(NoCall, {}), e)
<1>1. NewRpcJob(t).finishes = 0
  BY DEF NewRpcJob, GrpcHolds, AsyncOpStarted, RpcJobFields
<1>2. RequestsHandled(NoCall, {}) = 0
  BY DEF RequestsHandled, NoCall, One
<1>3. StateOf(e).count >= 0
  BY EntryIsCount
<1>4. QED
  BY <1>1, <1>2, <1>3 DEF EntryFits

LEMMA UnmovedStillCounts ==
  ASSUME CountsFit, NEW i \in Jobs, Unmoved(i), call'[i] = call[i],
         mRecordStateMap'[i] = mRecordStateMap[i]
  PROVE  CountFits(i)' /\ EntryOK(mRecordStateMap'[i])
BY DEF CountsFit, CountFits, Unmoved

LEMMA ClientKeepsCounts ==
  ASSUME IInv, CallsFit, CountsFit, NEW j \in Jobs, ClientStep(j)
  PROVE  CountsFit'
<1> DEFINE q == job[j]
           c == call[j]
           d == call'[j]
           F == OpsInFlight(j)
           S == Results(j, TRUE)
           X == Results(j, FALSE)
<1>1. /\ IInv' /\ \A i \in Jobs : Unmoved(i)
      /\ \A i \in Jobs \ {j} : call'[i] = call[i]
      /\ mRecordStateMap' = mRecordStateMap
  BY ClientStepKeepsIInv
<1>2. IsCall(c) /\ IsCall(d)
  BY <1>1 DEF IInv, TypeOK
<1>3. ClientMoves(q, c, d) /\ F # {} /\ JobInv(q, F) /\ CallFits(q, c, F, S, X)
  BY ClientStepMoves
<1>4. d.delivered = c.delivered
  <2>1. CASE c.phase = "None" /\ "QUEUED_REQUEST" \in q.held /\ d.phase = "Open" /\ d.sent = 0
    <3>1. c.delivered = 0
      BY <1>3, <2>1 DEF JobInv, CallFits
    <3>2. d.delivered = 0
      BY <1>2, <2>1 DEF IsCall
    <3>3. QED
      BY <3>1, <3>2
  <2>2. QED
    BY <1>3, <2>1 DEF ClientMoves
<1>5. RequestsHandled(d, S) = RequestsHandled(c, S)
  BY <1>4 DEF RequestsHandled
<1>6. CountFits(j)'
  BY <1>1, <1>5 DEF CountsFit, CountFits, Unmoved
<1>7. QED
  BY <1>1, <1>6, UnmovedStillCounts DEF CountsFit

LEMMA CompletionKeepsCounts ==
  ASSUME IInv, CallsFit, CountsFit, NEW j \in Jobs, NEW op \in TagOp,
         NEW ok \in BOOLEAN, CompletedFor(j, op, ok), mRecordStateMap' = mRecordStateMap
  PROVE  CountsFit'
<1> DEFINE q == job[j]
           c == call[j]
           F == OpsInFlight(j)
           S == Results(j, TRUE)
           e == mRecordStateMap[j]
<1>1. /\ op \in q.held
      /\ job'[j] = Complete(q, c, op, ok)
      /\ call' = [call EXCEPT ![j] = Delivered(c, op, ok)]
      /\ F' = F
      /\ S' = (IF ok THEN S \cup {op} ELSE S)
      /\ \A i \in Jobs \ {j} : Unmoved(i)
  BY DEF CompletedFor
<1>2. F # {} /\ JobInv(q, F)
  BY <1>1, CallHasJob
<1>3. IsCall(c) /\ DOMAIN call = Jobs /\ op \notin S
  BY <1>1, OpsInFlightPlaced DEF IInv, TypeOK, Placed
<1>4. /\ call'[j] = Delivered(c, op, ok)
      /\ \A i \in Jobs \ {j} : call'[i] = call[i]
  BY <1>1, <1>3
<1>5. /\ job'[j].type = q.type /\ job'[j].finishes = q.finishes
      /\ job'[j].mResponse = q.mResponse
  BY <1>1, <1>2, Fields DEF Complete, JobInv, IsJob
<1>6. RequestsHandled(call'[j], S') = RequestsHandled(c, S)
  <2>1. PICK d, T : d = call'[j] /\ T = S'
    OBVIOUS
  <2> HIDE DEF c, S
  <2>2. RequestsHandled(d, T) = RequestsHandled(c, S)
    BY <1>1, <1>3, <1>4, <2>1, CompletionHandlesNoRequest
  <2>3. QED
    BY <2>1, <2>2
<1>7. CountFits(j)'
  <2>1. q.type = "ClientStreaming" => EntryFits(q, RequestsHandled(c, S), e)
    BY <1>2 DEF CountsFit, CountFits
  <2>2. PICK s : s = job'[j]
    OBVIOUS
  <2>3. s.type = "ClientStreaming" => EntryFits(s, RequestsHandled(call'[j], S'), e)
    <3> HIDE DEF q, c, S, e
    <3>1. QED
      BY <1>5, <1>6, <2>1, <2>2, EntryStays
  <2>4. QED
    BY <2>2, <2>3 DEF CountFits
<1>8. QED
  BY <1>1, <1>4, <1>7, UnmovedStillCounts DEF CountsFit

(* What the handler of job j makes of its entry.                           *)
LEMMA TurnKeepsEntry ==
  ASSUME IInv, CallsFit, CountsFit, NEW j, NEW op, NEW ok, NEW r,
         Handles(j, op, ok, r), r.alive, job[j].type = "ClientStreaming"
  PROVE  LET d == IF op = "READ" THEN RecordHelloReplyEntry(j, r, ok)
                  ELSE mRecordStateMap[j]
         IN  EntryOK(d) /\ EntryFits(r, RequestsHandled(call[j], Results(j, TRUE) \ {op}), d)
<1> DEFINE q == job[j]
           c == call[j]
           F == OpsInFlight(j)
           S == Results(j, TRUE)
           X == Results(j, FALSE)
           e == mRecordStateMap[j]
<1>1. /\ j \in Jobs /\ op \in TagOp /\ ok \in BOOLEAN
      /\ q.alive /\ JobInv(q, F) /\ op \in Results(j, ok) /\ op \in F
  BY TurnKeepsIInv DEF Handles
<1>2. CallFits(q, c, F, S, X) /\ Placed(q, F, S, X) /\ IsCall(c)
  BY <1>1, OpsInFlightPlaced DEF CallsFit, FitsAt, IInv, TypeOK
<1>3. op \in (IF ok THEN S ELSE X)
  BY <1>1
<1>4. HandlerResult(j, op, ok, r)
  BY DEF Handles
<1>5. EntryOK(e) /\ EntryFits(q, RequestsHandled(c, S), e)
  BY <1>1 DEF CountsFit, CountFits
<1>6. CASE op = "READ"
  <2>1. r = ClientStreamingOnRead(q, ok, RecordHelloReplyState(j))
    BY <1>4, <1>6 DEF HandlerResult
  <2>2. RecordHelloReplyState(j) = StateOf(e)
    BY DEF RecordHelloReplyState, StateOf
  <2>3. q.finishes = 0
    BY <1>1, <1>6 DEF JobInv, StagesFit, IsJob
  <2>4. PICK reply : reply = StateOf(e)
    OBVIOUS
  <2>5. /\ ok => Keeps(q, r, {})
        /\ ~ok => r.mResponse = reply /\ r.finishes = q.finishes + 1
    BY <1>1, <2>1, <2>2, <2>4, StreamRead
  <2>6. CASE ok
    <3>1. r.finishes = 0
      BY <2>3, <2>5, <2>6, Fields DEF Keeps, Books
    <3>2. RecordHelloReplyEntry(j, r, ok) = [StateOf(e) EXCEPT !.count = @ + 1]
      BY <2>2, <2>6 DEF RecordHelloReplyEntry, CountRequest
    <3>3. "READ" \in S /\ c.delivered \in Nat
      <4>1. "READ" \in S
        BY <1>3, <1>6, <2>6
      <4>2. c.delivered \in Nat
        BY <1>2 DEF IsCall
      <4>3. QED
        BY <4>1, <4>2
    <3>4. /\ RequestsHandled(c, S) = c.delivered - 1
          /\ RequestsHandled(c, S \ {op}) = c.delivered
      <4> HIDE DEF c, S
      <4>1. QED
        BY <1>6, <3>3, ReadIsHandled
    <3>5. PICK n, d : n = c.delivered /\ d = RecordHelloReplyEntry(j, r, ok)
      OBVIOUS
    <3>6. EntryOK(d) /\ EntryFits(r, n, d)
      <4>1. /\ n \in Nat /\ EntryFits(q, n - 1, e)
            /\ d = [StateOf(e) EXCEPT !.count = @ + 1]
        BY <1>5, <3>2, <3>3, <3>4, <3>5
      <4> HIDE DEF q, e
      <4>2. QED
        BY <1>5, <2>3, <3>1, <4>1, RequestEnters
    <3>7. QED
      BY <1>6, <3>4, <3>5, <3>6
  <2>7. CASE ~ok
    <3>1. r.mResponse = StateOf(e) /\ r.finishes # 0
      BY <2>3, <2>4, <2>5, <2>7
    <3>2. RecordHelloReplyEntry(j, r, ok) = NULL
      BY <2>7 DEF RecordHelloReplyEntry
    <3>3. RequestsHandled(c, S \ {op}) = RequestsHandled(c, S)
      <4>1. "READ" \notin S
        BY <1>2, <1>3, <1>6, <2>7 DEF Placed
      <4>2. One("READ" \in S) = One("READ" \in S \ {op})
        BY <4>1 DEF One
      <4>3. QED
        BY <4>2 DEF RequestsHandled
    <3>4. PICK n : n = RequestsHandled(c, S)
      OBVIOUS
    <3>5. EntryFits(r, n, NULL)
      <4>1. EntryFits(q, n, e)
        BY <1>5, <3>4
      <4> HIDE DEF q, e
      <4>2. QED
        BY <2>3, <3>1, <4>1, EntryReplied
    <3>6. EntryOK(NULL)
      BY DEF EntryOK
    <3>7. QED
      BY <1>6, <3>2, <3>3, <3>4, <3>5, <3>6
  <2>8. QED
    BY <2>6, <2>7
<1>7. CASE op # "READ"
  <2>1. Keeps(q, r, {"mOnDoneCalled"})
    <3>1. CASE op = "QUEUED_REQUEST"
      <4>1. r = ClientStreamingOnInit(q, TRUE)
        <5>1. ok
          BY <1>2, <1>3, <3>1 DEF CallFits
        <5>2. r = ClientStreamingOnInit(q, ok)
          BY <1>4, <3>1 DEF HandlerResult
        <5>3. QED
          BY <1>1, <5>1, <5>2
      <4>2. Keeps(q, r, {})
        BY <1>1, <4>1, StreamAccepted
      <4>3. QED
        BY <4>2 DEF Keeps
    <3>2. CASE op = "FINISH"
      <4>1. r = AsyncOpFinished(q, "FINISH")
        BY <1>4, <3>2 DEF HandlerResult, OnFinish
      <4>2. Keeps(q, r, {})
        BY <1>1, <4>1, Retired
      <4>3. QED
        BY <4>2 DEF Keeps
    <3>3. CASE op = "DONE"
      <4>1. r = OnDone(q)
        BY <1>4, <3>3 DEF HandlerResult
      <4>2. QED
        BY <1>1, <4>1, DoneKeeps
    <3>4. op # "WRITE"
      BY <1>1 DEF JobInv, StagesFit
    <3>5. QED
      BY <1>1, <1>7, <3>1, <3>2, <3>3, <3>4 DEF TagOp, AsyncOpType
  <2>2. r.finishes = q.finishes /\ r.mResponse = q.mResponse
    BY <2>1, Fields DEF Keeps, Books
  <2>3. RequestsHandled(c, S \ {op}) = RequestsHandled(c, S)
    <3>1. "READ" \in S \ {op} <=> "READ" \in S
      BY <1>7
    <3>2. QED
      BY <3>1 DEF RequestsHandled, One
  <2>4. EntryFits(r, RequestsHandled(c, S), e)
    <3>1. PICK n : n = RequestsHandled(c, S)
      OBVIOUS
    <3>2. EntryFits(q, n, e)
      BY <1>5, <3>1
    <3>3. EntryFits(r, n, e)
      <4> HIDE DEF q, e
      <4>1. QED
        BY <2>2, <3>2, EntryStays
    <3>4. QED
      BY <3>1, <3>3
  <2>5. QED
    BY <1>5, <1>7, <2>3, <2>4
<1>8. QED
  BY <1>6, <1>7

LEMMA TurnKeepsCounts ==
  ASSUME IInv, CallsFit, CountsFit, NEW j, NEW op, NEW ok, NEW r,
         Handles(j, op, ok, r)
  PROVE  CountsFit'
<1> DEFINE e == mRecordStateMap[j]
           d == mRecordStateMap'[j]
<1>1. TurnOf(j, op, ok, r)
  BY DEF Handles
<1>2. /\ Processed(j, op, ok, r)
      /\ j \in Jobs /\ op \in OpsInFlight(j) /\ JobInv(job[j], OpsInFlight(j))
  BY <1>1, TurnKeepsIInv
<1>3. /\ job'[j] = r
      /\ OpsInFlight(j)' = (OpsInFlight(j) \ {op}) \cup r.held
      /\ Results(j, TRUE)' = Results(j, TRUE) \ {op}
      /\ call' = [call EXCEPT ![j] = IF r.alive THEN @ ELSE NoCall]
  BY <1>2 DEF Processed
<1>4. /\ JobInv(r, (OpsInFlight(j) \ {op}) \cup r.held)
      /\ r.type = job[j].type
  BY <1>1 DEF TurnOf, Handled
<1>5. DOMAIN call = Jobs /\ DOMAIN mRecordStateMap = Jobs
  BY DEF IInv, TypeOK
<1>6. \A i \in Jobs \ {j} : call'[i] = call[i]
  BY <1>3, <1>5
<1>7. /\ \A i \in Jobs \ {j} : mRecordStateMap'[i] = mRecordStateMap[i]
      /\ d = IF op = "READ" THEN RecordHelloReplyEntry(j, r, ok) ELSE e
  <2>1. MapResult(j, op, ok, r)
    BY DEF Handles
  <2>2. QED
    BY <1>2, <1>5, <2>1 DEF MapResult
<1>8. CountFits(j) /\ EntryOK(e)
  BY <1>2 DEF CountsFit
<1>9. op = "READ" => job[j].type = "ClientStreaming"
  BY DEF Handles, HandlerResult
<1>10. CountFits(j)' /\ EntryOK(d)
  <2>1. CASE ~r.alive
    <3>1. OpsInFlight(j)' = {}
      BY <1>3, <1>4, <2>1 DEF JobInv
    <3>2. d = e
      BY <1>7, <2>1 DEF RecordHelloReplyEntry
    <3>3. QED
      BY <1>8, <3>1, <3>2 DEF CountFits
  <2>2. CASE r.alive /\ job[j].type = "ClientStreaming"
    <3>1. call'[j] = call[j]
      BY <1>2, <1>3, <1>5, <2>2
    <3>2. EntryOK(d) /\ EntryFits(r, RequestsHandled(call[j], Results(j, TRUE) \ {op}), d)
      BY <1>7, <2>2, TurnKeepsEntry
    <3>3. QED
      BY <1>3, <3>1, <3>2 DEF CountFits
  <2>3. CASE r.alive /\ job[j].type # "ClientStreaming"
    <3>1. d = e
      BY <1>7, <1>9, <2>3
    <3>2. job'[j].type # "ClientStreaming"
      BY <1>3, <1>4, <2>3
    <3>3. QED
      BY <1>8, <3>1, <3>2 DEF CountFits
  <2>4. QED
    BY <2>1, <2>2, <2>3
<1>11. CASE op = "QUEUED_REQUEST"
  <2>1. PICK k \in Jobs \ {j} : /\ Created(k, r.type)
                                /\ \A i \in Jobs \ {j, k} : Unmoved(i)
    BY <1>2, <1>11 DEF Processed
  <2>2. call'[k] = NoCall
    BY <1>6, <2>1, CallHasJob DEF Created
  <2>3. mRecordStateMap'[k] = mRecordStateMap[k] /\ EntryOK(mRecordStateMap[k])
    BY <1>7, <2>1 DEF CountsFit
  <2>4. job'[k] = NewRpcJob(r.type) /\ Results(k, TRUE)' = {}
    BY <2>1 DEF Created
  <2>5. EntryFits(job'[k], RequestsHandled(call'[k], Results(k, TRUE)'), mRecordStateMap'[k])
    BY <2>2, <2>3, <2>4, NewJobHasNoRequests
  <2>6. CountFits(k)' /\ EntryOK(mRecordStateMap'[k])
    BY <2>3, <2>5 DEF CountFits
  <2>7. \A i \in Jobs \ {j, k} : CountFits(i)' /\ EntryOK(mRecordStateMap'[i])
    BY <1>6, <1>7, <2>1, UnmovedStillCounts
  <2>8. QED
    BY <1>10, <2>6, <2>7 DEF CountsFit
<1>12. CASE op # "QUEUED_REQUEST"
  <2>1. \A i \in Jobs \ {j} : Unmoved(i)
    BY <1>2, <1>12 DEF Processed
  <2>2. \A i \in Jobs \ {j} : CountFits(i)' /\ EntryOK(mRecordStateMap'[i])
    BY <1>6, <1>7, <2>1, UnmovedStillCounts
  <2>3. QED
    BY <1>10, <2>2 DEF CountsFit
<1>13. QED
  BY <1>11, <1>12

LEMMA InitCounts == Init => CountsFit
<1> SUFFICES ASSUME Init, NEW j \in Jobs
             PROVE  CountFits(j) /\ EntryOK(mRecordStateMap[j])
  BY DEF CountsFit
<1>1. PICK first : StartedUp(first)
  BY InitStartsUp
<1>2. call[j] = NoCall /\ Results(j, TRUE) = {} /\ mRecordStateMap[j] = NULL
  BY <1>1 DEF Init, StartedUp
<1>3. EntryOK(mRecordStateMap[j])
  BY <1>2 DEF EntryOK
<1>4. CASE OpsInFlight(j) = {}
  BY <1>3, <1>4 DEF CountFits
<1>5. ASSUME NEW t \in RpcTypes, first[t] = j PROVE CountFits(j)
  <2>1. CASE t = "Bidirectional"
    BY <1>1, <1>4, <1>5, <2>1 DEF StartedUp
  <2>2. CASE t # "Bidirectional"
    <3>1. job[j] = NewRpcJob(t)
      BY <1>1, <1>5, <2>2 DEF StartedUp, NewHelloJob
    <3>2. EntryFits(job[j], RequestsHandled(call[j], Results(j, TRUE)), mRecordStateMap[j])
      BY <1>2, <1>3, <3>1, NewJobHasNoRequests
    <3>3. QED
      BY <3>2 DEF CountFits
  <2>3. QED
    BY <2>1, <2>2
<1>6. QED
  BY <1>1, <1>3, <1>4, <1>5 DEF StartedUp

LEMMA NextCounts == IInv /\ CallsFit /\ CountsFit /\ [Next]_vars => CountsFit'
<1> SUFFICES ASSUME IInv, CallsFit, CountsFit, [Next]_vars PROVE CountsFit'
  OBVIOUS
<1>1. ASSUME NEW j \in Jobs, ClientStep(j) PROVE CountsFit'
  BY <1>1, ClientKeepsCounts
<1>2. ASSUME NEW j \in Jobs, NEW op \in TagOp, HandleRpcs(j, op) PROVE CountsFit'
  BY <1>2, HandleRpcsKeepsIInv, CompletionKeepsCounts
<1>3. ASSUME \A i \in Jobs : Unmoved(i), call' = call, mRecordStateMap' = mRecordStateMap
      PROVE  CountsFit'
  BY <1>3, UnmovedStillCounts DEF CountsFit
<1>4. CASE TakeIncomingTags
  BY <1>3, <1>4, TakeKeepsIInv DEF TakeIncomingTags
<1>5. CASE UNCHANGED vars
  BY <1>3, <1>5, NothingMoves DEF vars
<1>6. ASSUME NEW j, NEW op, NEW ok, NEW r, Handles(j, op, ok, r) PROVE CountsFit'
  BY <1>6, TurnKeepsCounts
<1>7. QED
  BY <1>1, <1>2, <1>4, <1>5, <1>6, StepCases

(* The entry of a RecordHelloReply counts at least the requests handled so *)
(* far, and the reply made of it does from then on, whatever a call before *)
(* at the same address has left in the map.                                *)
THEOREM CountsAlwaysFit == Spec => []CountsFit
BY InitCounts, NextCounts, Invariant, CallsAlwaysFit, PTL DEF Spec

(* The reply to a RecordHelloReply counts each of its requests.            *)
THEOREM RepliesCount == Spec => []ReplyCountsItsRequests
<1>1. IInv /\ CallsFit /\ CountsFit => ReplyCountsItsRequests
  <2> SUFFICES ASSUME IInv, CallsFit, CountsFit, NEW j \in Jobs, job[j].alive,
                      job[j].type = "ClientStreaming", job[j].finishes > 0
               PROVE  job[j].mResponse.count >= call[j].delivered
    BY DEF ReplyCountsItsRequests
  <2> DEFINE q == job[j]
             c == call[j]
             F == OpsInFlight(j)
             S == Results(j, TRUE)
  <2>1. JobInv(q, F)
    BY IdleIsJob DEF IInv, BooksOfAllJobs, Idle
  <2>2. F # {}
    BY <2>1 DEF JobInv, BooksFit
  <2>3. EntryFits(q, RequestsHandled(c, S), mRecordStateMap[j])
    BY <2>2 DEF CountsFit, CountFits
  <2>4. "READ" \notin F /\ q.finishes # 0
    <3> HIDE DEF F
    <3>1. QED
      BY <2>1, FinishedHasEnded
  <2>5. S \subseteq F
    <3> HIDE DEF F, S
    <3>1. QED
      BY OpsInFlightPlaced DEF Placed, F, S
  <2>6. IsCall(c)
    BY DEF IInv, TypeOK
  <2>7. RequestsHandled(c, S) = c.delivered
    <3> HIDE DEF c, F, S
    <3>1. "READ" \notin S
      BY <2>4, <2>5
    <3>2. c.delivered \in Nat
      BY <2>6 DEF IsCall
    <3>3. QED
      BY <3>1, <3>2 DEF RequestsHandled, One
  <2>8. QED
    BY <2>3, <2>4, <2>7 DEF EntryFits
<1>2. QED
  BY <1>1, Invariant, CallsAlwaysFit, CountsAlwaysFit, PTL

(* A RecordHelloReply leaves its count in the map only if its call is     *)
(* dead.                                                                   *)
THEOREM OnlyTheDeadLeaveCounts == Spec => OnlyDeadCallsLeaveCounts
<1>1. ASSUME IInv, CallsFit, CountsFit, Next, NEW j \in Jobs,
             job[j].alive, job[j].type = "ClientStreaming", ~job'[j].alive,
             mRecordStateMap'[j] # NULL
      PROVE  call[j].phase = "Dead"
  <2> DEFINE q == job[j]
             c == call[j]
             F == OpsInFlight(j)
  <2>1. q.alive /\ q.type = "ClientStreaming"
    BY <1>1
  <2>2. ~Unmoved(j)
    BY <1>1, <2>1 DEF Unmoved
  <2>3. ~TakeIncomingTags
    BY <1>1, <2>2, TakeKeepsIInv
  <2>4. ASSUME NEW i \in Jobs, ClientStep(i) PROVE FALSE
    BY <1>1, <2>2, <2>4, ClientStepKeepsIInv
  <2>5. ASSUME NEW i \in Jobs, NEW op \in TagOp, HandleRpcs(i, op) PROVE FALSE
    <3>1. PICK ok \in BOOLEAN : CompletedFor(i, op, ok)
      BY <1>1, <2>5, HandleRpcsKeepsIInv
    <3>2. i = j
      BY <2>2, <3>1 DEF CompletedFor
    <3>3. job'[j] = Complete(q, c, op, ok) /\ IsJob(q)
      BY <1>1, <3>1, <3>2 DEF CompletedFor, IInv, TypeOK
    <3>4. Complete(q, c, op, ok).alive = q.alive
      BY <3>3, Fields DEF Complete, IsJob
    <3>5. QED
      BY <1>1, <2>1, <3>3, <3>4
  <2>6. PICK i, op, ok, r : Handles(i, op, ok, r)
    BY <1>1, <2>3, <2>4, <2>5, StepCases
  <2>7. TurnOf(i, op, ok, r) /\ MapResult(i, op, ok, r)
    BY <2>6 DEF Handles
  <2>8. /\ Processed(i, op, ok, r) /\ i \in Jobs /\ job[i].alive
        /\ JobInv(job[i], OpsInFlight(i)) /\ op \in OpsInFlight(i)
    BY <1>1, <2>7, TurnKeepsIInv
  <2>9. i = j
    <3>1. ~Created(j, r.type)
      BY <2>1 DEF Created
    <3>2. QED
      BY <2>2, <2>8, <3>1 DEF Processed
  <2>10. /\ job'[j] = r /\ ~r.alive
         /\ q.held \subseteq r.held
         /\ JobInv(r, (F \ {op}) \cup r.held)
    BY <1>1, <2>7, <2>8, <2>9 DEF Processed, TurnOf, Handled
  <2>11. q.held = {}
    BY <2>10 DEF JobInv
  <2>12. mRecordStateMap[j] # NULL
    <3>1. DOMAIN mRecordStateMap = Jobs
      BY <1>1 DEF IInv, TypeOK
    <3>2. mRecordStateMap'[j] = mRecordStateMap[j]
      BY <2>7, <2>9, <2>10, <3>1 DEF MapResult, RecordHelloReplyEntry
    <3>3. QED
      BY <1>1, <3>2
  <2>13. q.finishes = 0
    BY <1>1, <2>1, <2>8, <2>9, <2>12 DEF CountsFit, CountFits, EntryFits
  <2>14. CallFits(q, c, F, Results(j, TRUE), Results(j, FALSE))
    BY <1>1, <2>8, <2>9 DEF CallsFit, FitsAt
  <2> HIDE DEF q, F
  <2>15. QED
    BY <2>11, <2>13, <2>14 DEF CallFits
<1>2. IInv /\ CallsFit /\ CountsFit /\ [Next]_vars =>
        [\A j \in Jobs :
           /\ job[j].alive /\ job[j].type = "ClientStreaming" /\ ~job[j].alive'
           /\ mRecordStateMap'[j] # NULL
           => call[j].phase = "Dead"]_vars
  BY <1>1
<1>3. QED
  BY <1>2, Invariant, CallsAlwaysFit, CountsAlwaysFit, PTL
     DEF Spec, OnlyDeadCallsLeaveCounts
=============================================================================
