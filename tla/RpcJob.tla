------------------------------- MODULE RpcJob -------------------------------
(***************************************************************************)
(* The base class of every asynchronous server RPC                         *)
(* (src/src/route_guide_server_async.cpp, class RpcJob).  A job is a heap  *)
(* object; its members are the fields of a record, and every member        *)
(* function is an operator from the record before the call to the record   *)
(* after it.  The four subclasses extend this module with their handlers.  *)
(*                                                                         *)
(* Three fields are not members of the C++ class.  "held" is the set of    *)
(* operations the gRPC library has been handed for this job and has not    *)
(* completed yet; "written" and "finishes" record what the job has handed  *)
(* to mResponder.  "asserted" is set where a GPR_ASSERT would abort.       *)
(***************************************************************************)
EXTENDS Integers, Sequences

CONSTANT NULL   \* nullptr, and the content of a message nobody has filled in

\* ASYNC_OP_TYPE_INVALID and ASYNC_OP_TYPE_PUSH_TO_BACK are never used.
AsyncOpType == {"QUEUED_REQUEST", "READ", "WRITE", "FINISH"}

\* A completion-queue event is for one of these, or for the RPC being done.
TagOp == AsyncOpType \cup {"DONE"}

RpcType == {"Unary", "ServerStreaming", "ClientStreaming", "Bidirectional"}

-----------------------------------------------------------------------------
(* The members, as the constructors initialise them.                       *)

RpcJobFields(type) ==
  [type                  |-> type,
   alive                 |-> TRUE,
   mAsyncOpCounter       |-> 0,
   mAsyncReadInProgress  |-> FALSE,
   mAsyncWriteInProgress |-> FALSE,
   mOnDoneCalled         |-> FALSE,
   mClientStreamingDone  |-> FALSE,
   mServerStreamingDone  |-> FALSE,
   mRequest              |-> NULL,
   mResponse             |-> NULL,
   mResponseQueue        |-> <<>>,
   held                  |-> {},
   written               |-> <<>>,
   finishes              |-> 0,
   asserted              |-> FALSE]

\* Heap memory that holds no job.
FreeMemory == [RpcJobFields("Unary") EXCEPT !.alive = FALSE]

JobFields == DOMAIN FreeMemory

\* What a job's members are, the messages aside.
IsJob(r) ==
  /\ DOMAIN r = JobFields
  /\ r.type \in RpcType
  /\ r.mAsyncOpCounter \in Nat
  /\ r.held \subseteq TagOp
  /\ r.finishes \in Nat
  /\ r.alive \in BOOLEAN
  /\ r.mAsyncReadInProgress \in BOOLEAN
  /\ r.mAsyncWriteInProgress \in BOOLEAN
  /\ r.mOnDoneCalled \in BOOLEAN
  /\ r.mClientStreamingDone \in BOOLEAN
  /\ r.mServerStreamingDone \in BOOLEAN
  /\ r.asserted \in BOOLEAN

\* For counting: 1 if p holds, 0 if not.
One(p) == IF p THEN 1 ELSE 0

-----------------------------------------------------------------------------
(* Operations counted and no longer counted *)

\* A read is flagged but not counted.
MutAsyncOpStartedWriteOnly(r, opType) ==
  [r EXCEPT !.mAsyncOpCounter = IF opType = "READ" THEN @ ELSE @ + 1,
            !.mAsyncReadInProgress = @ \/ opType = "READ",
            !.mAsyncWriteInProgress = @ \/ opType = "WRITE"]

AsyncOpStarted(r, opType) ==
  [r EXCEPT !.mAsyncOpCounter = @ + 1,
            !.mAsyncReadInProgress = @ \/ opType = "READ",
            !.mAsyncWriteInProgress = @ \/ opType = "WRITE"]

\* Done() calls the application's rpcJobDoneHandler, which deletes the job:
\* its memory is free, and what gRPC still holds of it is dangling.
Done(r) == [FreeMemory EXCEPT !.type = r.type, !.held = r.held]

\* The flags stay as they are.
MutOpRetiredKeepsFlags(r, opType) == [r EXCEPT !.mAsyncOpCounter = @ - 1]

\* The operation is off the books; the in-progress flag it had is cleared.
OpRetired(r, opType) ==
  [r EXCEPT !.mAsyncOpCounter = @ - 1,
            !.mAsyncReadInProgress = @ /\ opType # "READ",
            !.mAsyncWriteInProgress = @ /\ opType # "WRITE"]

\* The last operation of an RPC that is done leaves the job where it is.
MutAsyncOpFinishedNoDone(r, opType) == OpRetired(r, opType)

\* Returns "true" exactly when the resulting job is still alive.
AsyncOpFinished(r, opType) ==
  LET retired == OpRetired(r, opType)
  IN  IF retired.mAsyncOpCounter = 0 /\ retired.mOnDoneCalled
      THEN Done(retired)
      ELSE retired

AsyncReadInProgress(r)  == r.mAsyncReadInProgress
AsyncWriteInProgress(r) == r.mAsyncWriteInProgress

\* Deleted although operations are in flight.
MutOnDoneDeletesAtOnce(r) == Done([r EXCEPT !.mOnDoneCalled = TRUE])

OnDone(r) ==
  LET called == [r EXCEPT !.mOnDoneCalled = TRUE]
  IN  IF called.mAsyncOpCounter = 0 THEN Done(called) ELSE called

-----------------------------------------------------------------------------
(* Calls into the gRPC library: the operation is now gRPC's to complete.   *)

GrpcHolds(r, op) == [r EXCEPT !.held = @ \cup {op}]

Read(r)              == GrpcHolds(r, "READ")
Write(r, response)   == [GrpcHolds(r, "WRITE") EXCEPT !.written = Append(@, response)]
Finish(r)            == [GrpcHolds(r, "FINISH") EXCEPT !.finishes = @ + 1]

-----------------------------------------------------------------------------
(* Construction.  Every subclass constructor asks for the done event, lets *)
(* the application know the job, and queues the request for the next RPC.  *)

NewRpcJob(type) ==
  GrpcHolds(AsyncOpStarted(GrpcHolds(RpcJobFields(type), "DONE"),
                           "QUEUED_REQUEST"),
            "QUEUED_REQUEST")

\* What every subclass has in common after its request was accepted and its
\* successor created: the request is no longer an operation in progress.
RequestAccepted(r) == AsyncOpFinished(r, "QUEUED_REQUEST")

StartRead(r) == Read(AsyncOpStarted(r, "READ"))

OnFinish(r) == AsyncOpFinished(r, "FINISH")
=============================================================================
